----------------------------- MODULE EvalCache -----------------------------
(***************************************************************************)
(* The evaluation cache of nix-for-rust: eval_attr_from_file of            *)
(* eval_cache/mod.rs with the query and the insertion of eval_cache/db.rs, *)
(* run by several processes that share one SQLite database, while an       *)
(* editor changes the files under them.                                    *)
(*                                                                         *)
(* A call hashes the main file, looks for a row of evaluation_output whose *)
(* recorded inputs still hash to the recorded digest, and otherwise forks  *)
(* a traced child that evaluates the expression, hashes what the child     *)
(* read, and stores the output: one autocommitted row, then one more per   *)
(* input.  Every access to the database or to a file is a step of its own. *)
(* The traced child is abstracted to the files it reads; module Tracer     *)
(* opens it up.                                                            *)
(***************************************************************************)
EXTENDS Integers, FiniteSets, Sequences, SequencesExt

CONSTANTS
  Procs,      \* processes that call eval_attr_from_file
  Files,      \* paths
  Mains,      \* the paths passed as main file
  Attrs,      \* accessor paths
  Bytes,      \* contents of a file, as sequences (a directory's are its entries)
  Absent,     \* the content of a path that names nothing
  Imports,    \* Imports[a][b]: the paths that evaluating a in content b reads next
  Broken,     \* contents whose evaluation throws, or yields no non-blank string
  PathClass,  \* what should_track_file tells apart: "nix", "proc", "cache", "other"
  HomeKnown,  \* whether home_dir() returns a directory
  PathOrder,  \* PathOrder[S]: the paths of S in ascending order
  Edits,      \* the changes <<path, from, to>> that the editor may make
  Volatile,   \* paths that may change during an evaluation
  MaxEdits,   \* bound on the number of edits
  MaxCalls,   \* bound on the number of calls, over all processes
  Faults      \* the failures that occur: a subset of {"crash", "db", "kill"}

Content == Bytes \cup {Absent}

ASSUME FilesFinite == IsFiniteSet(Files) /\ Mains \subseteq Files
ASSUME BytesAreSequences == \A b \in Bytes : b \in Seq(UNION {ToSet(c) : c \in Bytes})
ASSUME AbsentIsNoContent == Absent \notin Bytes
ASSUME ImportsType == Imports \in [Attrs -> [Bytes -> SUBSET Files]]
ASSUME PathOrderType ==
  /\ PathOrder \in [SUBSET Files -> Seq(Files)]
  /\ \A S \in SUBSET Files :
       Len(PathOrder[S]) = Cardinality(S) /\ ToSet(PathOrder[S]) = S
ASSUME EditsType == Edits \subseteq Files \X Content \X Content
ASSUME BoundsType == MaxEdits \in Nat /\ MaxCalls \in Nat

VARIABLES
  fs,       \* fs[f]: the content of path f
  edits,    \* number of edits made
  calls,    \* number of calls made
  outputs,  \* table evaluation_output; the id of a row is its index
  inputs,   \* table evaluation_input: pairs <<evaluation_id, file_path>>
  pc,       \* pc[p]: what p does next
  call,     \* call[p]: the FileAttribute of p's call, and the rows complete at its start
  todo,     \* todo[p]: ids of the selected rows still to be examined
  row,      \* row[p]: id of the row that p inserted
  files,    \* files[p]: sorted paths that hash_files has yet to read
  chunks,   \* chunks[p]: contents fed to the hasher so far
  view,     \* view[p]: what p's child has read, path by path
  result,   \* result[p]: what p's last call returned
  seen      \* seen[p][f]: history, the contents f had during p's last call

db == <<outputs, inputs>>
hashing == <<files, chunks>>
locals == <<todo, row, files, chunks, view>>
vars == <<fs, edits, calls, outputs, inputs, pc, call, todo, row, files, chunks, view,
          result, seen>>

Steps == {"idle", "query", "scan", "hash", "eval", "inshash", "inputs"}

NoView == [f \in {} |-> Absent]
Views == UNION {[S -> Bytes] : S \in SUBSET Files}
NoCall == [main |-> Absent, attr |-> Absent, hash |-> Absent, known |-> {}]

\* A result: the view it was computed from, and whether the text still ends in
\* the newline that the child wrote.
None == [status |-> "none", view |-> NoView, newline |-> FALSE]
Err == [status |-> "err", view |-> NoView, newline |-> FALSE]
Ok(v, nl) == [status |-> "ok", view |-> v, newline |-> nl]

----------------------------------------------------------------------------
(* Pure parts of the code.                                                 *)

\* Mutant: the test for the paths to skip is inverted.
ShouldTrackSkipped(f) == HomeKnown /\ PathClass[f] # "other"

\* FileTracer::should_track_file: without a home directory it is never true.
ShouldTrack(f) == HomeKnown /\ PathClass[f] = "other"

Tracked(v) == {f \in DOMAIN v : ShouldTrack(f)}

\* The vectors in which the members of a set may come out of a HashSet, or out
\* of a SELECT without ORDER BY.
Orders(S) == {vec \in [1..Cardinality(S) -> S] : ToSet(vec) = S}

\* Mutant: no sort.
SortNot(vec) == vec

\* files.sort()
Sort(vec) == PathOrder[ToSet(vec)]

\* hash_files: one hasher is fed every content in turn, with nothing in between.
Digest(cs) == FlattenSeq(cs)

\* Mutant: imports are not followed.
WantedMain(m, a, v) == {m}

\* The paths the evaluator has asked for, given what it has read.
Wanted(m, a, v) == {m} \cup UNION {Imports[a][v[f]] : f \in DOMAIN v}

RowInputs(id) == {f \in Files : <<id, f>> \in inputs}

Matches(r, c) == r.main = c.main /\ r.hash = c.hash /\ r.attr = c.attr

MatchingIds(c) == {id \in DOMAIN outputs : Matches(outputs[id], c)}

\* Mutant: the constraint forgets the accessor path.
ConflictsAnyAttr(c, digest) ==
  \E id \in DOMAIN outputs :
    /\ outputs[id].main = c.main /\ outputs[id].hash = c.hash
    /\ outputs[id].input_hash = digest

\* The columns of UNIQUE(input_hash, accessor_path, main_file_path, main_file_hash).
Conflicts(c, digest) ==
  \E id \in DOMAIN outputs : Matches(outputs[id], c) /\ outputs[id].input_hash = digest

\* Every input of the row has its own row in evaluation_input.
Complete(id) == RowInputs(id) = Tracked(outputs[id].output)

----------------------------------------------------------------------------
Init ==
  /\ fs \in [Files -> Content]
  /\ edits = 0
  /\ calls = 0
  /\ outputs = <<>>
  /\ inputs = {}
  /\ pc = [p \in Procs |-> "idle"]
  /\ call = [p \in Procs |-> NoCall]
  /\ todo = [p \in Procs |-> <<>>]
  /\ row = [p \in Procs |-> 0]
  /\ files = [p \in Procs |-> <<>>]
  /\ chunks = [p \in Procs |-> <<>>]
  /\ view = [p \in Procs |-> NoView]
  /\ result = [p \in Procs |-> None]
  /\ seen = [p \in Procs |-> [f \in Files |-> {}]]

\* The call returns r and its locals go out of scope.
Return(p, r) ==
  /\ pc' = [pc EXCEPT ![p] = "idle"]
  /\ result' = [result EXCEPT ![p] = r]
  /\ todo' = [todo EXCEPT ![p] = <<>>]
  /\ row' = [row EXCEPT ![p] = 0]
  /\ files' = [files EXCEPT ![p] = <<>>]
  /\ chunks' = [chunks EXCEPT ![p] = <<>>]
  /\ view' = [view EXCEPT ![p] = NoView]
  /\ UNCHANGED <<fs, edits, calls, call, seen>>

\* hash_files starts on the given set of paths, in whatever order it got them.
StartHashing(p, S) ==
  \E vec \in Orders(S) :
    /\ files' = [files EXCEPT ![p] = Sort(vec)]
    /\ chunks' = [chunks EXCEPT ![p] = <<>>]

----------------------------------------------------------------------------
(* eval_attr_from_file: the key, and the query.                            *)

NewCall(p, m, a) ==
  /\ call' = [call EXCEPT ![p] =
                [main |-> m, attr |-> a, hash |-> fs[m],
                 known |-> {id \in DOMAIN outputs : Complete(id)}]]
  /\ seen' = [seen EXCEPT ![p] = [f \in Files |-> {fs[f]}]]
  /\ calls < MaxCalls
  /\ calls' = calls + 1

\* FileAttribute::new hashes the main file.
Call(p, m, a) ==
  /\ pc[p] = "idle"
  /\ fs[m] # Absent
  /\ NewCall(p, m, a)
  /\ result' = [result EXCEPT ![p] = None]
  /\ pc' = [pc EXCEPT ![p] = "query"]
  /\ UNCHANGED <<fs, edits, db, locals>>

\* FileAttribute::new cannot read the main file.
CallMissing(p, m, a) ==
  /\ pc[p] = "idle"
  /\ fs[m] = Absent
  /\ NewCall(p, m, a)
  /\ result' = [result EXCEPT ![p] = Err]
  /\ UNCHANGED <<fs, edits, db, locals, pc>>

\* fetch_all: the rows that match the key, as of now.
Query(p) ==
  /\ pc[p] = "query"
  /\ \E ids \in Orders(MatchingIds(call[p])) : todo' = [todo EXCEPT ![p] = ids]
  /\ pc' = [pc EXCEPT ![p] = "scan"]
  /\ UNCHANGED <<fs, edits, calls, db, call, row, hashing, view, result, seen>>

\* The paths recorded for the next row, sorted to be hashed.
NextRow(p) ==
  /\ pc[p] = "scan"
  /\ todo[p] # <<>>
  /\ StartHashing(p, RowInputs(Head(todo[p])))
  /\ pc' = [pc EXCEPT ![p] = "hash"]
  /\ UNCHANGED <<fs, edits, calls, db, call, todo, row, view, result, seen>>

\* Mutant: a file that cannot be read is hashed as if it could.
HashFileAnyway(p) ==
  /\ pc[p] \in {"hash", "inshash"}
  /\ files[p] # <<>>
  /\ chunks' = [chunks EXCEPT ![p] = Append(@, fs[Head(files[p])])]
  /\ files' = [files EXCEPT ![p] = Tail(@)]
  /\ UNCHANGED <<fs, edits, calls, db, pc, call, todo, row, view, result, seen>>

\* One update of the hasher, for a query or for an insertion.
HashFile(p) ==
  /\ pc[p] \in {"hash", "inshash"}
  /\ files[p] # <<>>
  /\ fs[Head(files[p])] # Absent
  /\ chunks' = [chunks EXCEPT ![p] = Append(@, fs[Head(files[p])])]
  /\ files' = [files EXCEPT ![p] = Tail(@)]
  /\ UNCHANGED <<fs, edits, calls, db, pc, call, todo, row, view, result, seen>>

\* hash_files fails during a query: the loop continues with the next row.
SkipRow(p) ==
  /\ pc[p] = "hash"
  /\ files[p] # <<>>
  /\ fs[Head(files[p])] = Absent
  /\ todo' = [todo EXCEPT ![p] = Tail(@)]
  /\ files' = [files EXCEPT ![p] = <<>>]
  /\ chunks' = [chunks EXCEPT ![p] = <<>>]
  /\ pc' = [pc EXCEPT ![p] = "scan"]
  /\ UNCHANGED <<fs, edits, calls, db, call, row, view, result, seen>>

\* Mutant: the row that was selected is trusted.
HashAgreesAlways(p) == Len(chunks[p]) <= Len(outputs[Head(todo[p])].input_hash)

HashAgrees(p) == Digest(chunks[p]) = outputs[Head(todo[p])].input_hash

\* The hash agrees: the stored output, which was stored trimmed, is returned.
Hit(p) ==
  /\ pc[p] = "hash"
  /\ files[p] = <<>>
  /\ HashAgrees(p)
  /\ Return(p, Ok(outputs[Head(todo[p])].output, FALSE))
  /\ UNCHANGED db

\* A row is given up, and what is left to examine is rest.
DifferWith(p, rest) ==
  /\ pc[p] = "hash"
  /\ files[p] = <<>>
  /\ ~HashAgrees(p)
  /\ todo' = [todo EXCEPT ![p] = rest]
  /\ chunks' = [chunks EXCEPT ![p] = <<>>]
  /\ pc' = [pc EXCEPT ![p] = "scan"]
  /\ UNCHANGED <<fs, edits, calls, db, call, row, files, view, result, seen>>

\* Mutants: the first row that differs ends the loop, or is examined again.
DifferBreaks(p) == DifferWith(p, <<>>)
DifferRepeats(p) == DifferWith(p, todo[p])

\* The hash differs: the loop goes on to the next row.
Differ(p) == DifferWith(p, Tail(todo[p]))

----------------------------------------------------------------------------
(* The traced child, as the parent sees it.                                *)

\* No row is left: pipe, fork.
Miss(p) ==
  /\ pc[p] = "scan"
  /\ todo[p] = <<>>
  /\ pc' = [pc EXCEPT ![p] = "eval"]
  /\ UNCHANGED <<fs, edits, calls, db, call, locals, result, seen>>

Pending(p) == Wanted(call[p].main, call[p].attr, view[p]) \ DOMAIN view[p]

ReadFile(p, f) ==
  /\ pc[p] = "eval"
  /\ f \in Pending(p)
  /\ fs[f] # Absent
  /\ view' = [view EXCEPT ![p] = [g \in DOMAIN @ \cup {f} |->
                                    IF g = f THEN fs[f] ELSE @[g]]]
  /\ UNCHANGED <<fs, edits, calls, db, pc, call, todo, row, hashing, result, seen>>

\* The child writes an empty line, and the parent reports the failure.
EvalError(p) ==
  /\ pc[p] = "eval"
  /\ \/ \E f \in Pending(p) : fs[f] = Absent
     \/ \E f \in DOMAIN view[p] : view[p][f] \in Broken
  /\ Return(p, Err)
  /\ UNCHANGED db

\* Mutant: the paths that are not tracked are hashed too.
FinishUntracked(p) ==
  /\ pc[p] = "eval"
  /\ Pending(p) = {}
  /\ \A f \in DOMAIN view[p] : view[p][f] \notin Broken
  /\ StartHashing(p, DOMAIN view[p])
  /\ pc' = [pc EXCEPT ![p] = "inshash"]
  /\ UNCHANGED <<fs, edits, calls, db, call, todo, row, view, result, seen>>

\* The child has written its output and exited; the parent goes on to
\* insert_evaluation_output, which hashes the inputs as they are by then.
Finish(p) ==
  /\ pc[p] = "eval"
  /\ Pending(p) = {}
  /\ \A f \in DOMAIN view[p] : view[p][f] \notin Broken
  /\ StartHashing(p, Tracked(view[p]))
  /\ pc' = [pc EXCEPT ![p] = "inshash"]
  /\ UNCHANGED <<fs, edits, calls, db, call, todo, row, view, result, seen>>

----------------------------------------------------------------------------
(* insert_evaluation_output                                                *)

HashError(p) ==
  /\ pc[p] = "inshash"
  /\ files[p] # <<>>
  /\ fs[Head(files[p])] = Absent
  /\ Return(p, Err)
  /\ UNCHANGED db

InsertOutput(p) ==
  /\ pc[p] = "inshash"
  /\ files[p] = <<>>
  /\ ~Conflicts(call[p], Digest(chunks[p]))
  /\ outputs' = Append(outputs,
       [main |-> call[p].main, attr |-> call[p].attr, hash |-> call[p].hash,
        output |-> view[p], input_hash |-> Digest(chunks[p])])
  /\ row' = [row EXCEPT ![p] = Len(outputs) + 1]
  /\ chunks' = [chunks EXCEPT ![p] = <<>>]
  /\ pc' = [pc EXCEPT ![p] = "inputs"]
  /\ UNCHANGED <<fs, edits, calls, inputs, call, todo, files, view, result, seen>>

\* The UNIQUE constraint fails: the caller gets the error, not the output.
InsertConflict(p) ==
  /\ pc[p] = "inshash"
  /\ files[p] = <<>>
  /\ Conflicts(call[p], Digest(chunks[p]))
  /\ Return(p, Err)
  /\ UNCHANGED db

Unrecorded(p) == Tracked(view[p]) \ RowInputs(row[p])

InsertInput(p, f) ==
  /\ pc[p] = "inputs"
  /\ f \in Unrecorded(p)
  /\ inputs' = inputs \cup {<<row[p], f>>}
  /\ UNCHANGED <<fs, edits, calls, outputs, pc, call, locals, result, seen>>

\* The line read from the pipe is returned as it is, newline included.
Store(p) ==
  /\ pc[p] = "inputs"
  /\ Unrecorded(p) = {}
  /\ Return(p, Ok(view[p], TRUE))
  /\ UNCHANGED db

----------------------------------------------------------------------------
(* The environment: failures and edits.                                    *)

AtDatabase(p) ==
  \/ pc[p] = "query"
  \/ pc[p] = "scan" /\ todo[p] # <<>>
  \/ pc[p] = "inshash" /\ files[p] = <<>>
  \/ pc[p] = "inputs" /\ Unrecorded(p) # {}

\* A statement fails (locked, full, I/O): the rows already there stay.
DbError(p) ==
  /\ "db" \in Faults
  /\ AtDatabase(p)
  /\ Return(p, Err)
  /\ UNCHANGED db

\* The child is killed by a signal: FileTracer::watch bails.
ChildKilled(p) ==
  /\ "kill" \in Faults
  /\ pc[p] = "eval"
  /\ Return(p, Err)
  /\ UNCHANGED db

\* The calling process dies; the database keeps what was committed.
Crash(p) ==
  /\ "crash" \in Faults
  /\ pc[p] # "idle"
  /\ Return(p, None)
  /\ UNCHANGED db

\* Somebody changes a file.
Edit(f, c) ==
  /\ edits < MaxEdits
  /\ <<f, fs[f], c>> \in Edits
  /\ f \in Volatile \/ \A p \in Procs : pc[p] \notin {"eval", "inshash"}
  /\ fs' = [fs EXCEPT ![f] = c]
  /\ edits' = edits + 1
  /\ seen' = [p \in Procs |->
                IF pc[p] = "idle" THEN seen[p]
                ELSE [seen[p] EXCEPT ![f] = @ \cup {c}]]
  /\ UNCHANGED <<calls, db, pc, call, locals, result>>

\* Nobody calls: the only state in which every process may stop.
Rest ==
  /\ \A p \in Procs : pc[p] = "idle"
  /\ UNCHANGED vars

----------------------------------------------------------------------------
\* The steps of p's own code, once called.
Step(p) ==
  \/ Query(p) \/ NextRow(p) \/ HashFile(p) \/ SkipRow(p) \/ Hit(p) \/ Differ(p)
  \/ Miss(p) \/ (\E f \in Files : ReadFile(p, f)) \/ EvalError(p) \/ Finish(p)
  \/ HashError(p) \/ InsertOutput(p) \/ InsertConflict(p)
  \/ (\E f \in Files : InsertInput(p, f)) \/ Store(p)

Next ==
  \/ \E p \in Procs, m \in Mains, a \in Attrs : Call(p, m, a) \/ CallMissing(p, m, a)
  \/ \E p \in Procs : Step(p)
  \/ \E p \in Procs : DbError(p) \/ ChildKilled(p) \/ Crash(p)
  \/ \E f \in Files, c \in Content : Edit(f, c)
  \/ Rest

Spec == Init /\ [][Next]_vars

\* A process that is not stopped keeps running its own code.
FairSpec == Spec /\ \A p \in Procs : WF_vars(Step(p))

----------------------------------------------------------------------------
(* Properties.                                                             *)

Digests == {Digest(cs) : cs \in BoundedSeq(Bytes, Cardinality(Files))}

Rows == [main : Mains, attr : Attrs, hash : Bytes, output : Views, input_hash : Digests]

Calls == [main : Mains, attr : Attrs, hash : Content, known : SUBSET (1..Len(outputs))]

Results == [status : {"none", "err", "ok"}, view : Views, newline : BOOLEAN]

\* Every variable has its type; ids and counters stay in range.
TypeOK ==
  /\ fs \in [Files -> Content]
  /\ edits \in 0..MaxEdits
  /\ calls \in 0..MaxCalls
  /\ outputs \in Seq(Rows)
  /\ inputs \subseteq (1..Len(outputs)) \X Files
  /\ pc \in [Procs -> Steps]
  /\ call \in [Procs -> Calls \cup {NoCall}]
  /\ todo \in [Procs -> Seq(1..Len(outputs))]
  /\ row \in [Procs -> 0..Len(outputs)]
  /\ files \in [Procs -> Seq(Files)]
  /\ chunks \in [Procs -> Seq(Bytes)]
  /\ view \in [Procs -> Views]
  /\ result \in [Procs -> Results]
  /\ seen \in [Procs -> [Files -> SUBSET Content]]

\* A call that succeeds, from the cache or not, returns a value of contents
\* that its files had during that call: neither a stale row nor a row that
\* another process is still filling may be served.
FreshResult ==
  \A p \in Procs : result[p].status = "ok" =>
    \A f \in DOMAIN result[p].view : result[p].view[f] \in seen[p][f]

\* A row is served only if all of its inputs are recorded: neither a process
\* that is between its insertions nor one that died there leaves a row that a
\* query takes for an answer.
PartialRowNeverServed ==
  \A p \in Procs :
    pc[p] = "hash" /\ files[p] = <<>> /\ HashAgrees(p) => Complete(Head(todo[p]))

\* The query loop gives up on no good row: when a call forks an evaluation,
\* every matching row that was complete when the call began has an input whose
\* content during the call was not always the one the output came from.
MissIsJustified ==
  \A p \in Procs : pc[p] = "eval" =>
    \A id \in call[p].known : Matches(outputs[id], call[p]) =>
      \E f \in RowInputs(id) : seen[p][f] # {outputs[id].output[f]}

\* The UNIQUE constraint refuses an evaluation over a row that the query should
\* have served only if an input of that row changed during the call.  What else
\* it refuses is a row that was not complete when the call began: one that a crash
\* left, or one that another process has inserted since.
ConflictIsJustified ==
  \A p \in Procs : pc[p] = "inshash" /\ files[p] = <<>> =>
    \A id \in call[p].known :
      Matches(outputs[id], call[p]) /\ outputs[id].input_hash = Digest(chunks[p]) =>
        \E f \in RowInputs(id) : Cardinality(seen[p][f]) > 1

\* An error is the caller's doing: a process that is alone with its database
\* fails only when a file was missing or did not evaluate.  The UNIQUE
\* constraint in particular never turns a good evaluation into an error.
ErrorIsJustified ==
  \A p \in Procs : result[p].status = "err" =>
    \E f \in Files : seen[p][f] \cap (Broken \cup {Absent}) # {}

\* The UNIQUE constraint's comment: each row's key, with the digest of its
\* inputs, determines the result.  So a row that is fully recorded must have
\* the digest of the contents its output was computed from.
Reproducible ==
  \A id \in DOMAIN outputs : Complete(id) =>
    LET r == outputs[id]
        order == Sort(SetToSeq(RowInputs(id)))
    IN  r.input_hash = Digest([i \in DOMAIN order |-> r.output[order[i]]])

\* A call ends: the rows to examine are those of one snapshot, however many
\* other processes insert meanwhile.
CallTerminates == \A p \in Procs : pc[p] # "idle" ~> pc[p] = "idle"

\* No two lists of contents have the same concatenation, as far as hash_files
\* may come across them: the digest tells them apart.
CollisionFree ==
  \A cs, ds \in BoundedSeq(Bytes, Cardinality(Files)) : Digest(cs) = Digest(ds) => cs = ds

\* Every step of the cache is a step of the specification without a cache.
Fresh == INSTANCE FreshEval WITH
  busy <- [p \in Procs |-> pc[p] # "idle"],
  asked <- [p \in Procs |-> [main |-> call[p].main, attr |-> call[p].attr]]

ImplementsFreshEval == Fresh!Spec

\* An evaluation has answered, and nothing is hashed yet.
Answered(p) == pc[p] = "inshash" /\ chunks[p] = <<>>

RunPhase(p) == CASE pc[p] = "eval" -> "running" [] Answered(p) -> "answered" [] OTHER -> "off"

RunRead(p) == IF pc[p] = "eval" \/ Answered(p) THEN DOMAIN view[p] ELSE {}

RunInputs(p) == IF Answered(p) THEN ToSet(files[p]) ELSE {}

\* The evaluations that calls fork are traced runs, as module Tracer has them:
\* the paths that are hashed for an insertion are what such a run hands over.
Runs == INSTANCE TracedRun WITH
  Nameless <- {},
  Watched <- {f \in Files : ShouldTrack(f)},
  phase <- [p \in Procs |-> RunPhase(p)],
  read <- [p \in Procs |-> RunRead(p)],
  inputs <- [p \in Procs |-> RunInputs(p)]

ImplementsTracedRuns == Runs!Spec
=============================================================================
