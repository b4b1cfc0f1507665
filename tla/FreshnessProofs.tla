-------------------------- MODULE FreshnessProofs --------------------------
(***************************************************************************)
(* What the cache promises its callers, for any number of processes, files *)
(* and calls: fresh answers, misses and conflicts with a reason.  It does  *)
(* so only while the files hold still in the way that Quiet says, and the  *)
(* run cache_edit_race shows what comes of the rest.                       *)
(***************************************************************************)
EXTENDS EvalCacheProofs

\* No two lists of contents share a digest.  Paths that should_track_file excludes
\* do not change.  While an evaluation is under way and its inputs are being hashed,
\* either nothing changes, or there is one main file and it alone does; and then it
\* never takes a content again.
Quiet ==
  /\ CollisionFree
  /\ \A e \in Edits : ShouldTrack(e[1])
  /\ \A f \in Volatile, m \in Mains : f = m
  /\ \E rank \in [Content -> Nat] :
       \A e \in Edits : e[1] \in Volatile => rank[e[2]] < rank[e[3]]

\* The order in which the main file takes its contents.
Rank == CHOOSE rank \in [Content -> Nat] :
          \A e \in Edits : e[1] \in Volatile => rank[e[2]] < rank[e[3]]

Before(b, c) == b = c \/ Rank[b] < Rank[c]

----------------------------------------------------------------------------
(* The inductive invariant.                                                *)

\* A call knows the contents of the moment, and the main file has been hashed.
Witnessed(p) ==
  pc[p] # "idle" =>
    /\ \A f \in Files : fs[f] \in seen[p][f]
    /\ \A f \in Volatile : Before(call[p].hash, fs[f])

\* A path that holds still while somebody evaluates.
Steady(f) == f \notin Volatile \/ ~ShouldTrack(f)

\* An evaluation has read what it wanted, as it was then; but for the main file
\* everything is still like that while the inputs are hashed.
Viewed(p) ==
  /\ pc[p] \notin {"eval", "inshash", "inputs"} => view[p] = NoView
  /\ \A f \in DOMAIN view[p] : view[p][f] \in seen[p][f]
  /\ DOMAIN view[p] \subseteq Wanted(call[p].main, call[p].attr, view[p])
  /\ pc[p] \in {"inshash", "inputs"} =>
       Wanted(call[p].main, call[p].attr, view[p]) \subseteq DOMAIN view[p]
  /\ pc[p] \in {"eval", "inshash"} => \A f \in DOMAIN view[p] :
       /\ Steady(f) => view[p][f] = fs[f]
       /\ f \in Volatile => Before(call[p].hash, view[p][f]) /\ Before(view[p][f], fs[f])

\* hash_files is on its way through the paths of S in order.
Walk(p, S) ==
  /\ Len(files[p]) + Len(chunks[p]) = Len(PathOrder[S])
  /\ \A j \in 1..Len(files[p]) : files[p][j] = PathOrder[S][Len(chunks[p]) + j]

\* Content c of path f was hashed for an output that was computed from b.
HashedLater(f, b, c) ==
  IF f \in Volatile THEN Before(b, c) /\ Before(c, fs[f]) ELSE b = c

\* What hash_files has been fed: for an insertion the contents of the view, but
\* for the main file; for a query the contents of the inputs at some time of the
\* call, and of all inputs if the row was complete at its start.
Inserting(p) ==
  pc[p] = "inshash" =>
    LET order == PathOrder[Tracked(view[p])]
    IN  /\ Walk(p, Tracked(view[p]))
        /\ \A i \in 1..Len(chunks[p]) :
             /\ HashedLater(order[i], view[p][order[i]], chunks[p][i])
             /\ chunks[p][i] \in seen[p][order[i]]

Querying(p) ==
  pc[p] = "hash" =>
    \E S \in SUBSET RowInputs(Head(todo[p])) :
      /\ Walk(p, S)
      /\ \A i \in 1..Len(chunks[p]) : chunks[p][i] \in seen[p][PathOrder[S][i]]
      /\ Head(todo[p]) \in call[p].known => S = RowInputs(Head(todo[p]))

\* The rows left to examine have the key of the call.
Selected(p) ==
  pc[p] \in {"scan", "hash"} =>
    \A i \in 1..Len(todo[p]) : Matches(outputs[todo[p][i]], call[p])

\* A row has the output of a run of the evaluator, and the digest of inputs that
\* but for the main file are those of the output.
RowFaithful(id) ==
  LET r == outputs[id]
      order == PathOrder[Tracked(r.output)]
  IN  /\ DOMAIN r.output = Wanted(r.main, r.attr, r.output)
      /\ \A f \in DOMAIN r.output :
           /\ ~ShouldTrack(f) => r.output[f] = fs[f]
           /\ f \in Volatile => Before(r.hash, r.output[f]) /\ Before(r.output[f], fs[f])
      /\ \E cs \in BoundedSeq(Bytes, Cardinality(Files)) :
           /\ Len(cs) = Len(order)
           /\ r.input_hash = Digest(cs)
           /\ \A i \in 1..Len(cs) : HashedLater(order[i], r.output[order[i]], cs[i])

\* Calls that found the same main file have lived through whatever it was since.
Shared(q) ==
  pc[q] # "idle" => \A f \in Volatile :
    /\ \A id \in DOMAIN outputs :
         outputs[id].hash = call[q].hash /\ f \in DOMAIN outputs[id].output =>
           outputs[id].output[f] \in seen[q][f]
    /\ \A p \in Procs :
         pc[p] \in {"eval", "inshash"} /\ call[p].hash = call[q].hash /\ f \in DOMAIN view[p] =>
           view[p][f] \in seen[q][f]

\* The contents of the inputs that an output was computed from, in path order.
Contents(id) ==
  LET order == PathOrder[Tracked(outputs[id].output)]
  IN  [i \in 1..Len(order) |-> outputs[id].output[order[i]]]

\* The rows that were complete at the start of a call and have its key have the
\* digest of the contents they were computed from.
Known(p) ==
  pc[p] # "idle" => \A id \in call[p].known :
    /\ Complete(id)
    /\ Matches(outputs[id], call[p]) => outputs[id].input_hash = Digest(Contents(id))

\* An input of the row has had another content during p's call.
Changed(p, id) ==
  \E f \in RowInputs(id) : \E c \in seen[p][f] : c # outputs[id].output[f]

\* Every such row is still to be examined, or has been given up with reason.
Rejected(p) ==
  \A id \in call[p].known : Matches(outputs[id], call[p]) =>
    /\ pc[p] \in {"scan", "hash"} =>
         (\E i \in 1..Len(todo[p]) : todo[p][i] = id) \/ Changed(p, id)
    /\ pc[p] \in {"eval", "inshash"} => Changed(p, id)

\* All that a process knows of itself.
Alone(p) ==
  /\ Witnessed(p) /\ Viewed(p) /\ Inserting(p) /\ Querying(p) /\ Selected(p)
  /\ Known(p) /\ Rejected(p)

FInv ==
  /\ \A p \in Procs : Alone(p) /\ Shared(p)
  /\ \A id \in DOMAIN outputs : RowFaithful(id)
  /\ FreshResult

----------------------------------------------------------------------------
(* Facts about the hypotheses and the operators.                           *)

\* Some order ranks the contents of the main file.
LEMMA Ranked ==
  ASSUME Quiet
  PROVE  /\ Rank \in [Content -> Nat]
         /\ \A e \in Edits : e[1] \in Volatile => Rank[e[2]] < Rank[e[3]]
  BY DEF Quiet, Rank

\* The order does not depend on the state.
LEMMA RankFixed == Rank' = Rank
  BY DEF Rank

\* It is an order.
LEMMA BeforeOrder ==
  ASSUME Quiet, NEW b \in Content, NEW c \in Content
  PROVE  /\ Before(b, b)
         /\ Before(b, c) /\ Before(c, b) => b = c
         /\ \A d \in Content : Before(b, c) /\ Before(c, d) => Before(b, d)
  BY Ranked DEF Before

\* How a step may change a file.
FileMoves(f) ==
  \/ fs'[f] = fs[f]
  \/ /\ ShouldTrack(f)
     /\ f \in Volatile => Rank[fs[f]] < Rank[fs'[f]]
     /\ f \in Volatile \/ \A p \in Procs : pc[p] \notin {"eval", "inshash"}

\* A step leaves a file alone, or edits it as Quiet allows.
LEMMA FilesMove ==
  ASSUME Quiet, TInv, [Next]_vars
  PROVE  \A f \in Files : FileMoves(f)
<1>ty. fs \in [Files -> Content]
  BY DEF TInv, TypeOK
<1>1. CASE UNCHANGED fs
  BY <1>1 DEF FileMoves
<1>2. ASSUME NEW g \in Files, NEW c \in Content, Edit(g, c)
      PROVE  \A f \in Files : FileMoves(f)
  <2>1. ShouldTrack(g) /\ (g \in Volatile => Rank[fs[g]] < Rank[c])
    <3>1. <<g, fs[g], c>> \in Edits
      BY <1>2 DEF Edit
    <3>2. ShouldTrack(<<g, fs[g], c>>[1])
      BY <3>1 DEF Quiet
    <3>3. g \in Volatile => Rank[fs[g]] < Rank[c]
      BY <3>1, Ranked
    <3> QED
      BY <3>2, <3>3
  <2>2. fs' = [fs EXCEPT ![g] = c]
        /\ (g \in Volatile \/ \A p \in Procs : pc[p] \notin {"eval", "inshash"})
    BY <1>2 DEF Edit
  <2> QED
    BY <1>ty, <2>1, <2>2 DEF FileMoves
<1> QED
  BY <1>1, <1>2
  DEF Next, Step, Rest, vars, db, locals, hashing, Call, CallMissing, NewCall, Query, NextRow,
      HashFile, SkipRow, Hit, Differ, DifferWith, Miss, ReadFile, EvalError, Finish, HashError,
      InsertOutput, InsertInput, InsertConflict, Store, DbError, ChildKilled, Crash, Return

\* What came before the content of a volatile file still does after a step.
LEMMA BeforeStays ==
  ASSUME Quiet, TInv, TInv', NEW f \in Files, FileMoves(f), f \in Volatile,
         NEW b \in Content, Before(b, fs[f])
  PROVE  Before(b, fs'[f])
<1>1. fs[f] \in Content /\ fs'[f] \in Content
  BY DEF TInv, TypeOK
<1>2. Before(fs[f], fs'[f])
  BY DEF FileMoves, Before
<1> QED
  BY <1>1, <1>2, BeforeOrder

\* The types of a row.
LEMMA RowType ==
  ASSUME TInv, NEW id \in DOMAIN outputs
  PROVE  /\ outputs[id] \in Rows
         /\ outputs[id].output \in Views
         /\ DOMAIN outputs[id].output \subseteq Files
         /\ \A f \in DOMAIN outputs[id].output : outputs[id].output[f] \in Bytes
         /\ outputs[id].main \in Mains /\ outputs[id].hash \in Bytes
         /\ Tracked(outputs[id].output) \in SUBSET Files
<1>1. outputs[id] \in Rows
  BY DEF TInv, TypeOK
<1>2. outputs[id].output \in Views /\ outputs[id].main \in Mains /\ outputs[id].hash \in Bytes
  BY <1>1 DEF Rows
<1>3. /\ DOMAIN outputs[id].output \subseteq Files
      /\ \A f \in DOMAIN outputs[id].output : outputs[id].output[f] \in Bytes
  BY <1>2 DEF Views
<1> QED
  BY <1>1, <1>2, <1>3 DEF Tracked

\* A path of the order is a path of the set.
LEMMA OrderMember ==
  ASSUME NEW S \in SUBSET Files, NEW i \in 1..Len(PathOrder[S])
  PROVE  PathOrder[S][i] \in S
  BY PathOrderSeq

\* A list of contents that is short enough is one of a bounded number of contents.
LEMMA BoundedMember ==
  ASSUME NEW cs \in BoundedSeq(Bytes, Cardinality(Files))
  PROVE  cs \in Seq(Bytes) /\ Len(cs) \in Nat /\ \A i \in 1..Len(cs) : cs[i] \in Bytes
  BY FilesFinite, FS_CardinalityType DEF BoundedSeq, SeqOf

\* Rows stay faithful, whatever happens to the files.
LEMMA RowStaysFaithful ==
  ASSUME Quiet, TInv, TInv', NEW id \in DOMAIN outputs, RowFaithful(id),
         outputs'[id] = outputs[id], \A f \in Files : FileMoves(f)
  PROVE  RowFaithful(id)'
<1> DEFINE r == outputs[id]
           order == PathOrder[Tracked(r.output)]
<1>1. /\ DOMAIN r.output \subseteq Files
      /\ \A f \in DOMAIN r.output : r.output[f] \in Content
      /\ Tracked(r.output) \in SUBSET Files
  BY RowType DEF Content
<1>2. PICK cs \in BoundedSeq(Bytes, Cardinality(Files)) :
        /\ Len(cs) = Len(order)
        /\ r.input_hash = Digest(cs)
        /\ \A i \in 1..Len(cs) : HashedLater(order[i], r.output[order[i]], cs[i])
  BY DEF RowFaithful
<1>3. ASSUME NEW i \in 1..Len(cs)
      PROVE  HashedLater(order[i], r.output[order[i]], cs[i])'
  <2>1. order[i] \in Files /\ cs[i] \in Content
    BY <1>1, <1>2, OrderMember, BoundedMember DEF Content
  <2>2. HashedLater(order[i], r.output[order[i]], cs[i])
    BY <1>2
  <2>3. order[i] \in Volatile => Before(cs[i], fs'[order[i]])
    BY <2>1, <2>2, BeforeStays DEF HashedLater
  <2> QED
    BY <2>2, <2>3, RankFixed DEF HashedLater, Before, Tracked, ShouldTrack
<1>4. ASSUME NEW f \in DOMAIN r.output
      PROVE  /\ ~ShouldTrack(f) => r.output[f] = fs'[f]
             /\ f \in Volatile => Before(r.hash, r.output[f]) /\ Before(r.output[f], fs'[f])
  <2>1. /\ ~ShouldTrack(f) => r.output[f] = fs[f]
        /\ f \in Volatile => Before(r.hash, r.output[f]) /\ Before(r.output[f], fs[f])
    BY DEF RowFaithful
  <2> QED
    BY <1>1, <2>1, BeforeStays DEF FileMoves
<1>5. DOMAIN r.output = Wanted(r.main, r.attr, r.output)
  BY DEF RowFaithful
<1>6. outputs'[id].output = r.output /\ Tracked(outputs[id].output)' = Tracked(r.output)
  BY DEF Tracked, ShouldTrack
<1>7. (DOMAIN outputs[id].output = Wanted(outputs[id].main, outputs[id].attr, outputs[id].output))'
  BY <1>5 DEF Wanted
<1>8. (\A f \in DOMAIN outputs[id].output :
         /\ ~ShouldTrack(f) => outputs[id].output[f] = fs[f]
         /\ f \in Volatile =>
              Before(outputs[id].hash, outputs[id].output[f]) /\ Before(outputs[id].output[f], fs[f]))'
  BY <1>4, RankFixed DEF ShouldTrack, Before
<1>9. (\E ds \in BoundedSeq(Bytes, Cardinality(Files)) :
         LET path == PathOrder[Tracked(outputs[id].output)]
         IN  /\ Len(ds) = Len(path)
             /\ outputs[id].input_hash = Digest(ds)
             /\ \A i \in 1..Len(ds) : HashedLater(path[i], outputs[id].output[path[i]], ds[i]))'
  <2> DEFINE out == outputs[id].output
             path == PathOrder[Tracked(out)]
  <2>1. Len(cs) = Len(path') /\ (outputs[id].input_hash)' = Digest(cs)
    BY <1>2, <1>6
  <2>2. \A i \in 1..Len(cs) : HashedLater(path[i], out[path[i]], cs[i])'
    BY <1>3, <1>6 DEF HashedLater
  <2> HIDE DEF path
  <2>3. \A i \in 1..Len(cs) :
          IF path'[i] \in Volatile
          THEN Before(out'[path'[i]], cs[i]) /\ Before(cs[i], fs'[path'[i]])
          ELSE out'[path'[i]] = cs[i]
    BY <2>2, RankFixed DEF HashedLater, Before
  <2> QED
    BY <1>2, <2>1, <2>3, RankFixed DEF HashedLater, Digest, Before, path
<1> QED
  BY <1>7, <1>8, <1>9 DEF RowFaithful

----------------------------------------------------------------------------
(* What lasts through the steps of others.                                 *)

\* What every step is known to do, whoever takes it.
Legal ==
  /\ TInv /\ Honest /\ TInv' /\ Honest' /\ DbGrows
  /\ \A f \in Files : FileMoves(f)

\* A call under way sees every content there is.
SeenGrows(q) ==
  pc[q] # "idle" =>
    \A f \in Files : seen[q][f] \subseteq seen'[q][f] /\ fs'[f] \in seen'[q][f]

\* A process that takes no step itself.
Rests(q) ==
  /\ pc'[q] = pc[q] /\ call'[q] = call[q] /\ todo'[q] = todo[q]
  /\ files'[q] = files[q] /\ chunks'[q] = chunks[q] /\ view'[q] = view[q]

\* A row that was complete at the start of a call stays as it was then.
LEMMA KnownStays ==
  ASSUME Legal, NEW q \in Procs, pc[q] # "idle", Known(q), NEW id \in call[q].known
  PROVE  /\ id \in DOMAIN outputs /\ outputs'[id] = outputs[id]
         /\ RowInputs(id)' = RowInputs(id)
         /\ RowInputs(id) = Tracked(outputs[id].output)
<1>1. id \in DOMAIN outputs
  <2>1. call[q] \in Calls \cup {NoCall} /\ outputs \in Seq(Rows)
    BY DEF Legal, TInv, TypeOK
  <2>2. call[q].known \subseteq 1..Len(outputs)
    BY <2>1 DEF Calls, NoCall
  <2> QED
    BY <2>1, <2>2
<1>2. id \in DOMAIN outputs' /\ outputs'[id] = outputs[id] /\ RowInputs(id) \subseteq RowInputs(id)'
  BY <1>1 DEF Legal, DbGrows, RowInputs
<1>3. RowInputs(id) = Tracked(outputs[id].output)
  BY DEF Known, Complete
<1>4. RowInputs(id)' \subseteq Tracked(outputs[id].output)
  BY <1>2 DEF Legal, Honest, RowHonest, Tracked, ShouldTrack
<1> QED
  BY <1>1, <1>2, <1>3, <1>4

\* What a call knows it goes on knowing.
LEMMA CallKeeps ==
  ASSUME Quiet, Legal, NEW q \in Procs, pc[q] # "idle", call'[q] = call[q], SeenGrows(q),
         Witnessed(q), Known(q)
  PROVE  /\ Witnessed(q)' /\ Known(q)'
         /\ \A id \in call[q].known : Changed(q, id) => Changed(q, id)'
<1>1. Witnessed(q)'
  <2>1. call[q].hash \in Content
    BY DEF Legal, TInv, Hashing, Content
  <2>2. ASSUME NEW f \in Volatile PROVE Before(call[q].hash, fs'[f])
    <3>1. call[q].main \in Files /\ f = call[q].main
      BY FilesFinite DEF Quiet, Legal, TInv, Hashing
    <3> QED
      BY <2>1, <3>1, BeforeStays DEF Legal, Witnessed
  <2> QED
    BY <2>2, RankFixed DEF Witnessed, SeenGrows, Before
<1>2. Known(q)'
  <2> SUFFICES ASSUME NEW id \in call[q].known
               PROVE  /\ Complete(id)'
                      /\ (Matches(outputs[id], call[q]) => outputs[id].input_hash = Digest(Contents(id)))'
    BY DEF Known
  <2>1. /\ outputs'[id] = outputs[id] /\ RowInputs(id)' = RowInputs(id)
        /\ RowInputs(id) = Tracked(outputs[id].output)
    BY KnownStays
  <2>2. Complete(id)'
    BY <2>1 DEF Complete, Tracked, ShouldTrack
  <2>3. Contents(id)' = Contents(id)
    BY <2>1 DEF Contents, Tracked, ShouldTrack
  <2> QED
    BY <2>1, <2>2, <2>3 DEF Known, Matches, Digest
<1>3. ASSUME NEW id \in call[q].known, Changed(q, id) PROVE Changed(q, id)'
  <2>1. PICK f \in RowInputs(id) : \E c \in seen[q][f] : c # outputs[id].output[f]
    BY <1>3 DEF Changed
  <2>2. f \in Files
    BY <2>1 DEF RowInputs
  <2>3. outputs'[id] = outputs[id] /\ RowInputs(id)' = RowInputs(id)
    BY <1>3, KnownStays
  <2> QED
    BY <2>1, <2>2, <2>3 DEF Changed, SeenGrows
<1> QED
  BY <1>1, <1>2, <1>3

\* What a view and a hasher are worth outlasts the steps of others.
LEMMA ViewedRests ==
  ASSUME Quiet, Legal, NEW q \in Procs, Rests(q), SeenGrows(q), Viewed(q)
  PROVE  Viewed(q)'
<1>1. view[q] \in Views /\ DOMAIN view[q] \subseteq Files
      /\ \A f \in DOMAIN view[q] : view[q][f] \in Content
  BY DEF Legal, TInv, TypeOK, Views, Content
<1>2. ASSUME NEW f \in DOMAIN view[q] PROVE view'[q][f] \in seen'[q][f]
  <2>1. pc[q] # "idle"
    BY DEF Viewed, NoView
  <2> QED
    BY <1>1, <2>1 DEF Viewed, Rests, SeenGrows
<1>3. ASSUME NEW f \in DOMAIN view[q], pc[q] \in {"eval", "inshash"}
      PROVE  /\ Steady(f) => view[q][f] = fs'[f]
             /\ f \in Volatile => Before(call[q].hash, view[q][f]) /\ Before(view[q][f], fs'[f])
  <2>1. FileMoves(f)
    BY <1>1 DEF Legal
  <2>2. Steady(f) => fs'[f] = fs[f]
    BY <1>3, <2>1 DEF FileMoves, Steady
  <2>3. f \in Volatile => Before(view[q][f], fs'[f])
    BY <1>1, <1>3, <2>1, BeforeStays DEF Viewed, Legal
  <2> QED
    BY <1>3, <2>2, <2>3 DEF Viewed
<1>4. (\A f \in DOMAIN view[q] :
         pc[q] \in {"eval", "inshash"} =>
           /\ Steady(f) => view[q][f] = fs[f]
           /\ f \in Volatile => Before(call[q].hash, view[q][f]) /\ Before(view[q][f], fs[f]))'
  BY <1>3, RankFixed DEF Rests, Steady, ShouldTrack, Before
<1>5. /\ (pc[q] \notin {"eval", "inshash", "inputs"} => view[q] = NoView)'
      /\ (DOMAIN view[q] \subseteq Wanted(call[q].main, call[q].attr, view[q]))'
      /\ (pc[q] \in {"inshash", "inputs"} =>
            Wanted(call[q].main, call[q].attr, view[q]) \subseteq DOMAIN view[q])'
  BY DEF Viewed, Rests, Wanted, NoView
<1> QED
  BY <1>2, <1>4, <1>5 DEF Viewed, Rests

\* What has been hashed is the beginning of the path.
LEMMA WalkBounds ==
  ASSUME TInv, NEW p \in Procs, NEW S, Walk(p, S)
  PROVE  /\ Len(files[p]) \in Nat /\ Len(chunks[p]) \in Nat /\ Len(PathOrder[S]) \in Nat
         /\ \A i \in 1..Len(chunks[p]) : i \in 1..Len(PathOrder[S])
<1>1. Len(files[p]) \in Nat /\ Len(chunks[p]) \in Nat
  BY DEF TInv, TypeOK
<1>2. Len(PathOrder[S]) = Len(files[p]) + Len(chunks[p])
  BY DEF Walk
<1> DEFINE n == Len(PathOrder[S])
           a == Len(files[p])
           b == Len(chunks[p])
<1>3. a \in Nat /\ b \in Nat /\ n = a + b
  BY <1>1, <1>2
<1> HIDE DEF n, a, b
<1>4. n \in Nat /\ \A i \in 1..b : i \in 1..n
  BY <1>3
<1> QED
  BY <1>3, <1>4 DEF n, a, b

\* What an insertion has hashed stays what its output was computed from.
LEMMA InsertingRests ==
  ASSUME Quiet, Legal, NEW q \in Procs, Rests(q), SeenGrows(q), Inserting(q)
  PROVE  Inserting(q)'
<1> SUFFICES ASSUME pc[q] = "inshash" PROVE Inserting(q)'
  BY DEF Inserting, Rests
<1> DEFINE S == Tracked(view[q])
           order == PathOrder[S]
<1>1. S \in SUBSET Files /\ S' = S /\ \A f \in S : view[q][f] \in Content
  BY DEF Legal, TInv, TypeOK, Views, Content, Tracked, ShouldTrack, Rests
<1>2. /\ Walk(q, S)
      /\ \A i \in 1..Len(chunks[q]) :
           /\ HashedLater(order[i], view[q][order[i]], chunks[q][i])
           /\ chunks[q][i] \in seen[q][order[i]]
  BY DEF Inserting
<1>3. /\ Len(files[q]) \in Nat /\ Len(chunks[q]) \in Nat
      /\ Len(order) \in Nat /\ \A i \in 1..Len(chunks[q]) : chunks[q][i] \in Content
  BY <1>1, PathOrderSeq DEF Legal, TInv, TypeOK, Content
<1> HIDE DEF order
<1>4. ASSUME NEW i \in 1..Len(chunks[q])
      PROVE  HashedLater(order[i], view[q][order[i]], chunks[q][i])'
             /\ chunks[q][i] \in seen'[q][order[i]]
  <2>1. order[i] \in Files
    <3>1. i \in 1..Len(order)
      BY <1>2, WalkBounds DEF Legal, order
    <3> QED
      BY <1>1, <3>1, OrderMember DEF order
  <2>2. order[i] \in Volatile => Before(chunks[q][i], fs'[order[i]])
    BY <1>2, <1>3, <2>1, BeforeStays DEF Legal, HashedLater
  <2>3. order' = order
    BY <1>1 DEF order
  <2> QED
    BY <1>2, <2>1, <2>2, <2>3, RankFixed DEF HashedLater, Before, SeenGrows, Rests
<1>5. order' = order /\ order = PathOrder[S]
  BY <1>1 DEF order
<1> HIDE DEF S
<1>6. Walk(q, S)'
  BY <1>1, <1>2 DEF Walk, Rests
<1> QED
  BY <1>1, <1>4, <1>5, <1>6 DEF Inserting, Rests, S, HashedLater

\* What a query has hashed stays what its files held during the call.
LEMMA QueryingRests ==
  ASSUME Legal, NEW q \in Procs, Rests(q), SeenGrows(q), Querying(q), Known(q)
  PROVE  Querying(q)'
<1> SUFFICES ASSUME pc[q] = "hash" PROVE Querying(q)'
  BY DEF Querying, Rests
<1> DEFINE id == Head(todo[q])
<1>1. PICK S \in SUBSET RowInputs(id) :
        /\ Walk(q, S)
        /\ \A i \in 1..Len(chunks[q]) : chunks[q][i] \in seen[q][PathOrder[S][i]]
        /\ id \in call[q].known => S = RowInputs(id)
  BY DEF Querying
<1>2. RowInputs(id) \subseteq RowInputs(id)'
      /\ (id \in call[q].known => RowInputs(id)' = RowInputs(id))
  <2>1. id' = id
    BY DEF Rests
  <2>2. RowInputs(id) \subseteq RowInputs(id)'
    BY <2>1 DEF RowInputs, Legal, DbGrows
  <2> QED
    BY <2>1, <2>2, KnownStays
<1>3. S \in SUBSET Files
  BY DEF RowInputs
<1>4. ASSUME NEW i \in 1..Len(chunks[q]) PROVE PathOrder[S][i] \in Files
  <2>1. i \in 1..Len(PathOrder[S])
    BY <1>1, WalkBounds DEF Legal
  <2> QED
    BY <1>3, <2>1, OrderMember
<1>5. /\ Walk(q, S)'
      /\ \A i \in 1..Len(chunks[q]) : chunks[q][i] \in seen'[q][PathOrder[S][i]]
  BY <1>1, <1>4 DEF Walk, Rests, SeenGrows
<1>6. id' = id
  BY DEF Rests
<1> QED
  BY <1>1, <1>2, <1>5, <1>6 DEF Querying, Rests, Walk

\* A row that was given up with reason was so for good.
LEMMA RejectedRests ==
  ASSUME Quiet, Legal, NEW q \in Procs, Rests(q), SeenGrows(q), Witnessed(q), Known(q), Rejected(q)
  PROVE  Rejected(q)'
<1>1. CASE pc[q] = "idle"
  BY <1>1 DEF Rejected, Rests
<1>2. CASE pc[q] # "idle"
  <2> SUFFICES ASSUME NEW id \in call[q].known, Matches(outputs'[id], call[q])
               PROVE  /\ pc[q] \in {"scan", "hash"} =>
                           (\E i \in 1..Len(todo[q]) : todo[q][i] = id) \/ Changed(q, id)'
                      /\ pc[q] \in {"eval", "inshash"} => Changed(q, id)'
    BY DEF Rejected, Rests, Matches
  <2>1. outputs'[id] = outputs[id] /\ (Changed(q, id) => Changed(q, id)')
    BY <1>2, KnownStays, CallKeeps DEF Rests
  <2> QED
    BY <2>1 DEF Rejected
<1> QED
  BY <1>1, <1>2

\* The rows left to examine keep the key of the call.
LEMMA SelectedRests ==
  ASSUME Legal, NEW q \in Procs, Rests(q), Selected(q)
  PROVE  Selected(q)'
<1>1. \A i \in 1..Len(todo[q]) : todo[q][i] \in DOMAIN outputs
  BY DEF Legal, TInv, TypeOK
<1> QED
  BY <1>1 DEF Legal, DbGrows, Selected, Rests, Matches

\* A process that rests knows as much as before.
LEMMA RestKeeps ==
  ASSUME Quiet, Legal, NEW q \in Procs, Rests(q), SeenGrows(q), Alone(q)
  PROVE  Alone(q)'
<1>1. Viewed(q)' /\ Inserting(q)' /\ Querying(q)' /\ Selected(q)' /\ Rejected(q)'
  BY ViewedRests, InsertingRests, QueryingRests, SelectedRests, RejectedRests DEF Alone
<1>2. Witnessed(q)' /\ Known(q)'
  <2>1. CASE pc[q] = "idle"
    BY <2>1 DEF Witnessed, Known, Rests
  <2>2. CASE pc[q] # "idle"
    BY <2>2, CallKeeps DEF Alone, Rests
  <2> QED
    BY <2>1, <2>2
<1> QED
  BY <1>1, <1>2 DEF Alone

----------------------------------------------------------------------------
(* What a process's own steps do to what it knows.                         *)

\* A call that has ended, or that found no main file, knows nothing.
LEMMA IdleKnowsNothing ==
  ASSUME NEW p \in Procs, pc'[p] = "idle", view'[p] = NoView
  PROVE  Alone(p)'
<1>1. DOMAIN view'[p] = {}
  BY DEF NoView
<1> QED
  BY <1>1 DEF Alone, Witnessed, Viewed, Inserting, Querying, Selected, Known, Rejected, NoView

\* A row that has the key of the moment has the digest of its own contents, for
\* the main file is back at no earlier content.
LEMMA RowOfTheMoment ==
  ASSUME Quiet, TInv, NEW id \in DOMAIN outputs, RowFaithful(id), NEW m \in Mains,
         outputs[id].hash = fs[m]
  PROVE  /\ outputs[id].input_hash = Digest(Contents(id))
         /\ \A f \in Volatile \cap DOMAIN outputs[id].output : outputs[id].output[f] = fs[f]
<1> DEFINE out == outputs[id].output
           order == PathOrder[Tracked(out)]
<1>ty. /\ Tracked(out) \in SUBSET Files /\ \A f \in DOMAIN out : f \in Files /\ out[f] \in Content
       /\ outputs[id].hash \in Content
  BY RowType DEF Content
<1>1. PICK cs \in BoundedSeq(Bytes, Cardinality(Files)) :
        /\ Len(cs) = Len(order)
        /\ outputs[id].input_hash = Digest(cs)
        /\ \A i \in 1..Len(cs) : HashedLater(order[i], out[order[i]], cs[i])
  BY DEF RowFaithful
<1>2. \A f \in Volatile : f = m
  BY DEF Quiet
<1>3. ASSUME NEW f \in Volatile, f \in DOMAIN out
      PROVE  /\ out[f] = fs[f]
             /\ \A c \in Content : Before(out[f], c) /\ Before(c, fs[f]) => c = out[f]
  <2>1. Before(outputs[id].hash, out[f]) /\ Before(out[f], fs[f]) /\ fs[f] = outputs[id].hash
    BY <1>2, <1>3 DEF RowFaithful
  <2> QED
    BY <1>ty, <1>3, <2>1, BeforeOrder
<1>4. ASSUME NEW i \in 1..Len(cs) PROVE cs[i] = out[order[i]]
  <2>1. HashedLater(order[i], out[order[i]], cs[i]) /\ cs[i] \in Content
    BY <1>1, BoundedMember DEF Content
  <2>2. order[i] \in Tracked(out)
    BY <1>ty, <1>1, OrderMember
  <2>3. order[i] \in DOMAIN out
    BY <2>2 DEF Tracked
  <2> QED
    BY <1>3, <2>1, <2>3 DEF HashedLater
<1>5. cs = [i \in 1..Len(order) |-> out[order[i]]]
  BY <1>1, <1>4, BoundedMember
<1> QED
  BY <1>1, <1>3, <1>5 DEF Contents

\* A call that begins knows the rows of the moment.
LEMMA CallAlone ==
  ASSUME Quiet, Legal, NEW p \in Procs, NEW m \in Mains, NEW a \in Attrs, Call(p, m, a), Alone(p),
         \A id \in DOMAIN outputs : RowFaithful(id)
  PROVE  Alone(p)'
<1> DEFINE known == {id \in DOMAIN outputs : Complete(id)}
<1>ty. TypeOK
  BY DEF Legal, TInv
<1>1. /\ pc'[p] = "query" /\ view'[p] = NoView
      /\ call'[p] = [main |-> m, attr |-> a, hash |-> fs[m], known |-> known]
      /\ seen'[p] = [f \in Files |-> {fs[f]}]
      /\ UNCHANGED <<fs, outputs, inputs>>
  BY <1>ty DEF Call, NewCall, Alone, Viewed, TypeOK, db, locals
<1> HIDE DEF known
<1>2. fs[m] \in Content /\ \A f \in Volatile : f = m
  BY <1>ty, FilesFinite DEF TypeOK, Quiet
<1>3. Witnessed(p)'
  BY <1>1, <1>2, BeforeOrder, RankFixed DEF Witnessed, Before
<1>4. Viewed(p)'
  <2>1. DOMAIN view'[p] = {}
    BY <1>1 DEF NoView
  <2> QED
    BY <1>1, <2>1 DEF Viewed, NoView
<1>5. Known(p)'
  <2> SUFFICES ASSUME NEW id \in known
               PROVE  /\ Complete(id)'
                      /\ (Matches(outputs[id], call[p]) => outputs[id].input_hash = Digest(Contents(id)))'
    BY <1>1 DEF Known
  <2>1. id \in DOMAIN outputs /\ Complete(id)
    BY DEF known
  <2>2. Complete(id)' /\ Contents(id)' = Contents(id)
    BY <1>1, <2>1 DEF Complete, RowInputs, Contents, Tracked, ShouldTrack
  <2>3. Matches(outputs'[id], call'[p]) => outputs[id].input_hash = Digest(Contents(id))
    BY <1>1, <2>1, RowOfTheMoment DEF Matches, Legal
  <2> QED
    BY <1>1, <2>2, <2>3 DEF Matches, Digest
<1>6. Inserting(p)' /\ Querying(p)' /\ Selected(p)' /\ Rejected(p)'
  BY <1>1 DEF Inserting, Querying, Selected, Rejected
<1> QED
  BY <1>3, <1>4, <1>5, <1>6 DEF Alone

\* fetch_all has selected every row that it should.
LEMMA QueryAlone ==
  ASSUME Quiet, Legal, NEW p \in Procs, Query(p), Alone(p), Witnessed(p)', Known(p)'
  PROVE  Alone(p)'
<1> PICK ids \in Orders(MatchingIds(call[p])) : todo' = [todo EXCEPT ![p] = ids]
  BY DEF Query
<1>1. /\ pc'[p] = "scan" /\ view'[p] = NoView /\ todo'[p] = ids
      /\ UNCHANGED <<outputs, call>>
  BY DEF Query, Alone, Viewed, Legal, TInv, TypeOK, db
<1>2. /\ \A i \in 1..Len(ids) : ids[i] \in MatchingIds(call[p])
      /\ \A id \in MatchingIds(call[p]) : \E i \in 1..Len(ids) : ids[i] = id
  <2>1. todo'[p] \in Seq(1..Len(outputs'))
    BY DEF Legal, TInv, TypeOK
  <2>2. DOMAIN ids = 1..Len(ids)
    BY <1>1, <2>1
  <2>3. ToSet(ids) = MatchingIds(call[p])
    BY DEF Orders
  <2> QED
    BY <2>2, <2>3 DEF ToSet
<1>3. Selected(p)'
  BY <1>1, <1>2 DEF Selected, MatchingIds, Matches
<1>4. Rejected(p)'
  <2>1. \A id \in call[p].known : id \in DOMAIN outputs
    <3>1. call[p] \in Calls \cup {NoCall} /\ outputs \in Seq(Rows)
      BY DEF Legal, TInv, TypeOK
    <3>2. call[p].known \subseteq 1..Len(outputs)
      BY <3>1 DEF Calls, NoCall
    <3> QED
      BY <3>1, <3>2
  <2> QED
    BY <1>1, <1>2, <2>1 DEF Rejected, MatchingIds, Matches
<1>5. Viewed(p)'
  <2>1. DOMAIN view'[p] = {}
    BY <1>1 DEF NoView
  <2> QED
    BY <1>1, <2>1 DEF Viewed, NoView
<1> QED
  BY <1>1, <1>3, <1>4, <1>5 DEF Alone, Inserting, Querying

\* A view that is not there has nothing wrong with it.
LEMMA NoViewViewed ==
  ASSUME NEW p \in Procs, view'[p] = NoView, pc'[p] \notin {"inshash", "inputs"}
  PROVE  Viewed(p)'
<1>1. DOMAIN view'[p] = {}
  BY DEF NoView
<1> QED
  BY <1>1 DEF Viewed, NoView

\* hash_files starts on the row that was recorded next.
LEMMA NextRowAlone ==
  ASSUME Quiet, Legal, NEW p \in Procs, NextRow(p), Alone(p), Witnessed(p)', Known(p)',
         \A id \in call[p].known : Changed(p, id) => Changed(p, id)'
  PROVE  Alone(p)'
<1> DEFINE S == RowInputs(Head(todo[p]))
<1>1. S \in SUBSET Files
  BY PathSets
<1>2. files' = [files EXCEPT ![p] = PathOrder[S]] /\ chunks' = [chunks EXCEPT ![p] = <<>>]
  BY <1>1, SortedOrder DEF NextRow, StartHashing
<1>3. /\ pc'[p] = "hash" /\ pc[p] = "scan" /\ view'[p] = NoView
      /\ files'[p] = PathOrder[S] /\ chunks'[p] = <<>>
      /\ UNCHANGED <<outputs, inputs, call, todo>>
  BY <1>2 DEF NextRow, Alone, Viewed, Legal, TInv, TypeOK, db
<1>4. RowInputs(Head(todo[p]))' = S /\ S' = S
  BY <1>3 DEF RowInputs
<1> HIDE DEF S
<1>5. Walk(p, S)' /\ Len(chunks'[p]) = 0
  <2> DEFINE order == PathOrder[S]
  <2>1. Len(order) \in Nat
    BY <1>1, PathOrderSeq
  <2>2. Len(chunks'[p]) = 0 /\ files'[p] = order
    BY <1>3
  <2> HIDE DEF order
  <2>3. /\ Len(files'[p]) + Len(chunks'[p]) = Len(order)
        /\ \A j \in 1..Len(files'[p]) : files'[p][j] = order[Len(chunks'[p]) + j]
    BY <2>1, <2>2
  <2> QED
    BY <1>4, <2>2, <2>3 DEF Walk, order
<1>6. Querying(p)'
  BY <1>3, <1>4, <1>5 DEF Querying, Walk
<1>7. Selected(p)' /\ Rejected(p)'
  BY <1>3 DEF Alone, Selected, Rejected, Matches
<1>8. Viewed(p)' /\ Inserting(p)'
  BY <1>3, NoViewViewed DEF Inserting
<1> QED
  BY <1>6, <1>7, <1>8 DEF Alone

\* One more content has been hashed, and the rest of the path is left.
LEMMA HashWalks ==
  ASSUME TInv, NEW p \in Procs, HashFile(p), NEW S \in SUBSET Files, Walk(p, S)
  PROVE  /\ Walk(p, S)'
         /\ \A i \in 1..Len(chunks'[p]) :
              \/ i \in 1..Len(chunks[p]) /\ chunks'[p][i] = chunks[p][i]
              \/ i \in 1..Len(PathOrder[S]) /\ chunks'[p][i] = fs[PathOrder[S][i]]
<1>1. files[p] \in Seq(Files) /\ files[p] # <<>> /\ chunks[p] \in Seq(Bytes)
  BY DEF HashFile, TInv, TypeOK
<1>2. /\ Head(files[p]) = files[p][1] /\ Head(files[p]) \in Files
      /\ Tail(files[p]) \in Seq(Files) /\ Len(Tail(files[p])) = Len(files[p]) - 1
      /\ Len(files[p]) \in Nat \ {0} /\ Len(chunks[p]) \in Nat
      /\ \A j \in 1..(Len(files[p]) - 1) : Tail(files[p])[j] = files[p][j + 1]
  BY <1>1
<1> DEFINE b == fs[Head(files[p])]
           n == Len(chunks[p])
           k == Len(files[p])
<1>3. b \in Bytes
  BY <1>2 DEF HashFile, TInv, TypeOK, Content
<1>4. /\ Append(chunks[p], b) \in Seq(Bytes) /\ Len(Append(chunks[p], b)) = n + 1
      /\ Append(chunks[p], b)[n + 1] = b
      /\ \A i \in 1..n : Append(chunks[p], b)[i] = chunks[p][i]
  BY <1>1, <1>3, AppendProperties
<1>5. chunks'[p] = Append(chunks[p], b) /\ files'[p] = Tail(files[p])
  BY DEF HashFile, TInv, TypeOK
<1> DEFINE order == PathOrder[S]
<1>6. k + n = Len(order) /\ \A j \in 1..k : files[p][j] = order[n + j]
  BY DEF Walk
<1>7. Len(files'[p]) = k - 1 /\ Len(chunks'[p]) = n + 1
      /\ \A j \in 1..(k - 1) : files'[p][j] = files[p][j + 1]
  BY <1>2, <1>4, <1>5
<1>8. chunks'[p][n + 1] = fs[files[p][1]] /\ \A i \in 1..n : chunks'[p][i] = chunks[p][i]
  BY <1>2, <1>4, <1>5
<1>9. k \in Nat \ {0} /\ n \in Nat
  BY <1>2
<1> HIDE DEF n, k, order
<1>10. Len(order) \in Nat /\ n + 1 \in 1..Len(order) /\ files[p][1] = order[n + 1]
  BY <1>6, <1>9
<1>11. Len(files'[p]) + Len(chunks'[p]) = Len(order)
  BY <1>6, <1>7, <1>9
<1>12. \A j \in 1..(k - 1) : files[p][j + 1] = order[(n + 1) + j]
  <2> TAKE j \in 1..(k - 1)
  <2>1. j + 1 \in 1..k /\ n + (j + 1) = (n + 1) + j
    BY <1>9
  <2> QED
    BY <1>6, <2>1
<1>13. \A j \in 1..Len(files'[p]) : files'[p][j] = order[Len(chunks'[p]) + j]
  BY <1>7, <1>12
<1>14. \A i \in 1..Len(chunks'[p]) :
         \/ i \in 1..n /\ chunks'[p][i] = chunks[p][i]
         \/ i \in 1..Len(order) /\ chunks'[p][i] = fs[order[i]]
  BY <1>7, <1>8, <1>9, <1>10
<1> QED
  BY <1>11, <1>13, <1>14 DEF Walk, n, order

\* A content that is hashed is one that the call has seen, and for an insertion
\* that of the view but for the main file.
LEMMA HashFileAlone ==
  ASSUME Quiet, Legal, NEW p \in Procs, HashFile(p), Alone(p), Witnessed(p)', Known(p)'
  PROVE  Alone(p)'
<1>1. /\ pc[p] \in {"hash", "inshash"}
      /\ UNCHANGED <<fs, outputs, inputs, pc, call, todo, view, seen>>
  BY DEF HashFile, db
<1>2. Querying(p)'
  <2> SUFFICES ASSUME pc[p] = "hash" PROVE Querying(p)'
    BY <1>1 DEF Querying
  <2>1. PICK S \in SUBSET RowInputs(Head(todo[p])) :
          /\ Walk(p, S)
          /\ \A i \in 1..Len(chunks[p]) : chunks[p][i] \in seen[p][PathOrder[S][i]]
          /\ Head(todo[p]) \in call[p].known => S = RowInputs(Head(todo[p]))
    BY DEF Alone, Querying
  <2>2. S \in SUBSET Files /\ RowInputs(Head(todo[p]))' = RowInputs(Head(todo[p]))
    BY <1>1 DEF RowInputs
  <2>3. \A i \in 1..Len(PathOrder[S]) : fs[PathOrder[S][i]] \in seen[p][PathOrder[S][i]]
    BY <2>2, OrderMember DEF Alone, Witnessed
  <2>4. /\ Walk(p, S)'
        /\ \A i \in 1..Len(chunks'[p]) : chunks'[p][i] \in seen[p][PathOrder[S][i]]
    BY <2>1, <2>2, <2>3, HashWalks DEF Legal
  <2> QED
    BY <1>1, <2>1, <2>2, <2>4 DEF Querying, Walk
<1>3. Inserting(p)'
  <2> SUFFICES ASSUME pc[p] = "inshash" PROVE Inserting(p)'
    BY <1>1 DEF Inserting
  <2> DEFINE S == Tracked(view[p])
             order == PathOrder[S]
  <2>1. S \in SUBSET Files /\ S' = S /\ order' = order
    BY <1>1 DEF Legal, TInv, TypeOK, Views, Tracked, ShouldTrack
  <2>2. /\ Walk(p, S)
        /\ \A i \in 1..Len(chunks[p]) :
             /\ HashedLater(order[i], view[p][order[i]], chunks[p][i])
             /\ chunks[p][i] \in seen[p][order[i]]
    BY DEF Alone, Inserting
  <2>3. ASSUME NEW i \in 1..Len(order)
        PROVE  /\ HashedLater(order[i], view[p][order[i]], fs[order[i]])
               /\ fs[order[i]] \in seen[p][order[i]]
    <3>1. order[i] \in S
      BY <2>1, OrderMember
    <3>2. order[i] \in DOMAIN view[p] /\ order[i] \in Files /\ fs[order[i]] \in Content
      BY <2>1, <3>1 DEF Tracked, Legal, TInv, TypeOK
    <3>3. /\ Steady(order[i]) => view[p][order[i]] = fs[order[i]]
          /\ order[i] \in Volatile => Before(view[p][order[i]], fs[order[i]])
      BY <3>2 DEF Alone, Viewed
    <3> QED
      BY <3>2, <3>3, BeforeOrder DEF HashedLater, Steady, Alone, Witnessed
  <2>4. /\ Walk(p, S)'
        /\ \A i \in 1..Len(chunks'[p]) :
             \/ i \in 1..Len(chunks[p]) /\ chunks'[p][i] = chunks[p][i]
             \/ i \in 1..Len(order) /\ chunks'[p][i] = fs[order[i]]
    BY <2>1, <2>2, HashWalks DEF Legal
  <2>5. \A i \in 1..Len(chunks'[p]) :
          /\ HashedLater(order[i], view[p][order[i]], chunks'[p][i])
          /\ chunks'[p][i] \in seen[p][order[i]]
    BY <2>2, <2>3, <2>4
  <2> HIDE DEF order, S
  <2>6. (\A i \in 1..Len(chunks[p]) : HashedLater(order[i], view[p][order[i]], chunks[p][i]))'
    BY <1>1, <2>1, <2>5, RankFixed DEF HashedLater, Before
  <2> QED
    BY <1>1, <2>1, <2>4, <2>5, <2>6 DEF Inserting, S, order, HashedLater, Walk
<1>4. Selected(p)' /\ Rejected(p)'
  BY <1>1 DEF Alone, Selected, Rejected, Matches, Changed, RowInputs
<1>5. Viewed(p)'
  BY <1>1, RankFixed DEF Alone, Viewed, Wanted, NoView, Steady, ShouldTrack, Before
<1> QED
  BY <1>2, <1>3, <1>4, <1>5 DEF Alone

\* Going on to the next row, when the first has been given up with reason.
LEMMA NextInLine ==
  ASSUME Legal, NEW p \in Procs, Alone(p), Witnessed(p)', Known(p)',
         \A id \in call[p].known : Changed(p, id) => Changed(p, id)',
         pc[p] = "hash", pc'[p] = "scan", todo'[p] = Tail(todo[p]), view'[p] = view[p],
         UNCHANGED <<outputs, call>>,
         Head(todo[p]) \in call[p].known /\ Matches(outputs[Head(todo[p])], call[p])
           => Changed(p, Head(todo[p]))
  PROVE  Alone(p)'
<1>1. /\ todo[p] \in Seq(1..Len(outputs)) /\ todo[p] # <<>>
  BY DEF Legal, TInv, TypeOK, Hashing
<1>2. /\ Len(todo[p]) \in Nat \ {0} /\ Len(todo'[p]) = Len(todo[p]) - 1
      /\ Head(todo[p]) = todo[p][1]
      /\ \A i \in 1..(Len(todo[p]) - 1) : todo'[p][i] = todo[p][i + 1]
  BY <1>1
<1>3. Selected(p)'
  <2> SUFFICES ASSUME NEW i \in 1..Len(todo'[p])
               PROVE  Matches(outputs[todo'[p][i]], call[p])
    BY DEF Selected, Matches
  <2>1. i + 1 \in 1..Len(todo[p]) /\ todo'[p][i] = todo[p][i + 1]
    BY <1>2
  <2> QED
    BY <2>1 DEF Alone, Selected
<1>4. Rejected(p)'
  <2> SUFFICES ASSUME NEW id \in call[p].known, Matches(outputs[id], call[p])
               PROVE  (\E i \in 1..Len(todo'[p]) : todo'[p][i] = id) \/ Changed(p, id)'
    BY DEF Rejected, Matches
  <2>1. (\E i \in 1..Len(todo[p]) : todo[p][i] = id) \/ Changed(p, id)
    BY DEF Alone, Rejected
  <2>2. ASSUME NEW i \in 1..Len(todo[p]), todo[p][i] = id, i # 1
        PROVE  \E j \in 1..Len(todo'[p]) : todo'[p][j] = id
    <3>1. i - 1 \in 1..Len(todo'[p]) /\ i - 1 \in 1..(Len(todo[p]) - 1) /\ (i - 1) + 1 = i
      BY <1>2, <2>2
    <3> QED
      BY <1>2, <2>2, <3>1
  <2> QED
    BY <1>2, <2>1, <2>2
<1>5. Viewed(p)'
  <2>1. view'[p] = NoView
    BY DEF Alone, Viewed
  <2> QED
    BY <2>1, NoViewViewed
<1> QED
  BY <1>3, <1>4, <1>5 DEF Alone, Inserting, Querying

\* The inputs of a complete row are read by its output.
LEMMA InputOfRow ==
  ASSUME TInv, NEW id \in DOMAIN outputs, RowInputs(id) = Tracked(outputs[id].output),
         NEW f \in RowInputs(id)
  PROVE  outputs[id].output[f] \in Bytes /\ f \in Files
  BY RowType DEF Tracked

\* A row with an input that is gone is skipped.
LEMMA SkipRowAlone ==
  ASSUME Quiet, Legal, NEW p \in Procs, SkipRow(p), Alone(p), Witnessed(p)', Known(p)',
         \A id \in call[p].known : Changed(p, id) => Changed(p, id)'
  PROVE  Alone(p)'
<1> DEFINE id == Head(todo[p])
           f == Head(files[p])
<1>1. /\ pc[p] = "hash" /\ pc'[p] = "scan" /\ files[p] # <<>> /\ fs[f] = Absent
      /\ todo'[p] = Tail(todo[p]) /\ view'[p] = view[p]
      /\ UNCHANGED <<outputs, call>>
  BY DEF SkipRow, db, Legal, TInv, TypeOK
<1>2. ASSUME id \in call[p].known PROVE Changed(p, id)
  <2>1. /\ id \in DOMAIN outputs /\ RowInputs(id) = Tracked(outputs[id].output)
    BY <1>1, <1>2, KnownStays DEF Alone
  <2>2. PICK S \in SUBSET RowInputs(id) : Walk(p, S)
    BY <1>1 DEF Alone, Querying
  <2>3. S \in SUBSET Files /\ files[p] \in Seq(Files)
    BY <2>2 DEF RowInputs, Legal, TInv, TypeOK
  <2>4. 1 \in 1..Len(files[p]) /\ f = files[p][1] /\ Len(files[p]) \in Nat
    BY <1>1, <2>3
  <2>5. Len(chunks[p]) \in Nat
    BY DEF Legal, TInv, TypeOK
  <2> DEFINE order == PathOrder[S]
             n == Len(chunks[p])
             k == Len(files[p])
  <2>6. f = order[n + 1] /\ k + n = Len(order)
    BY <2>2, <2>4 DEF Walk
  <2>7. n + 1 \in 1..Len(order)
    <3>1. k \in Nat /\ 1 \in 1..k /\ n \in Nat
      BY <2>4, <2>5
    <3> HIDE DEF order, n, k
    <3> QED
      BY <3>1, <2>6
  <2>8. f \in RowInputs(id)
    BY <2>2, <2>3, <2>6, <2>7, OrderMember
  <2>9. fs[f] \in seen[p][f] /\ outputs[id].output[f] \in Bytes
    BY <1>1, <2>1, <2>8, InputOfRow DEF Alone, Witnessed, Legal
  <2> QED
    BY <1>1, <2>8, <2>9, AbsentIsNoContent DEF Changed
<1> QED
  BY <1>1, <1>2, NextInLine

\* A row whose digest differs has an input that differs.
LEMMA DifferAlone ==
  ASSUME Quiet, Legal, NEW p \in Procs, Differ(p), Alone(p), Witnessed(p)', Known(p)',
         \A id \in call[p].known : Changed(p, id) => Changed(p, id)'
  PROVE  Alone(p)'
<1> DEFINE id == Head(todo[p])
<1>1. /\ pc[p] = "hash" /\ pc'[p] = "scan" /\ files[p] = <<>> /\ ~HashAgrees(p)
      /\ todo'[p] = Tail(todo[p]) /\ view'[p] = view[p]
      /\ UNCHANGED <<outputs, call>>
  BY DEF Differ, DifferWith, db, Legal, TInv, TypeOK
<1>2. ASSUME id \in call[p].known, Matches(outputs[id], call[p]), ~Changed(p, id)
      PROVE  FALSE
  <2> DEFINE out == outputs[id].output
             S == RowInputs(id)
             order == PathOrder[S]
  <2>1. /\ id \in DOMAIN outputs /\ S = Tracked(out) /\ outputs[id].input_hash = Digest(Contents(id))
    BY <1>1, <1>2, KnownStays DEF Alone, Known
  <2>2. /\ Walk(p, S)
        /\ \A i \in 1..Len(chunks[p]) : chunks[p][i] \in seen[p][order[i]]
    BY <1>1, <1>2 DEF Alone, Querying
  <2>3. S \in SUBSET Files /\ chunks[p] \in Seq(Bytes)
    BY DEF RowInputs, Legal, TInv, TypeOK
  <2>4. Len(chunks[p]) = Len(order)
    <3>1. Len(files[p]) = 0 /\ Len(chunks[p]) \in Nat
      BY <1>1, <2>3
    <3>2. Len(files[p]) + Len(chunks[p]) = Len(order)
      BY <2>2 DEF Walk
    <3> HIDE DEF order
    <3> QED
      BY <3>1, <3>2
  <2>5. \A i \in 1..Len(chunks[p]) : chunks[p][i] = out[order[i]]
    <3> TAKE i \in 1..Len(chunks[p])
    <3>1. order[i] \in S
      BY <2>3, <2>4, OrderMember
    <3> QED
      BY <1>2, <2>2, <3>1 DEF Changed
  <2>6. chunks[p] = [i \in 1..Len(order) |-> out[order[i]]]
    BY <2>3, <2>4, <2>5
  <2>7. chunks[p] = Contents(id)
    BY <2>1, <2>6 DEF Contents
  <2> QED
    BY <1>1, <2>1, <2>7 DEF HashAgrees
<1> QED
  BY <1>1, <1>2, NextInLine

\* No row is left: all of them have been given up with reason.
LEMMA MissAlone ==
  ASSUME Quiet, Legal, NEW p \in Procs, Miss(p), Alone(p), Witnessed(p)', Known(p)',
         \A id \in call[p].known : Changed(p, id) => Changed(p, id)'
  PROVE  Alone(p)'
<1>1. /\ pc[p] = "scan" /\ pc'[p] = "eval" /\ Len(todo[p]) = 0 /\ view'[p] = NoView
      /\ UNCHANGED <<outputs, call>>
  BY DEF Miss, db, locals, Alone, Viewed, Legal, TInv, TypeOK
<1>2. Rejected(p)'
  BY <1>1 DEF Alone, Rejected, Matches
<1> QED
  BY <1>1, <1>2, NoViewViewed DEF Alone, Inserting, Querying, Selected

\* The child reads a file that it wants, as it is now.
LEMMA ReadFileAlone ==
  ASSUME Quiet, Legal, NEW p \in Procs, NEW f \in Files, ReadFile(p, f), Alone(p), Witnessed(p)',
         Known(p)', \A id \in call[p].known : Changed(p, id) => Changed(p, id)'
  PROVE  Alone(p)'
<1> DEFINE old == view[p]
           v == [g \in DOMAIN old \cup {f} |-> IF g = f THEN fs[f] ELSE old[g]]
           c == call[p]
<1>1. /\ pc[p] = "eval" /\ UNCHANGED <<fs, outputs, inputs, pc, call, todo, files, chunks, seen>>
      /\ view'[p] = v /\ f \in Wanted(c.main, c.attr, old) /\ f \notin DOMAIN old
  BY DEF ReadFile, Pending, db, hashing, Legal, TInv, TypeOK
<1>2. /\ \A g \in DOMAIN old : old[g] \in seen[p][g]
      /\ DOMAIN old \subseteq Wanted(c.main, c.attr, old)
      /\ \A g \in DOMAIN old :
           /\ Steady(g) => old[g] = fs[g]
           /\ g \in Volatile => Before(c.hash, old[g]) /\ Before(old[g], fs[g])
  BY <1>1 DEF Alone, Viewed
<1>3. DOMAIN v = DOMAIN old \cup {f} /\ v[f] = fs[f] /\ \A g \in DOMAIN old : v[g] = old[g]
  BY <1>1
<1> HIDE DEF v
<1>4. \A g \in DOMAIN v : v[g] \in seen[p][g]
  BY <1>1, <1>2, <1>3 DEF Alone, Witnessed
<1>5. DOMAIN v \subseteq Wanted(c.main, c.attr, v)
  BY <1>1, <1>2, <1>3 DEF Wanted
<1>6. ASSUME NEW g \in DOMAIN v
      PROVE  /\ Steady(g) => v[g] = fs[g]
             /\ g \in Volatile => Before(c.hash, v[g]) /\ Before(v[g], fs[g])
  <2>1. CASE g = f
    <3>1. fs[f] \in Content /\ (f \in Volatile => Before(c.hash, fs[f]))
      BY <1>1 DEF Alone, Witnessed, Legal, TInv, TypeOK
    <3> QED
      BY <1>3, <2>1, <3>1, BeforeOrder
  <2> QED
    BY <1>2, <1>3, <2>1
<1>7. Viewed(p)'
  <2>1. (\A g \in DOMAIN view[p] : view[p][g] \in seen[p][g])'
    BY <1>1, <1>4
  <2>2. (DOMAIN view[p] \subseteq Wanted(call[p].main, call[p].attr, view[p]))'
    BY <1>1, <1>5 DEF Wanted
  <2>3. (\A g \in DOMAIN view[p] :
           /\ Steady(g) => view[p][g] = fs[g]
           /\ g \in Volatile => Before(call[p].hash, view[p][g]) /\ Before(view[p][g], fs[g]))'
    BY <1>1, <1>6, RankFixed DEF Steady, ShouldTrack, Before
  <2> QED
    BY <1>1, <2>1, <2>2, <2>3 DEF Viewed
<1>8. Rejected(p)'
  BY <1>1 DEF Alone, Rejected, Matches
<1> QED
  BY <1>1, <1>7, <1>8 DEF Alone, Inserting, Querying, Selected

\* The evaluation has read all that it wanted, and its inputs are to be hashed.
LEMMA FinishAlone ==
  ASSUME Quiet, Legal, NEW p \in Procs, Finish(p), Alone(p), Witnessed(p)',
         Known(p)', \A id \in call[p].known : Changed(p, id) => Changed(p, id)'
  PROVE  Alone(p)'
<1> DEFINE S == Tracked(view[p])
<1>1. S \in SUBSET Files
  BY PathSets DEF Legal, TInv, TypeOK
<1>2. files' = [files EXCEPT ![p] = PathOrder[S]] /\ chunks' = [chunks EXCEPT ![p] = <<>>]
  BY <1>1, SortedOrder DEF Finish, StartHashing
<1>3. /\ pc[p] = "eval" /\ pc'[p] = "inshash" /\ Len(chunks'[p]) = 0
      /\ files'[p] = PathOrder[S]
      /\ UNCHANGED <<fs, outputs, inputs, call, view, seen>>
      /\ Wanted(call[p].main, call[p].attr, view[p]) \subseteq DOMAIN view[p]
  BY <1>2 DEF Finish, Pending, db, Legal, TInv, TypeOK
<1>4. S' = S
  BY <1>3 DEF Tracked, ShouldTrack
<1>5. Walk(p, S)'
  <2> DEFINE order == PathOrder[S]
  <2>1. Len(order) \in Nat
    BY <1>1, PathOrderSeq
  <2>2. Len(chunks'[p]) = 0 /\ files'[p] = order
    BY <1>3
  <2> HIDE DEF order
  <2>3. /\ Len(files'[p]) + Len(chunks'[p]) = Len(order)
        /\ \A j \in 1..Len(files'[p]) : files'[p][j] = order[Len(chunks'[p]) + j]
    BY <2>1, <2>2
  <2> QED
    BY <1>4, <2>2, <2>3 DEF Walk, order
<1>6. Inserting(p)'
  BY <1>3, <1>5 DEF Inserting
<1>7. Viewed(p)'
  BY <1>3, RankFixed DEF Alone, Viewed, Wanted, Steady, ShouldTrack, Before
<1>8. Rejected(p)'
  BY <1>3 DEF Alone, Rejected, Matches
<1> QED
  BY <1>3, <1>6, <1>7, <1>8 DEF Alone, Querying, Selected

\* An insertion that has begun needs only its view.
LEMMA InsertOutputAlone ==
  ASSUME Legal, NEW p \in Procs, InsertOutput(p), Alone(p), Witnessed(p)', Known(p)'
  PROVE  Alone(p)'
<1>1. /\ pc[p] = "inshash" /\ pc'[p] = "inputs" /\ UNCHANGED <<fs, call, view, seen>>
  BY DEF InsertOutput, Legal, TInv, TypeOK
<1>2. Viewed(p)'
  BY <1>1 DEF Alone, Viewed, Wanted
<1>3. Rejected(p)'
  BY <1>1 DEF Rejected
<1> QED
  BY <1>1, <1>2, <1>3 DEF Alone, Inserting, Querying, Selected

\* The row that is inserted is faithful to the view it comes from.
LEMMA NewRowFaithful ==
  ASSUME Quiet, Legal, NEW p \in Procs, InsertOutput(p), Alone(p), NEW id \in DOMAIN outputs',
         id \notin DOMAIN outputs
  PROVE  /\ RowFaithful(id)'
         /\ outputs'[id].output = view[p] /\ outputs'[id].main = call[p].main
         /\ outputs'[id].attr = call[p].attr /\ outputs'[id].hash = call[p].hash
<1> DEFINE r == [main |-> call[p].main, attr |-> call[p].attr, hash |-> call[p].hash,
                 output |-> view[p], input_hash |-> Digest(chunks[p])]
           S == Tracked(view[p])
           order == PathOrder[S]
<1>1. /\ pc[p] = "inshash" /\ files[p] = <<>> /\ outputs' = Append(outputs, r)
      /\ UNCHANGED <<fs, view>>
  BY DEF InsertOutput
<1>2. /\ r.main = call[p].main /\ r.attr = call[p].attr /\ r.hash = call[p].hash
      /\ r.output = view[p] /\ r.input_hash = Digest(chunks[p])
  OBVIOUS
<1> HIDE DEF r
<1>3. outputs'[id] = r
  <2>1. outputs \in Seq(Rows \cup {r})
    BY DEF Legal, TInv, TypeOK
  <2>2. /\ DOMAIN outputs = 1..Len(outputs) /\ DOMAIN outputs' = 1..(Len(outputs) + 1)
        /\ outputs'[Len(outputs) + 1] = r /\ Len(outputs) \in Nat
    BY <1>1, <2>1, AppendProperties
  <2>3. id = Len(outputs) + 1
    BY <2>2
  <2> QED
    BY <2>2, <2>3
<1>4. /\ DOMAIN view[p] = Wanted(call[p].main, call[p].attr, view[p])
      /\ \A f \in DOMAIN view[p] :
           /\ ~ShouldTrack(f) => view[p][f] = fs[f]
           /\ f \in Volatile => Before(call[p].hash, view[p][f]) /\ Before(view[p][f], fs[f])
  BY <1>1 DEF Alone, Viewed, Steady
<1>5. /\ Walk(p, S)
      /\ \A i \in 1..Len(chunks[p]) : HashedLater(order[i], view[p][order[i]], chunks[p][i])
  BY <1>1 DEF Alone, Inserting
<1>6. Len(chunks[p]) = Len(order) /\ chunks[p] \in BoundedSeq(Bytes, Cardinality(Files))
  <2>1. Len(files[p]) = 0 /\ chunks[p] \in Seq(Bytes) /\ Len(chunks[p]) \in Nat
        /\ Cardinality(Files) \in Nat /\ Len(files[p]) + Len(chunks[p]) <= Cardinality(Files)
    <3>1. Len(files[p]) = 0 /\ chunks[p] \in Seq(Bytes) /\ Len(chunks[p]) \in Nat
      BY <1>1 DEF Legal, TInv, TypeOK
    <3>2. Cardinality(Files) \in Nat
      BY FilesFinite, FS_CardinalityType
    <3>3. Len(files[p]) + Len(chunks[p]) <= Cardinality(Files)
      BY DEF Legal, TInv, Hashing
    <3> QED
      BY <3>1, <3>2, <3>3
  <2>2. Len(files[p]) + Len(chunks[p]) = Len(order)
    BY <1>5 DEF Walk
  <2>3. chunks[p] \in BoundedSeq(Bytes, Cardinality(Files))
    <3>1. Len(chunks[p]) <= Cardinality(Files)
      BY <2>1
    <3> QED
      BY <2>1, <3>1, DigestType
  <2> HIDE DEF order
  <2> QED
    BY <2>1, <2>2, <2>3
<1>7. Tracked(outputs[id].output)' = S
  BY <1>2, <1>3 DEF Tracked, ShouldTrack
<1>8. (DOMAIN outputs[id].output = Wanted(outputs[id].main, outputs[id].attr, outputs[id].output))'
  BY <1>2, <1>3, <1>4 DEF Wanted
<1>9. (\A f \in DOMAIN outputs[id].output :
         /\ ~ShouldTrack(f) => outputs[id].output[f] = fs[f]
         /\ f \in Volatile =>
              Before(outputs[id].hash, outputs[id].output[f]) /\ Before(outputs[id].output[f], fs[f]))'
  BY <1>1, <1>2, <1>3, <1>4, RankFixed DEF ShouldTrack, Before
<1>10. (\E cs \in BoundedSeq(Bytes, Cardinality(Files)) :
          LET path == PathOrder[Tracked(outputs[id].output)]
          IN  /\ Len(cs) = Len(path)
              /\ outputs[id].input_hash = Digest(cs)
              /\ \A i \in 1..Len(cs) : HashedLater(path[i], outputs[id].output[path[i]], cs[i]))'
  <2> DEFINE out == outputs[id].output
             path == PathOrder[Tracked(out)]
  <2>1. /\ Len(chunks[p]) = Len(path') /\ (outputs[id].input_hash)' = Digest(chunks[p])
        /\ path' = order /\ out' = view[p]
    BY <1>2, <1>3, <1>6, <1>7
  <2> HIDE DEF path, out
  <2>2. \A i \in 1..Len(chunks[p]) :
          IF path'[i] \in Volatile
          THEN Before(out'[path'[i]], chunks[p][i]) /\ Before(chunks[p][i], fs'[path'[i]])
          ELSE out'[path'[i]] = chunks[p][i]
    BY <1>1, <1>5, <2>1 DEF HashedLater
  <2> QED
    BY <1>6, <2>1, <2>2, RankFixed DEF HashedLater, Digest, Before, path, out
<1> QED
  BY <1>2, <1>3, <1>8, <1>9, <1>10 DEF RowFaithful

----------------------------------------------------------------------------
(* One step of the whole.                                                  *)

\* Whatever process p does.
Acts(p) ==
  \/ \E m \in Mains, a \in Attrs : Call(p, m, a) \/ CallMissing(p, m, a)
  \/ Step(p) \/ DbError(p) \/ ChildKilled(p) \/ Crash(p)

\* A step is one of a process, or an edit, or none.
LEMMA Actors ==
  ASSUME [Next]_vars
  PROVE  \/ \E p \in Procs : Acts(p)
         \/ \E f \in Files, c \in Content : Edit(f, c)
         \/ UNCHANGED vars
  BY DEF Next, Acts, Rest

\* The others rest meanwhile.
LEMMA OthersRest ==
  ASSUME TInv, NEW p \in Procs, Acts(p), NEW q \in Procs, q # p
  PROVE  Rests(q) /\ seen'[q] = seen[q] /\ result'[q] = result[q]
  BY DEF TInv, TypeOK, Rests, Acts, Step, Call, CallMissing, NewCall, Query, NextRow,
         StartHashing, HashFile, SkipRow, Hit, Differ, DifferWith, Miss, ReadFile, EvalError, Finish,
         HashError, InsertOutput, InsertInput, InsertConflict, Store, DbError, ChildKilled, Crash,
         Return, db, locals, hashing

\* Files change by edits only.
LEMMA ActsKeepFiles ==
  ASSUME NEW p \in Procs, Acts(p)
  PROVE  fs' = fs
  BY DEF Acts, Step, Call, CallMissing, NewCall, Query, NextRow, HashFile, SkipRow, Hit, Differ,
         DifferWith, Miss, ReadFile, EvalError, Finish, HashError, InsertOutput, InsertInput,
         InsertConflict, Store, DbError, ChildKilled, Crash, Return, db, locals, hashing

\* During a call nothing that was seen is forgotten, and what is there is seen.
LEMMA ActsKeepSeen ==
  ASSUME NEW p \in Procs, Acts(p), pc[p] # "idle"
  PROVE  UNCHANGED <<call, seen>>
  BY DEF Acts, Step, Call, CallMissing, Query, NextRow, HashFile, SkipRow, Hit, Differ,
         DifferWith, Miss, ReadFile, EvalError, Finish, HashError, InsertOutput, InsertInput,
         InsertConflict, Store, DbError, ChildKilled, Crash, Return, db, locals, hashing

\* A call keeps track of the contents, whoever acts.
LEMMA EveryoneSees ==
  ASSUME Legal, [Next]_vars, NEW q \in Procs, Witnessed(q)
  PROVE  SeenGrows(q)
<1>ty. TypeOK
  BY DEF Legal, TInv
<1>1. ASSUME NEW p \in Procs, Acts(p) PROVE SeenGrows(q)
  <2>1. fs' = fs
    BY <1>1, ActsKeepFiles
  <2>2. pc[q] # "idle" => seen'[q] = seen[q]
    <3>1. CASE q = p
      BY <1>1, <3>1, ActsKeepSeen
    <3>2. CASE q # p
      BY <1>1, <3>2, OthersRest DEF Legal
    <3> QED
      BY <3>1, <3>2
  <2> QED
    BY <2>1, <2>2 DEF SeenGrows, Witnessed
<1>2. ASSUME NEW f \in Files, NEW c \in Content, Edit(f, c) PROVE SeenGrows(q)
  BY <1>2, <1>ty DEF Edit, SeenGrows, Witnessed, TypeOK
<1>3. CASE UNCHANGED vars
  BY <1>3 DEF vars, SeenGrows, Witnessed
<1> QED
  BY <1>1, <1>2, <1>3, Actors

\* An edit disturbs no process.
LEMMA EditRests ==
  ASSUME Legal, NEW f \in Files, NEW c \in Content, Edit(f, c), NEW q \in Procs
  PROVE  Rests(q)
  BY DEF Legal, TInv, TypeOK, Edit, Rests, db, locals, hashing

\* A process that acts still knows what it has to know.
LEMMA ActorAlone ==
  ASSUME Quiet, Legal, NEW p \in Procs, Acts(p), Alone(p), SeenGrows(p),
         \A id \in DOMAIN outputs : RowFaithful(id)
  PROVE  Alone(p)'
<1>1. ASSUME NEW m \in Mains, NEW a \in Attrs, Call(p, m, a) PROVE Alone(p)'
  BY <1>1, CallAlone
<1>2. ASSUME NEW m \in Mains, NEW a \in Attrs, CallMissing(p, m, a) PROVE Alone(p)'
  <2>1. pc[p] = "idle" /\ pc'[p] = "idle" /\ view'[p] = view[p]
    BY <1>2 DEF CallMissing, locals
  <2> QED
    BY <2>1, IdleKnowsNothing DEF Alone, Viewed
<1>3. ASSUME NEW r, Return(p, r) PROVE Alone(p)'
  <2>1. pc'[p] = "idle" /\ view'[p] = NoView
    BY <1>3 DEF Return, Legal, TInv, TypeOK
  <2> QED
    BY <2>1, IdleKnowsNothing
<1>4. ASSUME Step(p) PROVE Alone(p)'
  <2>1. pc[p] # "idle"
    BY <1>4 DEF Step, Query, NextRow, HashFile, SkipRow, Hit, Differ, DifferWith, Miss, ReadFile,
       EvalError, Finish, HashError, InsertOutput, InsertConflict, InsertInput, Store
  <2>2. call'[p] = call[p]
    BY <2>1, ActsKeepSeen
  <2>3. /\ Witnessed(p)' /\ Known(p)'
        /\ \A id \in call[p].known : Changed(p, id) => Changed(p, id)'
    BY <2>1, <2>2, CallKeeps DEF Alone
  <2>4. ASSUME NEW f \in Files, InsertInput(p, f) PROVE Alone(p)'
    <3>1. Rests(p)
      BY <2>4 DEF InsertInput, locals, hashing, Rests
    <3> QED
      BY <3>1, RestKeeps
  <2>5. CASE Query(p)
    BY <2>3, <2>5, QueryAlone
  <2>6. CASE NextRow(p)
    BY <2>3, <2>6, NextRowAlone
  <2>7. CASE HashFile(p)
    BY <2>3, <2>7, HashFileAlone
  <2>8. CASE SkipRow(p)
    BY <2>3, <2>8, SkipRowAlone
  <2>9. CASE Differ(p)
    BY <2>3, <2>9, DifferAlone
  <2>10. CASE Miss(p)
    BY <2>3, <2>10, MissAlone
  <2>11. ASSUME NEW f \in Files, ReadFile(p, f) PROVE Alone(p)'
    BY <2>3, <2>11, ReadFileAlone
  <2>12. CASE Finish(p)
    BY <2>3, <2>12, FinishAlone
  <2>13. CASE InsertOutput(p)
    BY <2>3, <2>13, InsertOutputAlone
  <2>14. CASE Hit(p) \/ EvalError(p) \/ HashError(p) \/ InsertConflict(p) \/ Store(p)
    BY <1>3, <2>14 DEF Hit, EvalError, HashError, InsertConflict, Store
  <2> QED
    BY <1>4, <2>4, <2>5, <2>6, <2>7, <2>8, <2>9, <2>10, <2>11, <2>12, <2>13, <2>14 DEF Step
<1>5. CASE DbError(p) \/ ChildKilled(p) \/ Crash(p)
  BY <1>3, <1>5 DEF DbError, ChildKilled, Crash
<1> QED
  BY <1>1, <1>2, <1>4, <1>5 DEF Acts

\* No step makes a process lose what it knows.
LEMMA AloneStep ==
  ASSUME Quiet, Legal, [Next]_vars, \A q \in Procs : Alone(q),
         \A id \in DOMAIN outputs : RowFaithful(id)
  PROVE  \A q \in Procs : Alone(q)'
<1> TAKE q \in Procs
<1>1. SeenGrows(q)
  BY EveryoneSees DEF Alone
<1>2. ASSUME NEW p \in Procs, Acts(p) PROVE Alone(q)'
  <2>1. CASE q = p
    BY <1>1, <1>2, <2>1, ActorAlone
  <2>2. CASE q # p
    <3>1. Rests(q)
      BY <1>2, <2>2, OthersRest DEF Legal
    <3> QED
      BY <1>1, <3>1, RestKeeps
  <2> QED
    BY <2>1, <2>2
<1>3. ASSUME NEW f \in Files, NEW c \in Content, Edit(f, c) PROVE Alone(q)'
  BY <1>1, <1>3, EditRests, RestKeeps
<1>4. CASE UNCHANGED vars
  <2>1. Rests(q)
    BY <1>4 DEF vars, locals, hashing, Rests
  <2> QED
    BY <1>1, <2>1, RestKeeps
<1> QED
  BY <1>2, <1>3, <1>4, Actors

\* A row that a step adds is the view of a process that was about to insert it.
LEMMA NewRow ==
  ASSUME Quiet, Legal, [Next]_vars, \A p \in Procs : Alone(p), NEW id \in DOMAIN outputs',
         id \notin DOMAIN outputs
  PROVE  /\ RowFaithful(id)'
         /\ \E p \in Procs :
              /\ pc[p] = "inshash" /\ outputs'[id].output = view[p]
              /\ outputs'[id].hash = call[p].hash
<1>1. PICK p \in Procs : InsertOutput(p)
  BY DEF Next, Step, Rest, vars, db, locals, hashing, Call, CallMissing, Query, NextRow,
     HashFile, SkipRow, Hit, Differ, DifferWith, Miss, ReadFile, EvalError, Finish, HashError,
     InsertConflict, InsertInput, Store, DbError, ChildKilled, Crash, Edit
<1>2. pc[p] = "inshash"
  BY <1>1 DEF InsertOutput
<1> QED
  BY <1>1, <1>2, NewRowFaithful

\* No step makes a row unfaithful.
LEMMA RowsStep ==
  ASSUME Quiet, Legal, [Next]_vars, \A q \in Procs : Alone(q),
         \A id \in DOMAIN outputs : RowFaithful(id)
  PROVE  \A id \in DOMAIN outputs' : RowFaithful(id)'
<1> TAKE id \in DOMAIN outputs'
<1>1. CASE id \in DOMAIN outputs
  <2>1. outputs'[id] = outputs[id]
    BY <1>1 DEF Legal, DbGrows
  <2> QED
    BY <1>1, <2>1, RowStaysFaithful DEF Legal
<1>2. CASE id \notin DOMAIN outputs
  BY <1>2, NewRow
<1> QED
  BY <1>1, <1>2

\* A call keeps its key until it ends.
LEMMA CallLasts ==
  ASSUME Legal, [Next]_vars, NEW q \in Procs, pc[q] # "idle"
  PROVE  call'[q] = call[q]
<1>1. ASSUME NEW p \in Procs, Acts(p) PROVE call'[q] = call[q]
  <2>1. CASE q = p
    BY <1>1, <2>1, ActsKeepSeen
  <2>2. CASE q # p
    BY <1>1, <2>2, OthersRest DEF Legal, Rests
  <2> QED
    BY <2>1, <2>2
<1>2. ASSUME NEW f \in Files, NEW c \in Content, Edit(f, c) PROVE call'[q] = call[q]
  BY <1>2 DEF Edit
<1>3. CASE UNCHANGED vars
  BY <1>3 DEF vars
<1> QED
  BY <1>1, <1>2, <1>3, Actors

\* What an evaluation has read after a step, it had read before or reads now.
LEMMA ViewMoves ==
  ASSUME Legal, [Next]_vars, NEW p \in Procs, Viewed(p), pc'[p] \in {"eval", "inshash"}
  PROVE  /\ call'[p] = call[p]
         /\ \A f \in DOMAIN view'[p] :
              \/ fs'[f] = view'[p][f]
              \/ pc[p] \in {"eval", "inshash"} /\ f \in DOMAIN view[p] /\ view'[p][f] = view[p][f]
<1>ty. TypeOK
  BY DEF Legal, TInv
<1>1. CASE Rests(p)
  BY <1>1 DEF Rests
<1>2. ASSUME Acts(p) PROVE /\ pc[p] # "idle"
                           /\ \/ \E f \in Files : ReadFile(p, f)
                              \/ view'[p] = view[p] /\ pc[p] \in {"eval", "inshash", "scan"}
  BY <1>2, <1>ty
  DEF Acts, Step, Call, CallMissing, NewCall, Query, NextRow, HashFile, SkipRow, Hit, Differ,
      DifferWith, Miss, EvalError, Finish, HashError, InsertOutput, InsertInput, ReadFile,
      InsertConflict, Store, DbError, ChildKilled, Crash, Return, locals, TypeOK
<1>3. ASSUME Acts(p)
      PROVE  \A f \in DOMAIN view'[p] :
               \/ fs'[f] = view'[p][f]
               \/ pc[p] \in {"eval", "inshash"} /\ f \in DOMAIN view[p] /\ view'[p][f] = view[p][f]
  <2>1. ASSUME NEW g \in Files, ReadFile(p, g)
        PROVE  /\ pc[p] = "eval" /\ fs' = fs
               /\ view'[p] = [h \in DOMAIN view[p] \cup {g} |-> IF h = g THEN fs[g] ELSE view[p][h]]
    BY <2>1, <1>ty DEF ReadFile, TypeOK
  <2>2. ASSUME NEW g \in Files, ReadFile(p, g)
        PROVE  \A f \in DOMAIN view'[p] :
                 \/ fs'[f] = view'[p][f]
                 \/ pc[p] \in {"eval", "inshash"} /\ f \in DOMAIN view[p] /\ view'[p][f] = view[p][f]
    <3>1. /\ pc[p] = "eval" /\ fs' = fs
          /\ view'[p] = [h \in DOMAIN view[p] \cup {g} |-> IF h = g THEN fs[g] ELSE view[p][h]]
      BY <2>1, <2>2
    <3> QED
      BY <3>1
  <2>3. CASE view'[p] = view[p] /\ pc[p] \in {"eval", "inshash"}
    BY <2>3
  <2>4. CASE view'[p] = view[p] /\ pc[p] = "scan"
    <3>1. DOMAIN view[p] = {}
      BY <2>4 DEF Viewed, NoView
    <3> QED
      BY <2>4, <3>1
  <2> QED
    BY <1>2, <1>3, <2>2, <2>3, <2>4
<1>4. Rests(p) \/ Acts(p)
  <2>1. ASSUME NEW q \in Procs, Acts(q) PROVE Rests(p) \/ Acts(p)
    BY <2>1, OthersRest DEF Legal
  <2>2. ASSUME NEW f \in Files, NEW c \in Content, Edit(f, c) PROVE Rests(p)
    BY <2>2, EditRests
  <2>3. CASE UNCHANGED vars
    BY <2>3 DEF vars, locals, hashing, Rests
  <2> QED
    BY <2>1, <2>2, <2>3, Actors
<1> QED
  BY <1>1, <1>2, <1>3, <1>4, CallLasts

\* A call that begins finds its main file as it has been ever since it had that
\* content.
LEMMA SharedBegins ==
  ASSUME Quiet, Legal, [Next]_vars, \A p \in Procs : Alone(p),
         \A id \in DOMAIN outputs : RowFaithful(id), NEW q \in Procs, pc[q] = "idle", pc'[q] # "idle"
  PROVE  Shared(q)'
<1>ty. TypeOK /\ TInv
  BY DEF Legal, TInv
<1>1. PICK m \in Mains, a \in Attrs : Call(q, m, a)
  <2>1. ASSUME NEW p \in Procs, Acts(p) PROVE \E m \in Mains, a \in Attrs : Call(q, m, a)
    <3>1. q = p
      BY <2>1, OthersRest DEF Legal, Rests
    <3>2. \A m \in Mains, a \in Attrs : ~CallMissing(q, m, a)
      BY DEF CallMissing
    <3>3. ~Step(q) /\ ~DbError(q) /\ ~ChildKilled(q) /\ ~Crash(q)
      BY DEF Step, Query, NextRow, HashFile, SkipRow, Hit, Differ, DifferWith, Miss, ReadFile,
         EvalError, Finish, HashError, InsertOutput, InsertConflict, InsertInput, Store, DbError,
         AtDatabase, ChildKilled, Crash
    <3> QED
      BY <2>1, <3>1, <3>2, <3>3 DEF Acts
  <2>2. ASSUME NEW f \in Files, NEW c \in Content, Edit(f, c) PROVE FALSE
    BY <2>2 DEF Edit
  <2> QED
    BY <2>1, <2>2, Actors DEF vars
<1>2. Acts(q) /\ fs' = fs /\ outputs' = outputs /\ view' = view
  BY <1>1 DEF Acts, Call, db, locals
<1>3. call'[q].hash = fs[m] /\ pc'[q] = "query" /\ \A f \in Files : seen'[q][f] = {fs[f]}
  BY <1>1, <1>ty DEF Call, NewCall, TypeOK
<1>4. \A f \in Volatile : f = m /\ f \in Files /\ fs[f] \in Content
  BY FilesFinite, <1>ty DEF Quiet, TypeOK
<1>5. ASSUME NEW f \in Volatile, NEW id \in DOMAIN outputs, outputs[id].hash = fs[m],
             f \in DOMAIN outputs[id].output
      PROVE  outputs[id].output[f] \in seen'[q][f]
  BY <1>3, <1>4, <1>5, <1>ty, RowOfTheMoment
<1>6. ASSUME NEW f \in Volatile, NEW p \in Procs, pc'[p] \in {"eval", "inshash"},
             call'[p].hash = fs[m], f \in DOMAIN view'[p]
      PROVE  view'[p][f] \in seen'[q][f]
  <2>1. p # q
    BY <1>3, <1>6
  <2>2. Rests(p)
    BY <1>2, <2>1, OthersRest DEF Legal
  <2>3. /\ Before(call[p].hash, view[p][f]) /\ Before(view[p][f], fs[f])
        /\ view[p][f] \in Content /\ call[p].hash = fs[f] /\ view'[p][f] = view[p][f]
    <3>1. pc[p] \in {"eval", "inshash"} /\ f \in DOMAIN view[p] /\ call[p].hash = fs[m]
      BY <1>6, <2>2 DEF Rests
    <3>2. view[p][f] \in Content
      BY <3>1, <1>ty DEF TypeOK, Views, Content
    <3> QED
      BY <1>4, <2>2, <3>1, <3>2 DEF Alone, Viewed, Rests
  <2> QED
    BY <1>3, <1>4, <2>3, BeforeOrder
<1> QED
  BY <1>2, <1>3, <1>5, <1>6 DEF Shared

\* A call goes on to live through what others read of its main file.
LEMMA SharedLasts ==
  ASSUME Quiet, Legal, [Next]_vars, \A p \in Procs : Alone(p), NEW q \in Procs, pc[q] # "idle",
         Shared(q)
  PROVE  Shared(q)'
<1>1. call'[q] = call[q]
  BY CallLasts
<1>2. \A f \in Files : seen[q][f] \subseteq seen'[q][f] /\ fs'[f] \in seen'[q][f]
  BY EveryoneSees DEF SeenGrows, Alone
<1>3. \A f \in Volatile : f \in Files
  <2>1. call[q].main \in Mains
    BY DEF Legal, TInv, Hashing
  <2> QED
    BY <2>1, FilesFinite DEF Quiet
<1>4. ASSUME NEW f \in Volatile, NEW id \in DOMAIN outputs', outputs'[id].hash = call[q].hash,
             f \in DOMAIN outputs'[id].output
      PROVE  outputs'[id].output[f] \in seen'[q][f]
  <2>1. CASE id \in DOMAIN outputs
    <3>1. outputs'[id] = outputs[id]
      BY <2>1 DEF Legal, DbGrows
    <3> QED
      BY <1>2, <1>3, <1>4, <2>1, <3>1 DEF Shared
  <2>2. CASE id \notin DOMAIN outputs
    <3>1. PICK p \in Procs : /\ pc[p] = "inshash" /\ outputs'[id].output = view[p]
                             /\ outputs'[id].hash = call[p].hash
      BY <2>2, NewRow
    <3> QED
      BY <1>2, <1>3, <1>4, <3>1 DEF Shared
  <2> QED
    BY <2>1, <2>2
<1>5. ASSUME NEW f \in Volatile, NEW p \in Procs, pc'[p] \in {"eval", "inshash"},
             call'[p].hash = call[q].hash, f \in DOMAIN view'[p]
      PROVE  view'[p][f] \in seen'[q][f]
  <2>1. call'[p] = call[p]
        /\ \/ fs'[f] = view'[p][f]
           \/ pc[p] \in {"eval", "inshash"} /\ f \in DOMAIN view[p] /\ view'[p][f] = view[p][f]
    BY <1>5, ViewMoves DEF Alone
  <2> QED
    BY <1>2, <1>3, <1>5, <2>1 DEF Shared
<1> QED
  BY <1>1, <1>4, <1>5 DEF Shared

\* Calls of one key share what happened to their main file, from step to step.
LEMMA SharedStep ==
  ASSUME Quiet, Legal, [Next]_vars, \A p \in Procs : Alone(p) /\ Shared(p),
         \A id \in DOMAIN outputs : RowFaithful(id)
  PROVE  \A q \in Procs : Shared(q)'
<1> TAKE q \in Procs
<1>1. CASE pc'[q] = "idle"
  BY <1>1 DEF Shared
<1> QED
  BY <1>1, SharedBegins, SharedLasts

----------------------------------------------------------------------------
(* What is answered is fresh.                                              *)

\* A row that is served is a run of the evaluator for the call's key, over
\* contents that the files had during the call.
LEMMA HitAnswers ==
  ASSUME Quiet, TInv, Honest, FInv, NEW p \in Procs, Hit(p)
  PROVE  LET v == outputs[Head(todo[p])].output
         IN  /\ v \in Views /\ result'[p] = Ok(v, FALSE)
             /\ DOMAIN v = Wanted(call[p].main, call[p].attr, v)
             /\ \A f \in DOMAIN v : v[f] \in seen[p][f]
<1> DEFINE id == Head(todo[p])
           v == outputs[id].output
           T == Tracked(v)
<1>1. /\ pc[p] = "hash" /\ files[p] = <<>> /\ Digest(chunks[p]) = outputs[id].input_hash
      /\ result'[p] = Ok(v, FALSE) /\ RowInputs(id) = T
  <2>1. Complete(id)
    BY HonestNeverServesPartial DEF Quiet, PartialRowNeverServed, Hit
  <2> QED
    BY <2>1 DEF Hit, HashAgrees, Return, Complete, TInv, TypeOK
<1>2. /\ todo[p] \in Seq(1..Len(outputs)) /\ todo[p] # <<>> /\ id \in DOMAIN outputs
      /\ chunks[p] \in Seq(Bytes)
  BY <1>1 DEF TInv, TypeOK, Hashing
<1>3. Matches(outputs[id], call[p])
  <2>1. 1 \in 1..Len(todo[p]) /\ todo[p][1] = id
    BY <1>2
  <2> QED
    BY <1>1, <2>1 DEF FInv, Alone, Selected
<1>4. RowFaithful(id) /\ Witnessed(p) /\ Shared(p) /\ Querying(p)
  BY <1>2 DEF FInv, Alone
<1>5. v \in Views /\ T \in SUBSET Files /\ DOMAIN v \subseteq Files
  BY <1>2, RowType
<1>6. PICK S \in SUBSET T :
        /\ Walk(p, S)
        /\ \A i \in 1..Len(chunks[p]) : chunks[p][i] \in seen[p][PathOrder[S][i]]
  BY <1>1, <1>4 DEF Querying
<1>7. PICK cs \in BoundedSeq(Bytes, Cardinality(Files)) :
        /\ Len(cs) = Len(PathOrder[T])
        /\ outputs[id].input_hash = Digest(cs)
        /\ \A i \in 1..Len(cs) : HashedLater(PathOrder[T][i], v[PathOrder[T][i]], cs[i])
  BY <1>4 DEF RowFaithful
<1>8. chunks[p] = cs
  <2>1. Len(chunks[p]) <= Cardinality(Files) /\ Cardinality(Files) \in Nat
    <3>1. Len(files[p]) + Len(chunks[p]) <= Cardinality(Files) /\ Len(files[p]) = 0
      BY <1>1 DEF TInv, Hashing
    <3>2. Cardinality(Files) \in Nat /\ Len(chunks[p]) \in Nat
      BY <1>2, FilesFinite, FS_CardinalityType
    <3> QED
      BY <3>1, <3>2
  <2>2. chunks[p] \in BoundedSeq(Bytes, Cardinality(Files))
    BY <1>2, <2>1, DigestType
  <2> QED
    BY <1>1, <1>7, <2>2 DEF Quiet, CollisionFree
<1>9. S = T
  <2>1. Len(chunks[p]) = Len(PathOrder[S])
    <3> DEFINE n == Len(PathOrder[S])
    <3>1. Len(files[p]) = 0 /\ Len(chunks[p]) \in Nat /\ Len(files[p]) + Len(chunks[p]) = n
      BY <1>1, <1>2, <1>6 DEF Walk
    <3> HIDE DEF n
    <3> QED
      BY <3>1 DEF n
  <2>2. Cardinality(S) = Cardinality(T)
    BY <1>5, <1>6, <1>7, <1>8, <2>1, PathOrderSeq
  <2>3. IsFiniteSet(T)
    BY <1>5, SubsetSize
  <2> QED
    BY <1>6, <2>2, <2>3, FS_Subset
<1>10. DOMAIN v = Wanted(call[p].main, call[p].attr, v)
  BY <1>3, <1>4 DEF RowFaithful, Matches
<1>11. ASSUME NEW f \in DOMAIN v PROVE v[f] \in seen[p][f]
  <2>1. CASE ~ShouldTrack(f)
    BY <1>1, <1>4, <1>5, <2>1 DEF RowFaithful, Witnessed
  <2>2. CASE f \in Volatile
    BY <1>1, <1>2, <1>3, <1>4, <2>2 DEF Shared, Matches
  <2>3. CASE ShouldTrack(f) /\ f \notin Volatile
    <3>1. f \in T
      BY <2>3 DEF Tracked
    <3>2. PICK i \in 1..Len(PathOrder[T]) : PathOrder[T][i] = f
      BY <1>5, <3>1, PathOrderSeq
    <3>3. i \in 1..Len(cs)
      BY <1>7, <3>2
    <3>4. v[f] = cs[i]
      BY <1>7, <2>3, <3>2, <3>3 DEF HashedLater
    <3> QED
      BY <1>6, <1>8, <1>9, <3>2, <3>3, <3>4
  <2> QED
    BY <2>1, <2>2, <2>3
<1> QED
  BY <1>1, <1>5, <1>10, <1>11

\* So is the output of an evaluation that has been stored.
LEMMA StoreAnswers ==
  ASSUME TInv, FInv, NEW p \in Procs, Store(p)
  PROVE  /\ view[p] \in Views /\ result'[p] = Ok(view[p], TRUE)
         /\ DOMAIN view[p] = Wanted(call[p].main, call[p].attr, view[p])
         /\ \A f \in DOMAIN view[p] : view[p][f] \in seen[p][f]
<1>1. pc[p] = "inputs" /\ result'[p] = Ok(view[p], TRUE) /\ view[p] \in Views
  BY DEF Store, Return, TInv, TypeOK
<1>2. Viewed(p)
  BY DEF FInv, Alone
<1> QED
  BY <1>1, <1>2 DEF Viewed

\* A process answers by a hit or by a store; otherwise it fails, or goes on.
LEMMA AnswerOf ==
  ASSUME TInv, NEW p \in Procs, Acts(p)
  PROVE  \/ Hit(p) \/ Store(p)
         \/ result'[p] \in {None, Err}
         \/ UNCHANGED <<result, seen>>
  BY DEF TInv, TypeOK, Acts, Step, Call, CallMissing, NewCall, Query, NextRow, HashFile, SkipRow,
     Differ, DifferWith, Miss, EvalError, Finish, HashError, InsertOutput, InsertInput, ReadFile,
     InsertConflict, DbError, ChildKilled, Crash, Return, locals, hashing

\* Every answer stays fresh, and every new one is.
LEMMA FreshStep ==
  ASSUME Quiet, Legal, FInv, [Next]_vars
  PROVE  FreshResult'
<1> SUFFICES ASSUME NEW q \in Procs, result'[q].status = "ok", NEW f \in DOMAIN result'[q].view
             PROVE  result'[q].view[f] \in seen'[q][f]
  BY DEF FreshResult
<1>ty. TypeOK /\ TInv /\ Honest
  BY DEF Legal, TInv
<1>old. ASSUME result'[q] = result[q], \A g \in Files : seen[q][g] \subseteq seen'[q][g]
        PROVE  result'[q].view[f] \in seen'[q][f]
  <2>1. f \in Files
    BY <1>old, <1>ty DEF TypeOK, Results, Views
  <2> QED
    BY <1>old, <2>1 DEF FInv, FreshResult
<1>1. ASSUME NEW p \in Procs, Acts(p) PROVE result'[q].view[f] \in seen'[q][f]
  <2>1. CASE q # p
    BY <1>1, <1>old, <1>ty, <2>1, OthersRest
  <2>2. CASE Hit(q)
    <3>1. seen' = seen
      BY <2>2 DEF Hit, Return
    <3> DEFINE v == outputs[Head(todo[q])].output
    <3>2. result'[q] = Ok(v, FALSE) /\ \A g \in DOMAIN v : v[g] \in seen[q][g]
      BY <1>ty, <2>2, HitAnswers
    <3> HIDE DEF v
    <3>3. result'[q].view = v
      BY <3>2 DEF Ok
    <3> QED
      BY <3>1, <3>2, <3>3
  <2>3. CASE Store(q)
    <3>1. seen' = seen
      BY <2>3 DEF Store, Return
    <3>2. result'[q] = Ok(view[q], TRUE) /\ \A g \in DOMAIN view[q] : view[q][g] \in seen[q][g]
      BY <1>ty, <2>3, StoreAnswers
    <3>3. result'[q].view = view[q]
      BY <3>2 DEF Ok
    <3> QED
      BY <3>1, <3>2, <3>3
  <2>4. CASE result'[q] \in {None, Err}
    BY <2>4 DEF None, Err
  <2>5. CASE UNCHANGED <<result, seen>>
    BY <1>old, <2>5
  <2> QED
    BY <1>1, <1>ty, <2>1, <2>2, <2>3, <2>4, <2>5, AnswerOf
<1>2. ASSUME NEW g \in Files, NEW c \in Content, Edit(g, c) PROVE result'[q].view[f] \in seen'[q][f]
  <2>1. result' = result /\ \A h \in Files : seen[q][h] \subseteq seen'[q][h]
    BY <1>2, <1>ty DEF Edit, TypeOK
  <2> QED
    BY <1>old, <2>1
<1>3. CASE UNCHANGED vars
  BY <1>3, <1>old DEF vars
<1> QED
  BY <1>1, <1>2, <1>3, Actors

\* Before the first call there is nothing to be stale.
LEMMA FreshStart == Init => FInv
<1> SUFFICES ASSUME Init PROVE FInv
  OBVIOUS
<1>1. DOMAIN outputs = {} /\ \A p \in Procs : pc[p] = "idle" /\ view[p] = NoView /\ result[p] = None
  BY DEF Init
<1>2. \A p \in Procs : call[p].known = {} /\ DOMAIN view[p] = {}
  BY <1>1 DEF Init, NoCall, NoView
<1> QED
  BY <1>1, <1>2
  DEF FInv, Alone, Witnessed, Viewed, Inserting, Querying, Selected, Known, Rejected, Shared,
      FreshResult, None

\* The whole invariant is inductive, with the types and the honesty of rows.
LEMMA FreshInductive == Quiet /\ TInv /\ Honest /\ FInv /\ [Next]_vars => (TInv /\ Honest /\ FInv)'
<1> SUFFICES ASSUME Quiet, TInv, Honest, FInv, [Next]_vars PROVE (TInv /\ Honest /\ FInv)'
  OBVIOUS
<1>1. Legal
  BY TypeStep, HonestStep, DbOnlyGrows, FilesMove DEF Legal
<1>2. \A q \in Procs : Alone(q)'
  BY <1>1, AloneStep DEF FInv
<1>3. \A q \in Procs : Shared(q)'
  BY <1>1, SharedStep DEF FInv
<1>4. \A id \in DOMAIN outputs' : RowFaithful(id)'
  BY <1>1, RowsStep DEF FInv
<1>5. FreshResult'
  BY <1>1, FreshStep
<1> QED
  BY <1>1, <1>2, <1>3, <1>4, <1>5 DEF Legal, FInv

\* Once Quiet holds, the invariant does in every reachable state.
LEMMA FreshInvariant == Quiet /\ Spec => [](TInv /\ Honest /\ FInv)
<1> SUFFICES ASSUME Quiet PROVE Spec => [](TInv /\ Honest /\ FInv)
  OBVIOUS
<1>1. Init => TInv /\ Honest /\ FInv
  BY TypeStart, HonestStart, FreshStart
<1>2. TInv /\ Honest /\ FInv /\ [Next]_vars => (TInv /\ Honest /\ FInv)'
  BY FreshInductive
<1> QED
  BY <1>1, <1>2, PTL DEF Spec

\* A call that succeeds returns the value of contents that its files had during
\* the call: eval_attr_from_file serves neither a stale row nor one that another
\* process is still filling, for any number of processes, paths and edits.
THEOREM AnswersAreFresh == Quiet /\ Spec => []FreshResult
<1>1. TInv /\ Honest /\ FInv => FreshResult
  BY DEF FInv
<1> QED
  BY <1>1, FreshInvariant, PTL

\* The query loop gives up on a row that was complete when the call began only
\* if one of its inputs has had another content during the call.
THEOREM MissesAreJustified == Quiet /\ Spec => []MissIsJustified
<1>1. TInv /\ Honest /\ FInv => MissIsJustified
  <2> SUFFICES ASSUME FInv, NEW p \in Procs, pc[p] = "eval", NEW id \in call[p].known,
                      Matches(outputs[id], call[p])
               PROVE  \E f \in RowInputs(id) : seen[p][f] # {outputs[id].output[f]}
    BY DEF MissIsJustified
  <2>1. Changed(p, id)
    BY DEF FInv, Alone, Rejected
  <2> QED
    BY <2>1 DEF Changed
<1> QED
  BY <1>1, FreshInvariant, PTL

----------------------------------------------------------------------------
(* The cache implements the specification without one.                     *)

\* A call that returns ends, for its caller, with that result.
LEMMA ReturnEnds ==
  ASSUME NEW p \in Procs, NEW r, Return(p, r), pc[p] # "idle", TypeOK
  PROVE  Fresh!End(p, r)
<1>1. /\ pc' = [pc EXCEPT ![p] = "idle"] /\ result' = [result EXCEPT ![p] = r]
      /\ UNCHANGED <<fs, call, seen>> /\ pc \in [Procs -> Steps]
  BY DEF Return, TypeOK
<1>2. [q \in Procs |-> pc'[q] # "idle"] = [[q \in Procs |-> pc[q] # "idle"] EXCEPT ![p] = FALSE]
  BY <1>1
<1> QED
  BY <1>1, <1>2 DEF Fresh!End

\* A step of a process is a step of its call, or invisible to the caller.
LEMMA ActRefines ==
  ASSUME Quiet, TInv, Honest, FInv, NEW p \in Procs, Acts(p)
  PROVE  [Fresh!Next]_(Fresh!vars)
<1>ty. TypeOK
  BY DEF TInv
<1>1. ASSUME NEW m \in Mains, NEW a \in Attrs, NewCall(p, m, a), pc[p] = "idle"
      PROVE  Fresh!Ask(p, m, a)
  <2>1. /\ seen' = [seen EXCEPT ![p] = [f \in Files |-> {fs[f]}]]
        /\ \A q \in Procs : q # p => call'[q] = call[q]
        /\ call'[p].main = m /\ call'[p].attr = a
    BY <1>1, <1>ty DEF NewCall, TypeOK
  <2>2. [q \in Procs |-> [main |-> call'[q].main, attr |-> call'[q].attr]]
          = [[q \in Procs |-> [main |-> call[q].main, attr |-> call[q].attr]]
               EXCEPT ![p] = [main |-> m, attr |-> a]]
    BY <2>1
  <2> QED
    BY <1>1, <2>1, <2>2 DEF Fresh!Ask
<1>2. ASSUME NEW m \in Mains, NEW a \in Attrs, Call(p, m, a) PROVE Fresh!Begin(p, m, a)
  <2>1. /\ pc' = [pc EXCEPT ![p] = "query"] /\ pc \in [Procs -> Steps] /\ fs' = fs
        /\ result' = [result EXCEPT ![p] = None]
    BY <1>2, <1>ty DEF Call, TypeOK
  <2>2. [q \in Procs |-> pc'[q] # "idle"] = [[q \in Procs |-> pc[q] # "idle"] EXCEPT ![p] = TRUE]
    BY <2>1
  <2>3. Fresh!Ask(p, m, a)
    BY <1>1, <1>2 DEF Call
  <2> QED
    BY <2>1, <2>2, <2>3 DEF Fresh!Begin, None, Fresh!None, NoView, Fresh!NoView
<1>3. ASSUME NEW m \in Mains, NEW a \in Attrs, CallMissing(p, m, a) PROVE Fresh!Reject(p, m, a)
  <2>1. fs' = fs /\ pc' = pc /\ fs[m] = Absent /\ result' = [result EXCEPT ![p] = Err]
    BY <1>3 DEF CallMissing
  <2>2. Fresh!Ask(p, m, a)
    BY <1>1, <1>3 DEF CallMissing
  <2> QED
    BY <2>1, <2>2 DEF Fresh!Reject, Err, Fresh!Err, NoView, Fresh!NoView
<1>4. ASSUME Return(p, None), pc[p] # "idle" PROVE Fresh!Crash(p)
  BY <1>4, <1>ty, ReturnEnds DEF Fresh!Crash, None, Fresh!None, NoView, Fresh!NoView
<1>5. ASSUME Return(p, Err), pc[p] # "idle" PROVE Fresh!Fail(p)
  BY <1>5, <1>ty, ReturnEnds DEF Fresh!Fail, Err, Fresh!Err, NoView, Fresh!NoView
<1>6. ASSUME NEW v \in Views, NEW nl \in BOOLEAN, Return(p, Ok(v, nl)), pc[p] # "idle",
             DOMAIN v = Wanted(call[p].main, call[p].attr, v),
             \A f \in DOMAIN v : v[f] \in seen[p][f]
      PROVE  Fresh!Succeed(p)
  <2>1. v \in Fresh!FreshViews(call[p].main, call[p].attr, seen[p])
    BY <1>6 DEF Fresh!FreshViews, Fresh!Closed, Wanted, Views
  <2>2. Fresh!End(p, [status |-> "ok", view |-> v, newline |-> nl])
    BY <1>6, <1>ty, ReturnEnds DEF Ok
  <2> QED
    BY <1>6, <2>1, <2>2 DEF Fresh!Succeed
<1>7. CASE Hit(p)
  <2> DEFINE v == outputs[Head(todo[p])].output
  <2>1. Return(p, Ok(v, FALSE)) /\ pc[p] # "idle"
    BY <1>7 DEF Hit
  <2>2. /\ v \in Views /\ DOMAIN v = Wanted(call[p].main, call[p].attr, v)
        /\ \A f \in DOMAIN v : v[f] \in seen[p][f]
    BY <1>7, HitAnswers
  <2> HIDE DEF v
  <2>3. Fresh!Succeed(p)
    BY <1>6, <2>1, <2>2
  <2> QED
    BY <2>3 DEF Fresh!Next
<1>8. CASE Store(p)
  <2>1. Return(p, Ok(view[p], TRUE)) /\ pc[p] # "idle"
    BY <1>8 DEF Store
  <2>2. Fresh!Succeed(p)
    BY <1>6, <1>8, <2>1, StoreAnswers
  <2> QED
    BY <2>2 DEF Fresh!Next
<1>9. CASE EvalError(p) \/ HashError(p) \/ InsertConflict(p) \/ DbError(p) \/ ChildKilled(p)
  <2>1. Return(p, Err) /\ pc[p] # "idle"
    BY <1>9 DEF EvalError, HashError, InsertConflict, DbError, AtDatabase, ChildKilled
  <2> QED
    BY <1>5, <2>1 DEF Fresh!Next
<1>10. CASE Crash(p)
  <2>1. Fresh!Crash(p)
    BY <1>4, <1>10 DEF Crash
  <2> QED
    BY <2>1 DEF Fresh!Next
<1>11. CASE \/ Query(p) \/ NextRow(p) \/ HashFile(p) \/ SkipRow(p) \/ Differ(p) \/ Miss(p)
            \/ (\E f \in Files : ReadFile(p, f)) \/ Finish(p) \/ InsertOutput(p)
            \/ (\E f \in Files : InsertInput(p, f))
  <2>1. /\ UNCHANGED <<fs, call, result, seen>>
        /\ \A q \in Procs : (pc'[q] = "idle") = (pc[q] = "idle")
    BY <1>11, <1>ty
    DEF Query, NextRow, HashFile, SkipRow, Differ, DifferWith, Miss, ReadFile, Finish, InsertOutput,
        InsertInput, TypeOK
  <2>2. [q \in Procs |-> pc'[q] # "idle"] = [q \in Procs |-> pc[q] # "idle"]
    BY <2>1
  <2> QED
    BY <2>1, <2>2 DEF Fresh!vars
<1>12. CASE \E m \in Mains, a \in Attrs : Call(p, m, a) \/ CallMissing(p, m, a)
  BY <1>2, <1>3, <1>12 DEF Fresh!Next
<1> QED
  BY <1>7, <1>8, <1>9, <1>10, <1>11, <1>12 DEF Acts, Step

\* Every step of the cache is a step of the specification, or changes nothing.
LEMMA StepRefines == Quiet /\ TInv /\ Honest /\ FInv /\ [Next]_vars => [Fresh!Next]_(Fresh!vars)
<1> SUFFICES ASSUME Quiet, TInv, Honest, FInv, [Next]_vars PROVE [Fresh!Next]_(Fresh!vars)
  OBVIOUS
<1>1. ASSUME NEW p \in Procs, Acts(p) PROVE [Fresh!Next]_(Fresh!vars)
  BY <1>1, ActRefines
<1>2. ASSUME NEW f \in Files, NEW c \in Content, Edit(f, c) PROVE Fresh!Edit(f, c)
  <2>1. /\ fs' = [fs EXCEPT ![f] = c] /\ UNCHANGED <<pc, call, result>>
        /\ seen' = [p \in Procs |->
                      IF pc[p] = "idle" THEN seen[p] ELSE [seen[p] EXCEPT ![f] = @ \cup {c}]]
    BY <1>2 DEF Edit
  <2>2. seen' = [p \in Procs |->
                   IF [q \in Procs |-> pc[q] # "idle"][p]
                   THEN [seen[p] EXCEPT ![f] = @ \cup {c}] ELSE seen[p]]
    BY <2>1
  <2> QED
    BY <2>1, <2>2 DEF Fresh!Edit
<1>3. CASE UNCHANGED vars
  BY <1>3 DEF vars, Fresh!vars
<1> QED
  BY <1>1, <1>2, <1>3, Actors DEF Fresh!Next, Content

\* The cache is invisible but for its speed: every call that succeeds returns a
\* run of the evaluator for its own key over contents of that very call.
THEOREM CacheIsTransparent == Quiet /\ Spec => ImplementsFreshEval
<1> SUFFICES ASSUME Quiet PROVE Spec => ImplementsFreshEval
  OBVIOUS
<1>1. Init => Fresh!Init
  <2> SUFFICES ASSUME Init PROVE Fresh!Init
    OBVIOUS
  <2>1. /\ fs \in [Files -> Bytes \cup {Absent}]
        /\ result = [p \in Procs |-> None]
        /\ seen = [p \in Procs |-> [f \in Files |-> {}]]
    BY DEF Init, Content
  <2>2. None = Fresh!None
    BY DEF None, Fresh!None, NoView, Fresh!NoView
  <2>3. [p \in Procs |-> pc[p] # "idle"] = [p \in Procs |-> FALSE]
    BY DEF Init
  <2>4. [p \in Procs |-> [main |-> call[p].main, attr |-> call[p].attr]]
          = [p \in Procs |-> Fresh!Nothing]
    BY DEF Init, NoCall, Fresh!Nothing
  <2> QED
    BY <2>1, <2>2, <2>3, <2>4 DEF Fresh!Init
<1>2. TInv /\ Honest /\ FInv /\ [Next]_vars => [Fresh!Next]_(Fresh!vars)
  BY StepRefines
<1>3. Spec => [](TInv /\ Honest /\ FInv)
  BY FreshInvariant
<1> QED
  BY <1>1, <1>2, <1>3, PTL DEF Spec, ImplementsFreshEval, Fresh!Spec

----------------------------------------------------------------------------
(* A conflict over a row that should have been served has a reason.        *)

\* v holds nothing but what reading from the main file leads to: every set of
\* paths that has the main file and all that its members import, has them all.
Reached(m, a, v) ==
  \A S \in SUBSET Files :
    m \in S /\ (\A g \in S \cap DOMAIN v : Imports[a][v[g]] \subseteq S) => DOMAIN v \subseteq S

Grounded(p) ==
  /\ pc[p] \notin {"eval", "inshash", "inputs"} => DOMAIN view[p] = {}
  /\ Reached(call[p].main, call[p].attr, view[p])

GInv ==
  /\ \A p \in Procs : Grounded(p)
  /\ \A id \in DOMAIN outputs : Reached(outputs[id].main, outputs[id].attr, outputs[id].output)
  /\ \A p \in Procs, f \in Files : IsFiniteSet(seen[p][f])

\* The row that an insertion appends.
LEMMA AppendedRow ==
  ASSUME TypeOK, NEW p \in Procs, InsertOutput(p), NEW id \in DOMAIN outputs', id \notin DOMAIN outputs
  PROVE  outputs'[id] = [main |-> call[p].main, attr |-> call[p].attr, hash |-> call[p].hash,
                         output |-> view[p], input_hash |-> Digest(chunks[p])]
<1> DEFINE r == [main |-> call[p].main, attr |-> call[p].attr, hash |-> call[p].hash,
                 output |-> view[p], input_hash |-> Digest(chunks[p])]
<1>1. outputs' = Append(outputs, r) /\ outputs \in Seq(Rows \cup {r})
  BY DEF TypeOK, InsertOutput
<1> HIDE DEF r
<1>2. /\ DOMAIN outputs = 1..Len(outputs) /\ DOMAIN outputs' = 1..(Len(outputs) + 1)
      /\ outputs'[Len(outputs) + 1] = r /\ Len(outputs) \in Nat
  BY <1>1, AppendProperties
<1>3. id = Len(outputs) + 1
  BY <1>2
<1> QED
  BY <1>2, <1>3 DEF r

\* What the evaluator reads next is reached.
LEMMA ReadReaches ==
  ASSUME TypeOK, NEW p \in Procs, NEW f \in Files, ReadFile(p, f), Grounded(p)
  PROVE  Grounded(p)'
<1>1. /\ pc'[p] = pc[p] /\ pc[p] = "eval" /\ call' = call
      /\ view'[p] = [g \in DOMAIN view[p] \cup {f} |-> IF g = f THEN fs[f] ELSE view[p][g]]
      /\ f \in Wanted(call[p].main, call[p].attr, view[p]) /\ f \notin DOMAIN view[p]
  BY DEF ReadFile, Pending, TypeOK
<1>2. ASSUME NEW S \in SUBSET Files, call[p].main \in S,
             \A g \in S \cap DOMAIN view'[p] : Imports[call[p].attr][view'[p][g]] \subseteq S
      PROVE  DOMAIN view'[p] \subseteq S
  <2>1. \A g \in S \cap DOMAIN view[p] : Imports[call[p].attr][view[p][g]] \subseteq S
    BY <1>1, <1>2
  <2>2. DOMAIN view[p] \subseteq S
    BY <1>2, <2>1 DEF Grounded, Reached
  <2>3. f \in S
    BY <1>1, <1>2, <2>1, <2>2 DEF Wanted
  <2> QED
    BY <1>1, <2>2, <2>3
<1> QED
  BY <1>1, <1>2 DEF Grounded, Reached

\* Without a view there is nothing to reach.
LEMMA NothingToReach ==
  ASSUME NEW p \in Procs, DOMAIN view'[p] = {}
  PROVE  Grounded(p)'
  BY DEF Grounded, Reached

\* Views and rows stay grounded, and no call sees infinitely many contents.
LEMMA GroundedStep == TInv /\ GInv /\ [Next]_vars => GInv'
<1> SUFFICES ASSUME TInv, GInv, [Next]_vars PROVE GInv'
  OBVIOUS
<1>ty. TypeOK /\ DbGrows
  BY DbOnlyGrows DEF TInv
<1>same. ASSUME NEW q \in Procs, pc'[q] = pc[q], call'[q] = call[q], view'[q] = view[q]
         PROVE  Grounded(q)'
  BY <1>same DEF GInv, Grounded, Reached
<1>1. ASSUME NEW p \in Procs, Acts(p) PROVE Grounded(p)'
  <2>1. \/ DOMAIN view'[p] = {}
        \/ \E f \in Files : ReadFile(p, f)
        \/ /\ call'[p] = call[p] /\ view'[p] = view[p]
           /\ pc[p] \in {"eval", "inshash", "inputs"} => pc'[p] \in {"eval", "inshash", "inputs"}
    <3>1. CASE \E m \in Mains, a \in Attrs : Call(p, m, a) \/ CallMissing(p, m, a)
      BY <3>1 DEF Call, CallMissing, locals, GInv, Grounded
    <3>2. ASSUME NEW r, Return(p, r) PROVE DOMAIN view'[p] = {}
      BY <3>2, <1>ty DEF Return, TypeOK, NoView
    <3>3. CASE \/ Query(p) \/ NextRow(p) \/ HashFile(p) \/ SkipRow(p) \/ Differ(p) \/ Miss(p)
               \/ Finish(p) \/ InsertOutput(p) \/ (\E f \in Files : InsertInput(p, f))
      BY <3>3, <1>ty
      DEF Query, NextRow, HashFile, SkipRow, Differ, DifferWith, Miss, Finish, InsertOutput,
          InsertInput, locals, TypeOK
    <3> QED
      BY <1>1, <3>1, <3>2, <3>3
      DEF Acts, Step, Hit, EvalError, HashError, InsertConflict, Store, DbError, ChildKilled, Crash
  <2> QED
    BY <2>1, <1>ty, NothingToReach, ReadReaches DEF GInv, Grounded, Reached
<1>2. \A q \in Procs : Grounded(q)'
  <2> TAKE q \in Procs
  <2>1. ASSUME NEW p \in Procs, Acts(p) PROVE Grounded(q)'
    <3>1. CASE q = p
      BY <1>1, <2>1, <3>1
    <3>2. CASE q # p
      BY <1>same, <2>1, <3>2, OthersRest DEF Rests
    <3> QED
      BY <3>1, <3>2
  <2>2. ASSUME NEW f \in Files, NEW c \in Content, Edit(f, c) PROVE Grounded(q)'
    BY <1>same, <2>2 DEF Edit, locals
  <2>3. CASE UNCHANGED vars
    BY <1>same, <2>3 DEF vars, locals
  <2> QED
    BY <2>1, <2>2, <2>3, Actors
<1>3. ASSUME NEW id \in DOMAIN outputs'
      PROVE  Reached(outputs[id].main, outputs[id].attr, outputs[id].output)'
  <2>1. CASE id \in DOMAIN outputs
    <3>1. outputs'[id] = outputs[id]
      BY <2>1, <1>ty DEF DbGrows
    <3> QED
      BY <2>1, <3>1 DEF GInv, Reached
  <2>2. CASE id \notin DOMAIN outputs
    <3>1. PICK p \in Procs : InsertOutput(p)
      BY <1>3, <2>2 DEF Next, Step, Rest, vars, db, locals, hashing, Call, CallMissing, Query,
         NextRow, HashFile, SkipRow, Hit, Differ, DifferWith, Miss, ReadFile, EvalError, Finish,
         HashError, InsertConflict, InsertInput, Store, DbError, ChildKilled, Crash, Edit
    <3>2. /\ outputs'[id].main = call[p].main /\ outputs'[id].attr = call[p].attr
          /\ outputs'[id].output = view[p]
      BY <1>3, <2>2, <3>1, <1>ty, AppendedRow
    <3>3. Reached(call[p].main, call[p].attr, view[p])
      BY DEF GInv, Grounded
    <3> QED
      BY <3>2, <3>3 DEF Reached
  <2> QED
    BY <2>1, <2>2
<1>4. ASSUME NEW q \in Procs, NEW f \in Files PROVE IsFiniteSet(seen'[q][f])
  <2>1. \/ seen' = seen
        \/ \E p \in Procs : seen' = [seen EXCEPT ![p] = [g \in Files |-> {fs[g]}]]
        \/ \E g \in Files, c \in Content :
             seen' = [p \in Procs |->
                        IF pc[p] = "idle" THEN seen[p] ELSE [seen[p] EXCEPT ![g] = @ \cup {c}]]
    BY DEF Next, Step, Rest, vars, locals, hashing, Call, CallMissing, NewCall, Query, NextRow,
       HashFile, SkipRow, Hit, Differ, DifferWith, Miss, ReadFile, EvalError, Finish, HashError,
       InsertOutput, InsertConflict, InsertInput, Store, DbError, ChildKilled, Crash, Edit, Return
  <2>2. IsFiniteSet(seen[q][f]) /\ seen \in [Procs -> [Files -> SUBSET Content]]
    BY <1>ty DEF GInv, TypeOK
  <2>3. ASSUME NEW p \in Procs, seen' = [seen EXCEPT ![p] = [g \in Files |-> {fs[g]}]]
        PROVE  IsFiniteSet(seen'[q][f])
    <3>1. seen'[q][f] = IF q = p THEN {fs[f]} ELSE seen[q][f]
      BY <2>2, <2>3
    <3> QED
      BY <2>2, <3>1, FS_Singleton
  <2>4. ASSUME NEW g \in Files, NEW c \in Content,
               seen' = [p \in Procs |->
                          IF pc[p] = "idle" THEN seen[p] ELSE [seen[p] EXCEPT ![g] = @ \cup {c}]]
        PROVE  IsFiniteSet(seen'[q][f])
    <3>1. seen'[q][f] = seen[q][f] \/ seen'[q][f] = seen[q][f] \cup {c}
      BY <2>2, <2>4
    <3>2. IsFiniteSet(seen[q][f] \cup {c})
      BY <2>2, FS_AddElement
    <3> QED
      BY <2>2, <3>1, <3>2
  <2> QED
    BY <2>1, <2>2, <2>3, <2>4
<1> QED
  BY <1>2, <1>3, <1>4 DEF GInv

\* In every reachable state.
LEMMA GroundedInvariant == Spec => [](TInv /\ GInv)
<1>1. Init => TInv /\ GInv
  <2> SUFFICES ASSUME Init PROVE GInv
    BY TypeStart
  <2>1. DOMAIN outputs = {} /\ \A p \in Procs : DOMAIN view[p] = {} /\ \A f \in Files : seen[p][f] = {}
    BY DEF Init, NoView
  <2> QED
    BY <2>1, FS_EmptySet DEF GInv, Grounded, Reached
<1>2. TInv /\ GInv /\ [Next]_vars => (TInv /\ GInv)'
  BY TypeStep, GroundedStep
<1> QED
  BY <1>1, <1>2, PTL DEF Spec

\* Two contents are more than one.
LEMMA TwoSeen ==
  ASSUME NEW S, IsFiniteSet(S), NEW b \in S, NEW c \in S, b # c
  PROVE  Cardinality(S) > 1
<1>1. IsFiniteSet({b}) /\ Cardinality({b}) = 1
  BY FS_Singleton
<1>2. IsFiniteSet({b} \cup {c}) /\ Cardinality({b} \cup {c}) = 2
  BY <1>1, FS_AddElement
<1>3. Cardinality({b} \cup {c}) <= Cardinality(S)
  BY FS_Subset
<1> QED
  <2>1. Cardinality(S) \in Nat
    BY FS_CardinalityType
  <2> QED
    BY <1>2, <1>3, <2>1

\* Two grounded runs of the evaluator that agree on what is not tracked, and have
\* read the same contents otherwise, have read the same paths.
LEMMA SameContentsSamePaths ==
  ASSUME NEW m, NEW a, NEW v \in Views, NEW w \in Views,
         DOMAIN v = Wanted(m, a, v), DOMAIN w = Wanted(m, a, w), Reached(m, a, v),
         \A f \in DOMAIN v \cap DOMAIN w : ~ShouldTrack(f) => v[f] = w[f],
         \A f \in Tracked(v) : \E g \in DOMAIN w : w[g] = v[f]
  PROVE  DOMAIN v \subseteq DOMAIN w
<1>1. DOMAIN w \in SUBSET Files /\ m \in DOMAIN w
  BY DEF Views, Wanted
<1>2. ASSUME NEW g \in DOMAIN w \cap DOMAIN v PROVE Imports[a][v[g]] \subseteq DOMAIN w
  <2>1. \E h \in DOMAIN w : w[h] = v[g]
    BY DEF Tracked
  <2> QED
    BY <2>1 DEF Wanted
<1> QED
  BY <1>1, <1>2 DEF Reached

\* The evaluation that a row with its key and its digest keeps out has read what
\* the row was computed from, or its main file has changed since it was read.
LEMMA ConflictReason ==
  ASSUME Quiet, TInv, FInv, GInv, NEW p \in Procs, pc[p] = "inshash", files[p] = <<>>,
         NEW id \in call[p].known, Matches(outputs[id], call[p]),
         outputs[id].input_hash = Digest(chunks[p])
  PROVE  \E f \in RowInputs(id) : Cardinality(seen[p][f]) > 1
<1> DEFINE v == view[p]
           w == outputs[id].output
           T == Tracked(v)
           U == Tracked(w)
           m == call[p].main
           a == call[p].attr
<1>ty. /\ v \in Views /\ T \in SUBSET Files /\ DOMAIN v \subseteq Files /\ chunks[p] \in Seq(Bytes)
       /\ m \in Files
  BY PathSets, FilesFinite DEF TInv, TypeOK, Hashing
<1>1. id \in DOMAIN outputs
  <2>1. call[p] \in Calls \cup {NoCall} /\ outputs \in Seq(Rows)
    BY DEF TInv, TypeOK
  <2> QED
    BY <2>1 DEF Calls, NoCall
<1>2. w \in Views /\ U \in SUBSET Files /\ DOMAIN w \subseteq Files
  BY <1>1, RowType
<1>3. /\ RowInputs(id) = U /\ Digest(Contents(id)) = Digest(chunks[p])
      /\ Viewed(p) /\ Inserting(p) /\ RowFaithful(id) /\ Rejected(p)
  BY <1>1 DEF FInv, Alone, Known, Complete
<1>4. /\ outputs[id].main = m /\ outputs[id].attr = a
      /\ DOMAIN v = Wanted(m, a, v) /\ DOMAIN w = Wanted(m, a, w)
  BY <1>3 DEF Viewed, RowFaithful, Matches
<1>5. /\ Len(chunks[p]) = Len(PathOrder[T])
      /\ \A i \in 1..Len(chunks[p]) :
           /\ HashedLater(PathOrder[T][i], v[PathOrder[T][i]], chunks[p][i])
           /\ chunks[p][i] \in seen[p][PathOrder[T][i]]
  <2>1. /\ Walk(p, T)
        /\ \A i \in 1..Len(chunks[p]) :
             /\ HashedLater(PathOrder[T][i], v[PathOrder[T][i]], chunks[p][i])
             /\ chunks[p][i] \in seen[p][PathOrder[T][i]]
    BY <1>3 DEF Inserting
  <2> DEFINE n == Len(PathOrder[T])
  <2>2. Len(files[p]) = 0 /\ Len(chunks[p]) \in Nat /\ Len(files[p]) + Len(chunks[p]) = n
    BY <1>ty, <2>1 DEF Walk
  <2> HIDE DEF n
  <2>3. Len(chunks[p]) = n
    BY <2>2
  <2> QED
    BY <2>1, <2>3 DEF n
<1>6. /\ Len(chunks[p]) = Len(PathOrder[U])
      /\ \A i \in 1..Len(chunks[p]) : chunks[p][i] = w[PathOrder[U][i]]
  <2> DEFINE cs == [i \in 1..Len(PathOrder[U]) |-> w[PathOrder[U][i]]]
             k == Cardinality(Files)
  <2>1. Len(PathOrder[U]) \in Nat /\ Len(PathOrder[U]) <= k /\ k \in Nat
    BY <1>2, PathOrderSeq, SubsetSize
  <2>2. \A i \in 1..Len(PathOrder[U]) : w[PathOrder[U][i]] \in Bytes
    <3> TAKE i \in 1..Len(PathOrder[U])
    <3>1. PathOrder[U][i] \in U
      BY <1>2, OrderMember
    <3>2. PathOrder[U][i] \in DOMAIN w
      BY <3>1 DEF Tracked
    <3> QED
      BY <1>2, <3>2 DEF Views
  <2>3. cs \in Seq(Bytes) /\ Len(cs) = Len(PathOrder[U])
    BY <2>1, <2>2
  <2>4. cs \in BoundedSeq(Bytes, k)
    BY <2>1, <2>3, DigestType
  <2>5. Len(chunks[p]) <= k
    <3>1. Len(files[p]) + Len(chunks[p]) <= k /\ Len(files[p]) = 0
      BY DEF TInv, Hashing
    <3>2. Len(chunks[p]) \in Nat
      BY <1>ty
    <3> HIDE DEF k
    <3> QED
      BY <2>1, <3>1, <3>2
  <2>6. chunks[p] \in BoundedSeq(Bytes, k)
    BY <1>ty, <2>1, <2>5, DigestType
  <2>7. chunks[p] = cs
    BY <1>3, <2>4, <2>6 DEF Quiet, CollisionFree, Contents
  <2> QED
    BY <2>3, <2>7
<1>7. CASE \E i \in 1..Len(chunks[p]) : chunks[p][i] # v[PathOrder[T][i]]
  <2>1. PICK i \in 1..Len(chunks[p]) : chunks[p][i] # v[PathOrder[T][i]]
    BY <1>7
  <2> DEFINE f == PathOrder[T][i]
  <2>2. f \in T /\ f \in DOMAIN v /\ ShouldTrack(f)
    BY <1>ty, <1>5, <2>1, OrderMember DEF Tracked
  <2>3. f \in Volatile /\ chunks[p][i] \in seen[p][f] /\ v[f] \in seen[p][f]
    BY <1>3, <1>5, <2>1, <2>2 DEF HashedLater, Viewed
  <2>4. f = m /\ f \in RowInputs(id)
    <3>1. m \in Mains
      BY DEF TInv, Hashing
    <3>2. f = m
      BY <2>3, <3>1 DEF Quiet
    <3>3. m \in DOMAIN w
      BY <1>4 DEF Wanted
    <3> QED
      BY <1>3, <2>2, <3>2, <3>3 DEF Tracked
  <2>5. IsFiniteSet(seen[p][f])
    BY <1>ty, <2>4 DEF GInv
  <2>6. Cardinality(seen[p][f]) > 1
    BY <2>1, <2>3, <2>5, TwoSeen
  <2> QED
    BY <2>4, <2>6
<1>8. CASE \A i \in 1..Len(chunks[p]) : chunks[p][i] = v[PathOrder[T][i]]
  <2>1. \A f \in DOMAIN v \cap DOMAIN w : ~ShouldTrack(f) => v[f] = w[f]
    BY <1>3 DEF Viewed, RowFaithful, Steady
  <2>2. ASSUME NEW f \in T PROVE \E g \in DOMAIN w : w[g] = v[f]
    <3>1. PICK i \in 1..Len(PathOrder[T]) : PathOrder[T][i] = f
      BY <1>ty, PathOrderSeq
    <3>2. PathOrder[U][i] \in DOMAIN w
      BY <1>2, <1>5, <1>6, <3>1, OrderMember DEF Tracked
    <3> QED
      BY <1>5, <1>6, <1>8, <3>1, <3>2
  <2>3. ASSUME NEW f \in U PROVE \E g \in DOMAIN v : v[g] = w[f]
    <3>1. PICK i \in 1..Len(PathOrder[U]) : PathOrder[U][i] = f
      BY <1>2, PathOrderSeq
    <3>2. PathOrder[T][i] \in DOMAIN v
      BY <1>ty, <1>5, <1>6, <3>1, OrderMember DEF Tracked
    <3> QED
      BY <1>5, <1>6, <1>8, <3>1, <3>2
  <2>4. Reached(m, a, v) /\ Reached(m, a, w)
    BY <1>1, <1>4 DEF GInv, Grounded
  <2>5. DOMAIN v \subseteq DOMAIN w
    BY <1>ty, <1>2, <1>4, <2>1, <2>2, <2>4, SameContentsSamePaths
  <2>6. DOMAIN w \subseteq DOMAIN v
    BY <1>ty, <1>2, <1>4, <2>1, <2>3, <2>4, SameContentsSamePaths
  <2>7. T = U
    BY <2>5, <2>6 DEF Tracked
  <2>8. PICK f \in U : \E c \in seen[p][f] : c # w[f]
    BY <1>3 DEF Rejected, Changed
  <2>9. PICK c \in seen[p][f] : c # w[f]
    BY <2>8
  <2>10. PICK i \in 1..Len(PathOrder[U]) : PathOrder[U][i] = f
    BY <1>2, PathOrderSeq
  <2>11. w[f] \in seen[p][f]
    BY <1>5, <1>6, <2>7, <2>10
  <2>12. IsFiniteSet(seen[p][f])
    BY <1>2 DEF GInv
  <2>13. Cardinality(seen[p][f]) > 1
    BY <2>9, <2>11, <2>12, TwoSeen
  <2> QED
    BY <1>3, <2>13
<1> QED
  BY <1>7, <1>8

\* The UNIQUE constraint turns an evaluation down over a row that the query should
\* have served only if an input of that row changed during the call.
THEOREM ConflictsAreJustified == Quiet /\ Spec => []ConflictIsJustified
<1> SUFFICES ASSUME Quiet PROVE Spec => []ConflictIsJustified
  OBVIOUS
<1>1. TInv /\ FInv /\ GInv => ConflictIsJustified
  BY ConflictReason DEF ConflictIsJustified
<1> QED
  BY <1>1, FreshInvariant, GroundedInvariant, PTL

----------------------------------------------------------------------------
(* The evaluations of the cache are traced runs.                           *)

\* One process's run becomes something else, and the others stay.
LEMMA RunBecomes ==
  ASSUME TInv, NEW p \in Procs, Acts(p), NEW next, NEW paths, NEW recorded,
         RunPhase(p)' = next, RunRead(p)' = paths, RunInputs(p)' = recorded
  PROVE  Runs!Become(p, next, paths, recorded)
<1>1. \A q \in Procs : q # p =>
        RunPhase(q)' = RunPhase(q) /\ RunRead(q)' = RunRead(q) /\ RunInputs(q)' = RunInputs(q)
  BY OthersRest DEF RunPhase, RunRead, RunInputs, Answered, Rests
<1>2. [q \in Procs |-> RunPhase(q)'] = [[q \in Procs |-> RunPhase(q)] EXCEPT ![p] = next]
  BY <1>1
<1>3. [q \in Procs |-> RunRead(q)'] = [[q \in Procs |-> RunRead(q)] EXCEPT ![p] = paths]
  BY <1>1
<1>4. [q \in Procs |-> RunInputs(q)'] = [[q \in Procs |-> RunInputs(q)] EXCEPT ![p] = recorded]
  BY <1>1
<1> QED
  BY <1>2, <1>3, <1>4 DEF Runs!Become

\* A step of a process forks, continues, answers or ends its run.
LEMMA ActRuns ==
  ASSUME TInv, GInv, NEW p \in Procs, Acts(p)
  PROVE  Runs!Next
<1>ty. TypeOK
  BY DEF TInv
<1>1. CASE RunPhase(p)' = "off"
  <2>1. RunRead(p)' = {} /\ RunInputs(p)' = {}
    BY <1>1 DEF RunPhase, RunRead, RunInputs, Answered
  <2>2. Runs!Stop(p)
    BY <1>1, <2>1, RunBecomes DEF Runs!Stop
  <2> QED
    BY <2>2 DEF Runs!Next
<1>2. CASE Miss(p)
  <2>1. pc[p] = "scan" /\ pc'[p] = "eval" /\ view'[p] = view[p]
    BY <1>2, <1>ty DEF Miss, TypeOK, locals
  <2>2. DOMAIN view[p] = {}
    BY <2>1 DEF GInv, Grounded
  <2>3. /\ RunPhase(p)' = "running" /\ RunRead(p)' = {} /\ RunInputs(p)' = {}
        /\ RunPhase(p) # "running"
    BY <2>1, <2>2 DEF RunPhase, RunRead, RunInputs, Answered
  <2>4. Runs!Fork(p)
    BY <2>3, RunBecomes DEF Runs!Fork
  <2> QED
    BY <2>4 DEF Runs!Next
<1>3. ASSUME NEW f \in Files, ReadFile(p, f) PROVE Runs!Next
  <2>1. pc[p] = "eval" /\ pc'[p] = "eval" /\ DOMAIN view'[p] = DOMAIN view[p] \cup {f}
    BY <1>3, <1>ty DEF ReadFile, TypeOK
  <2>2. /\ RunPhase(p)' = "running" /\ RunRead(p)' = RunRead(p) \cup {f} /\ RunInputs(p)' = {}
        /\ RunPhase(p) = "running"
    BY <2>1 DEF RunPhase, RunRead, RunInputs, Answered
  <2>3. Runs!Read(p, f)
    BY <2>2, RunBecomes DEF Runs!Read
  <2> QED
    BY <2>3 DEF Runs!Next
<1>4. CASE Finish(p)
  <2> DEFINE S == Tracked(view[p])
  <2>1. S \in SUBSET Files
    BY <1>ty, PathSets DEF TypeOK
  <2>2. files' = [files EXCEPT ![p] = PathOrder[S]] /\ chunks' = [chunks EXCEPT ![p] = <<>>]
    BY <1>4, <2>1, SortedOrder DEF Finish, StartHashing
  <2>3. /\ pc[p] = "eval" /\ pc'[p] = "inshash" /\ chunks'[p] = <<>> /\ files'[p] = PathOrder[S]
        /\ view'[p] = view[p]
    BY <1>4, <1>ty, <2>2 DEF Finish, TypeOK
  <2>4. ToSet(files'[p]) = S
    BY <2>1, <2>3, PathOrderType
  <2>5. /\ RunPhase(p)' = "answered" /\ RunRead(p)' = DOMAIN view[p] /\ RunInputs(p)' = S
        /\ RunPhase(p) = "running" /\ RunRead(p) = DOMAIN view[p]
    BY <2>3, <2>4 DEF RunPhase, RunRead, RunInputs, Answered
  <2>6. S = RunRead(p) \cap {f \in Files : ShouldTrack(f)}
    BY <2>1, <2>5 DEF Tracked
  <2>7. Runs!Become(p, "answered", RunRead(p), S)
    BY <2>5, RunBecomes
  <2> HIDE DEF S
  <2>8. Runs!Answer(p)
    BY <2>5, <2>6, <2>7 DEF Runs!Answer
  <2> QED
    BY <2>8 DEF Runs!Next
<1>5. CASE RunPhase(p)' # "off"
  <2>1. pc'[p] \in {"eval", "inshash"} /\ (pc'[p] = "inshash" => chunks'[p] = <<>>)
    BY <1>5 DEF RunPhase, Answered
  <2>2. Miss(p) \/ (\E f \in Files : ReadFile(p, f)) \/ Finish(p)
    <3>1. ~HashFile(p)
      <4> SUFFICES ASSUME HashFile(p) PROVE FALSE
        OBVIOUS
      <4>1. pc[p] = "inshash" /\ chunks'[p] = <<>>
        BY <2>1 DEF HashFile
      <4>2. /\ chunks'[p] = Append(chunks[p], fs[Head(files[p])])
            /\ chunks[p] \in Seq(Bytes \cup {fs[Head(files[p])]})
        BY <1>ty DEF HashFile, TypeOK
      <4> QED
        BY <4>1, <4>2, AppendProperties
    <3> QED
      BY <2>1, <3>1, <1>ty
      DEF Acts, Step, Call, CallMissing, Query, NextRow, SkipRow, Hit, Differ, DifferWith,
          EvalError, HashError, InsertOutput, InsertConflict, InsertInput, Store, DbError,
          ChildKilled, Crash, Return, TypeOK
  <2> QED
    BY <1>2, <1>3, <1>4, <2>2
<1> QED
  BY <1>1, <1>5

\* The evaluations that calls fork are traced runs, as module TracedRun has them:
\* what is hashed for an insertion are the tracked paths that were read, no fewer
\* and no more.
THEOREM EvaluationsAreTracedRuns == Spec => ImplementsTracedRuns
<1>1. Init => Runs!Init
  BY DEF Init, Runs!Init, RunPhase, RunRead, RunInputs, Answered
<1>2. TInv /\ GInv /\ [Next]_vars => [Runs!Next]_(Runs!vars)
  <2> SUFFICES ASSUME TInv, GInv, [Next]_vars PROVE [Runs!Next]_(Runs!vars)
    OBVIOUS
  <2>1. ASSUME NEW p \in Procs, Acts(p) PROVE Runs!Next
    BY <2>1, ActRuns
  <2>2. ASSUME UNCHANGED <<pc, chunks, view, files>> PROVE UNCHANGED Runs!vars
    BY <2>2 DEF Runs!vars, RunPhase, RunRead, RunInputs, Answered
  <2>3. CASE (\E f \in Files, c \in Content : Edit(f, c)) \/ UNCHANGED vars
    BY <2>2, <2>3 DEF Edit, vars, locals, hashing
  <2> QED
    BY <2>1, <2>3, Actors
<1> QED
  BY <1>1, <1>2, GroundedInvariant, PTL DEF Spec, ImplementsTracedRuns, Runs!Spec
=============================================================================
