-------------------------- MODULE EvalCacheProofs --------------------------
(***************************************************************************)
(* Theorems about EvalCache, for any number of processes, files, contents, *)
(* calls and edits, with every failure the model has.                      *)
(***************************************************************************)
EXTENDS EvalCache, TLAPS, FiniteSetTheorems, SequenceTheorems

\* What typing needs besides: hash_files is never given more paths than there
\* are, a row that is being hashed has been selected, one that is being filled
\* exists, and a call that is under way has found its main file.
Hashing ==
  \A p \in Procs :
    /\ Len(files[p]) + Len(chunks[p]) <= Cardinality(Files)
    /\ pc[p] = "hash" => todo[p] # <<>>
    /\ pc[p] = "inputs" => row[p] \in 1..Len(outputs)
    /\ pc[p] # "idle" =>
         call[p].main \in Mains /\ call[p].attr \in Attrs /\ call[p].hash \in Bytes

TInv == TypeOK /\ Hashing

----------------------------------------------------------------------------
(* Facts about the operators.                                              *)

\* The empty view is a view, and the results built by the code are results.
LEMMA ResultTypes ==
  /\ NoView \in Views
  /\ None \in Results /\ Err \in Results
  /\ \A v \in Views, nl \in BOOLEAN : Ok(v, nl) \in Results
  BY DEF NoView, Views, None, Err, Ok, Results

\* A subset of the paths is finite and not larger than the set of all paths.
LEMMA SubsetSize ==
  ASSUME NEW S \in SUBSET Files
  PROVE  IsFiniteSet(S) /\ Cardinality(S) \in Nat /\ Cardinality(S) <= Cardinality(Files)
         /\ Cardinality(Files) \in Nat
  BY FilesFinite, FS_Subset, FS_CardinalityType

\* Sorting the paths of a set gives the set in path order.
LEMMA SortedOrder ==
  ASSUME NEW S \in SUBSET Files, NEW vec \in Orders(S)
  PROVE  Sort(vec) = PathOrder[S]
  BY DEF Orders, Sort

\* The paths of a set in order: each of them, once, and no other.
LEMMA PathOrderSeq ==
  ASSUME NEW S \in SUBSET Files
  PROVE  /\ PathOrder[S] \in Seq(Files)
         /\ Len(PathOrder[S]) = Cardinality(S)
         /\ \A f \in S : \E i \in 1..Len(PathOrder[S]) : PathOrder[S][i] = f
         /\ \A i \in 1..Len(PathOrder[S]) : PathOrder[S][i] \in S
<1>1. PathOrder[S] \in Seq(Files) /\ Len(PathOrder[S]) = Cardinality(S)
      /\ ToSet(PathOrder[S]) = S
  BY PathOrderType
<1>2. DOMAIN PathOrder[S] = 1..Len(PathOrder[S])
  BY <1>1
<1> QED
  BY <1>1, <1>2 DEF ToSet

\* The inputs of a row, and the tracked part of a view, are paths.
LEMMA PathSets ==
  /\ \A id : RowInputs(id) \in SUBSET Files
  /\ \A v \in Views : Tracked(v) \in SUBSET Files /\ DOMAIN v \subseteq Files
  BY DEF RowInputs, Tracked, Views

\* The digest of contents, no more than there are paths, is a digest.
LEMMA DigestType ==
  ASSUME NEW cs \in Seq(Bytes), Len(cs) <= Cardinality(Files), Cardinality(Files) \in Nat
  PROVE  Digest(cs) \in Digests /\ cs \in BoundedSeq(Bytes, Cardinality(Files))
<1>1. Len(cs) \in 0..Cardinality(Files) /\ cs \in [1..Len(cs) -> Bytes]
  OBVIOUS
<1>2. cs \in BoundedSeq(Bytes, Cardinality(Files))
  BY <1>1 DEF BoundedSeq, SeqOf
<1> QED
  BY <1>2 DEF Digests

----------------------------------------------------------------------------
(* Types.                                                                  *)

\* An empty database and idle processes are well typed.
LEMMA TypeStart == Init => TInv
<1> SUFFICES ASSUME Init PROVE TInv
  OBVIOUS
<1>1. Len(<<>>) = 0 /\ Cardinality(Files) \in Nat
  BY FilesFinite, FS_CardinalityType
<1>2. TypeOK
  BY <1>1, ResultTypes, BoundsType DEF Init, TypeOK, Steps
<1>3. Hashing
  BY <1>1 DEF Init, Hashing
<1> QED
  BY <1>2, <1>3 DEF TInv

\* Leaving a call keeps the types.
LEMMA ReturnTypes ==
  ASSUME TInv, NEW p \in Procs, NEW r \in Results, Return(p, r), UNCHANGED db
  PROVE  TInv'
<1>1. TypeOK'
  BY ResultTypes DEF TInv, TypeOK, Return, db, Steps, Calls
<1>2. Hashing'
  <2>1. Cardinality(Files) \in Nat /\ Len(<<>>) = 0
    BY FilesFinite, FS_CardinalityType
  <2> QED
    BY <2>1 DEF TInv, TypeOK, Hashing, Return, db, Steps
<1> QED
  BY <1>1, <1>2 DEF TInv

\* Every step keeps the types.
LEMMA TypeStep == TInv /\ [Next]_vars => TInv'
<1> SUFFICES ASSUME TInv, [Next]_vars PROVE TInv'
  OBVIOUS
<1>size. Cardinality(Files) \in Nat /\ Len(<<>>) = 0
  BY FilesFinite, FS_CardinalityType
<1>ty. TypeOK /\ Hashing
  BY DEF TInv
<1>call. ASSUME NEW p \in Procs, NEW m \in Mains, NEW a \in Attrs, Call(p, m, a)
         PROVE  TInv'
  <2>1. TypeOK'
    BY <1>call, <1>ty, ResultTypes, FilesFinite, BoundsType
    DEF TypeOK, Call, NewCall, db, locals, Steps, Calls, Content
  <2>2. fs[m] \in Bytes
    BY <1>call, <1>ty, FilesFinite DEF TypeOK, Call, Content
  <2>3. call' = [call EXCEPT ![p] =
                   [main |-> m, attr |-> a, hash |-> fs[m],
                    known |-> {id \in DOMAIN outputs : Complete(id)}]]
        /\ pc' = [pc EXCEPT ![p] = "query"]
        /\ UNCHANGED <<outputs, todo, row, files, chunks>>
    BY <1>call DEF Call, NewCall, db, locals
  <2>4. \A q \in Procs : pc'[q] # "idle" =>
          call'[q].main \in Mains /\ call'[q].attr \in Attrs /\ call'[q].hash \in Bytes
    <3>1. call'[p].main = m /\ call'[p].attr = a /\ call'[p].hash = fs[m]
      BY <1>ty, <2>3 DEF TypeOK
    <3>2. \A q \in Procs : q # p => call'[q] = call[q] /\ pc'[q] = pc[q]
      BY <2>3, <1>ty DEF TypeOK
    <3> QED
      BY <1>ty, <2>2, <3>1, <3>2 DEF Hashing
  <2>5. Hashing'
    BY <1>ty, <2>3, <2>4 DEF TypeOK, Hashing
  <2> QED
    BY <2>1, <2>5 DEF TInv
<1>missing. ASSUME NEW p \in Procs, NEW m \in Mains, NEW a \in Attrs, CallMissing(p, m, a)
            PROVE  TInv'
  <2>1. TypeOK'
    BY <1>missing, <1>ty, ResultTypes, FilesFinite, BoundsType
    DEF TypeOK, CallMissing, NewCall, db, locals, Steps, Calls, Content
  <2>2. Hashing'
    BY <1>missing, <1>ty DEF TypeOK, Hashing, CallMissing, NewCall, locals, db
  <2> QED
    BY <2>1, <2>2 DEF TInv
<1>query. ASSUME NEW p \in Procs, Query(p) PROVE TInv'
  <2> PICK ids \in Orders(MatchingIds(call[p])) : todo' = [todo EXCEPT ![p] = ids]
    BY <1>query DEF Query
  <2>1. MatchingIds(call[p]) \subseteq 1..Len(outputs)
    BY <1>ty DEF MatchingIds, TypeOK
  <2>2. IsFiniteSet(MatchingIds(call[p])) /\ Cardinality(MatchingIds(call[p])) \in Nat
    <3>1. Len(outputs) \in Nat /\ IsFiniteSet(1..Len(outputs))
      BY <1>ty, FS_Interval DEF TypeOK
    <3> QED
      BY <2>1, <3>1, FS_Subset, FS_CardinalityType
  <2>3. ids \in Seq(1..Len(outputs))
    BY <2>1, <2>2 DEF Orders
  <2>4. TypeOK'
    BY <1>query, <1>ty, <2>3 DEF TypeOK, Query, db, hashing, Steps, Calls
  <2>5. Hashing'
    BY <1>query, <1>ty, <2>3 DEF TypeOK, Hashing, Query, hashing, db, Steps
  <2> QED
    BY <2>4, <2>5 DEF TInv
<1>next. ASSUME NEW p \in Procs, NextRow(p) PROVE TInv'
  <2> DEFINE S == RowInputs(Head(todo[p]))
  <2>1. S \in SUBSET Files
    BY PathSets
  <2>2. files' = [files EXCEPT ![p] = PathOrder[S]] /\ chunks' = [chunks EXCEPT ![p] = <<>>]
    BY <1>next, <2>1, SortedOrder DEF NextRow, StartHashing
  <2>3. PathOrder[S] \in Seq(Files) /\ Len(PathOrder[S]) <= Cardinality(Files)
        /\ Len(PathOrder[S]) \in Nat
    BY <2>1, PathOrderSeq, SubsetSize
  <2> HIDE DEF S
  <2>4. TypeOK'
    BY <1>next, <1>ty, <2>2, <2>3 DEF TypeOK, NextRow, db, Steps, Calls
  <2>5. Hashing'
    BY <1>next, <1>ty, <1>size, <2>2, <2>3 DEF TypeOK, Hashing, NextRow, db, Steps
  <2> QED
    BY <2>4, <2>5 DEF TInv
<1>hash. ASSUME NEW p \in Procs, HashFile(p) PROVE TInv'
  <2>1. files[p] \in Seq(Files) /\ files[p] # <<>> /\ chunks[p] \in Seq(Bytes)
    BY <1>hash, <1>ty DEF HashFile, TypeOK
  <2>2. Head(files[p]) \in Files /\ Tail(files[p]) \in Seq(Files)
        /\ Len(Tail(files[p])) = Len(files[p]) - 1 /\ Len(files[p]) \in Nat
    BY <2>1
  <2>3. fs[Head(files[p])] \in Bytes
    BY <1>hash, <1>ty, <2>2 DEF HashFile, TypeOK, Content
  <2> DEFINE b == fs[Head(files[p])]
  <2>4. Append(chunks[p], b) \in Seq(Bytes) /\ Len(chunks[p]) \in Nat
        /\ Len(Append(chunks[p], b)) = Len(chunks[p]) + 1
    BY <2>1, <2>3
  <2>5. /\ chunks' = [chunks EXCEPT ![p] = Append(chunks[p], b)]
        /\ files' = [files EXCEPT ![p] = Tail(files[p])]
    BY <1>hash DEF HashFile
  <2> HIDE DEF b
  <2>6. TypeOK'
    BY <1>hash, <1>ty, <2>2, <2>4, <2>5 DEF TypeOK, HashFile, db, Steps, Calls
  <2>7. Hashing'
    BY <1>hash, <1>ty, <1>size, <2>2, <2>4, <2>5 DEF TypeOK, Hashing, HashFile, db, Steps
  <2> QED
    BY <2>6, <2>7 DEF TInv
<1>skip. ASSUME NEW p \in Procs, SkipRow(p) \/ Differ(p) PROVE TInv'
  <2>1. /\ pc[p] = "hash"
        /\ todo' = [todo EXCEPT ![p] = Tail(todo[p])]
        /\ chunks' = [chunks EXCEPT ![p] = <<>>]
        /\ pc' = [pc EXCEPT ![p] = "scan"]
        /\ UNCHANGED <<fs, edits, calls, outputs, inputs, call, row, view, result, seen>>
    BY <1>skip DEF SkipRow, Differ, DifferWith, db
  <2>2. files' = [files EXCEPT ![p] = <<>>]
    <3>1. CASE SkipRow(p)
      BY <3>1 DEF SkipRow
    <3>2. CASE Differ(p)
      BY <3>2, <1>ty DEF Differ, DifferWith, TypeOK
    <3> QED
      BY <1>skip, <3>1, <3>2
  <2>3. todo[p] \in Seq(1..Len(outputs)) /\ todo[p] # <<>>
    BY <2>1, <1>ty DEF TypeOK, Hashing
  <2>4. Tail(todo[p]) \in Seq(1..Len(outputs))
    BY <2>3, HeadTailProperties
  <2>5. TypeOK'
    BY <1>ty, <2>1, <2>2, <2>4 DEF TypeOK, Steps, Calls
  <2>6. Hashing'
    BY <1>ty, <1>size, <2>1, <2>2 DEF TypeOK, Hashing, Steps
  <2> QED
    BY <2>5, <2>6 DEF TInv
<1>miss. ASSUME NEW p \in Procs, Miss(p) PROVE TInv'
  <2>1. TypeOK'
    BY <1>miss, <1>ty DEF TypeOK, Miss, db, locals, Steps, Calls
  <2>2. Hashing'
    BY <1>miss, <1>ty DEF TypeOK, Hashing, Miss, db, locals, Steps
  <2> QED
    BY <2>1, <2>2 DEF TInv
<1>read. ASSUME NEW p \in Procs, NEW f \in Files, ReadFile(p, f) PROVE TInv'
  <2>1. fs[f] \in Bytes
    BY <1>read, <1>ty DEF ReadFile, TypeOK, Content
  <2> DEFINE v == [g \in DOMAIN view[p] \cup {f} |-> IF g = f THEN fs[f] ELSE view[p][g]]
  <2>2. v \in Views
    <3>1. PICK S \in SUBSET Files : view[p] \in [S -> Bytes]
      BY <1>ty DEF TypeOK, Views
    <3>2. v \in [S \cup {f} -> Bytes]
      BY <2>1, <3>1
    <3> QED
      BY <3>2 DEF Views
  <2>3. view' = [view EXCEPT ![p] = v]
    BY <1>read DEF ReadFile
  <2> HIDE DEF v
  <2>4. TypeOK'
    BY <1>read, <1>ty, <2>2, <2>3 DEF TypeOK, ReadFile, db, hashing, Steps, Calls
  <2>5. Hashing'
    BY <1>read, <1>ty DEF TypeOK, Hashing, ReadFile, db, hashing, Steps
  <2> QED
    BY <2>4, <2>5 DEF TInv
<1>finish. ASSUME NEW p \in Procs, Finish(p) PROVE TInv'
  <2> DEFINE S == Tracked(view[p])
  <2>1. S \in SUBSET Files
    BY <1>ty, PathSets DEF TypeOK
  <2>2. files' = [files EXCEPT ![p] = PathOrder[S]] /\ chunks' = [chunks EXCEPT ![p] = <<>>]
    BY <1>finish, <2>1, SortedOrder DEF Finish, StartHashing
  <2>3. PathOrder[S] \in Seq(Files) /\ Len(PathOrder[S]) <= Cardinality(Files)
        /\ Len(PathOrder[S]) \in Nat
    BY <2>1, PathOrderSeq, SubsetSize
  <2> HIDE DEF S
  <2>4. TypeOK'
    BY <1>finish, <1>ty, <2>2, <2>3 DEF TypeOK, Finish, db, Steps, Calls
  <2>5. Hashing'
    BY <1>finish, <1>ty, <1>size, <2>2, <2>3 DEF TypeOK, Hashing, Finish, db, Steps
  <2> QED
    BY <2>4, <2>5 DEF TInv
<1>output. ASSUME NEW p \in Procs, InsertOutput(p) PROVE TInv'
  <2> DEFINE r == [main |-> call[p].main, attr |-> call[p].attr, hash |-> call[p].hash,
                   output |-> view[p], input_hash |-> Digest(chunks[p])]
  <2>1. Digest(chunks[p]) \in Digests
    BY <1>output, <1>ty, <1>size, DigestType DEF InsertOutput, TypeOK, Hashing
  <2>2. r \in Rows
    BY <1>output, <1>ty, <2>1 DEF InsertOutput, TypeOK, Hashing, Calls, Rows
  <2>3. /\ outputs' = Append(outputs, r) /\ outputs' \in Seq(Rows)
        /\ Len(outputs) \in Nat /\ Len(outputs') = Len(outputs) + 1
    BY <1>output, <1>ty, <2>2 DEF InsertOutput, TypeOK
  <2> HIDE DEF r
  <2>4. 1..Len(outputs) \subseteq 1..Len(outputs') /\ 0..Len(outputs) \subseteq 0..Len(outputs')
    BY <2>3
  <2>5. Seq(1..Len(outputs)) \subseteq Seq(1..Len(outputs')) /\ Calls \subseteq Calls'
    BY <2>4, SeqMonotonic DEF Calls
  <2>6. TypeOK'
    <3>1. inputs' \subseteq (1..Len(outputs')) \X Files
      BY <1>output, <1>ty, <2>4 DEF InsertOutput, TypeOK
    <3>2. call' \in [Procs -> Calls' \cup {NoCall}]
      BY <1>output, <1>ty, <2>5 DEF InsertOutput, TypeOK
    <3>3. todo' \in [Procs -> Seq(1..Len(outputs'))]
      BY <1>output, <1>ty, <2>5 DEF InsertOutput, TypeOK
    <3>4. row' \in [Procs -> 0..Len(outputs')]
      <4>1. row \in [Procs -> 0..Len(outputs')]
        BY <1>ty, <2>4 DEF TypeOK
      <4>2. Len(outputs) + 1 \in 0..Len(outputs')
        BY <2>3
      <4> QED
        BY <1>output, <4>1, <4>2 DEF InsertOutput
    <3>5. chunks' \in [Procs -> Seq(Bytes)] /\ pc' \in [Procs -> Steps]
      BY <1>output, <1>ty DEF InsertOutput, TypeOK, Steps
    <3> QED
      BY <1>output, <1>ty, <2>3, <3>1, <3>2, <3>3, <3>4, <3>5 DEF InsertOutput, TypeOK
  <2>7. Hashing'
    BY <1>output, <1>ty, <1>size, <2>5 DEF TypeOK, Hashing, InsertOutput, Steps
  <2> QED
    BY <2>6, <2>7 DEF TInv
<1>input. ASSUME NEW p \in Procs, NEW f \in Files, InsertInput(p, f) PROVE TInv'
  <2>1. Len(outputs) \in Nat
    BY <1>ty DEF TypeOK
  <2>2. row[p] \in 1..Len(outputs)
    BY <1>input, <1>ty DEF InsertInput, Hashing
  <2>3. TypeOK'
    BY <1>input, <1>ty, <2>2 DEF TypeOK, InsertInput, locals, Steps, Calls
  <2>4. Hashing'
    BY <1>input, <1>ty DEF TypeOK, Hashing, InsertInput, locals, Steps, Calls
  <2> QED
    BY <2>3, <2>4 DEF TInv
<1>hit. ASSUME NEW p \in Procs, Hit(p) PROVE TInv'
  <2>1. Head(todo[p]) \in DOMAIN outputs
    BY <1>hit, <1>ty DEF Hit, TypeOK, Hashing
  <2>2. outputs[Head(todo[p])].output \in Views
    <3>1. outputs \in Seq(Rows)
      BY <1>ty DEF TypeOK
    <3>2. outputs[Head(todo[p])] \in Rows
      BY <2>1, <3>1
    <3> QED
      BY <3>2 DEF Rows
  <2> QED
    BY <1>hit, <2>2, ReturnTypes, ResultTypes DEF Hit
<1>return. ASSUME NEW p \in Procs,
                  \/ EvalError(p) \/ HashError(p) \/ InsertConflict(p) \/ Store(p)
                  \/ DbError(p) \/ ChildKilled(p) \/ Crash(p)
           PROVE  TInv'
  <2>1. \E r \in Results : Return(p, r) /\ UNCHANGED db
    BY <1>return, <1>ty, ResultTypes
    DEF EvalError, HashError, InsertConflict, Store, DbError, ChildKilled, Crash, TypeOK
  <2> QED
    BY <2>1, ReturnTypes
<1>edit. ASSUME NEW f \in Files, NEW c \in Content, Edit(f, c) PROVE TInv'
  <2>1. TypeOK'
    BY <1>edit, <1>ty, BoundsType DEF TypeOK, Edit, db, locals, Steps, Calls
  <2>2. Hashing'
    BY <1>edit, <1>ty DEF TypeOK, Hashing, Edit, db, locals, Steps, Calls
  <2> QED
    BY <2>1, <2>2 DEF TInv
<1>stay. ASSUME UNCHANGED vars PROVE TInv'
  BY <1>stay, <1>ty DEF TInv, TypeOK, Hashing, vars, Calls
<1> QED
  BY <1>call, <1>missing, <1>query, <1>next, <1>hash, <1>skip, <1>miss, <1>read, <1>finish,
     <1>output, <1>input, <1>hit, <1>return, <1>edit, <1>stay
  DEF Next, Step, Rest

\* Every reachable state of the cache is well typed.
THEOREM TypeCorrect == Spec => []TypeOK
<1>1. Init => TInv
  BY TypeStart
<1>2. TInv /\ [Next]_vars => TInv'
  BY TypeStep
<1>3. TInv => TypeOK
  BY DEF TInv
<1> QED
  BY <1>1, <1>2, <1>3, PTL DEF Spec

----------------------------------------------------------------------------
(* A partially recorded row is never served, if contents tell apart.       *)

\* A row records only inputs of its output, and its digest is of as many
\* contents as its output has inputs.
RowHonest(id) ==
  /\ RowInputs(id) \subseteq Tracked(outputs[id].output)
  /\ \E cs \in BoundedSeq(Bytes, Cardinality(Files)) :
       /\ Len(cs) = Cardinality(Tracked(outputs[id].output))
       /\ outputs[id].input_hash = Digest(cs)

\* A query hashes inputs that the row had when it was selected; an insertion
\* hashes all the inputs of the view, and records the inputs of its own row.
HasherHonest(p) ==
  /\ pc[p] = "hash" => \E S \in SUBSET RowInputs(Head(todo[p])) :
                          Len(files[p]) + Len(chunks[p]) = Cardinality(S)
  /\ pc[p] = "inshash" => Len(files[p]) + Len(chunks[p]) = Cardinality(Tracked(view[p]))
  /\ pc[p] = "inputs" => outputs[row[p]].output = view[p]

Honest ==
  /\ \A id \in DOMAIN outputs : RowHonest(id)
  /\ \A p \in Procs : HasherHonest(p)

\* Nothing that was committed is changed or taken back.
DbGrows ==
  /\ inputs \subseteq inputs'
  /\ \A id \in DOMAIN outputs : id \in DOMAIN outputs' /\ outputs'[id] = outputs[id]

\* No step changes or deletes a row.
LEMMA DbOnlyGrows == TInv /\ [Next]_vars => DbGrows
<1> SUFFICES ASSUME TInv, [Next]_vars PROVE DbGrows
  OBVIOUS
<1>1. outputs \in Seq(Rows)
  BY DEF TInv, TypeOK
<1>2. CASE UNCHANGED db
  BY <1>2 DEF db, DbGrows
<1>3. ASSUME NEW p \in Procs, InsertOutput(p) PROVE DbGrows
  <2>1. PICK r : outputs' = Append(outputs, r) /\ inputs' = inputs
    BY <1>3 DEF InsertOutput
  <2>2. Append(outputs, r) \in Seq(Rows \cup {r})
        /\ \A i \in 1..Len(outputs) : Append(outputs, r)[i] = outputs[i]
        /\ Len(Append(outputs, r)) = Len(outputs) + 1 /\ Len(outputs) \in Nat
    BY <1>1, AppendProperties
  <2> QED
    BY <1>1, <2>1, <2>2 DEF DbGrows
<1>4. ASSUME NEW p \in Procs, NEW f \in Files, InsertInput(p, f) PROVE DbGrows
  BY <1>4 DEF InsertInput, DbGrows
<1> QED
  BY <1>2, <1>3, <1>4
  DEF Next, Step, Rest, vars, db, locals, hashing, Call, CallMissing, Query, NextRow, HashFile,
      SkipRow, Hit, Differ, DifferWith, Miss, ReadFile, EvalError, Finish, HashError, InsertConflict,
      Store, DbError, ChildKilled, Crash, Edit

\* What a process has checked of its row stays true while the process rests.
LEMMA RestKeepsHonest ==
  ASSUME TInv, Honest, DbGrows, NEW q \in Procs, pc'[q] = pc[q], todo'[q] = todo[q],
         row'[q] = row[q], files'[q] = files[q], chunks'[q] = chunks[q], view'[q] = view[q]
  PROVE  HasherHonest(q)'
<1>1. HasherHonest(q)
  BY DEF Honest
<1>2. \A id : RowInputs(id) \subseteq RowInputs(id)'
  BY DEF RowInputs, DbGrows
<1>3. (pc[q] = "hash" => \E S \in SUBSET RowInputs(Head(todo[q])) :
                          Len(files[q]) + Len(chunks[q]) = Cardinality(S))'
  BY <1>1, <1>2 DEF HasherHonest
<1>4. pc[q] = "inputs" => row[q] \in DOMAIN outputs
  BY DEF TInv, Hashing, TypeOK
<1>5. (pc[q] = "inputs" => outputs[row[q]].output = view[q])'
  BY <1>1, <1>4 DEF HasherHonest, DbGrows
<1>6. (pc[q] = "inshash" => Len(files[q]) + Len(chunks[q]) = Cardinality(Tracked(view[q])))'
  BY <1>1 DEF HasherHonest, Tracked, ShouldTrack
<1> QED
  BY <1>3, <1>5, <1>6 DEF HasherHonest

\* Rows stay honest while no statement is executed.
LEMMA RowsKeepHonest ==
  ASSUME Honest, UNCHANGED db
  PROVE  \A id \in DOMAIN outputs' : RowHonest(id)'
  BY DEF Honest, RowHonest, db, RowInputs, Tracked, ShouldTrack, Digest

\* A step of one process that touches neither the database nor the fields that
\* its own phase depends on, or that ends its phase, keeps everybody honest.
LEMMA LocalKeepsHonest ==
  ASSUME TInv, Honest, DbGrows, UNCHANGED db, NEW p \in Procs, HasherHonest(p)',
         \A q \in Procs : q # p =>
           /\ pc'[q] = pc[q] /\ todo'[q] = todo[q] /\ row'[q] = row[q]
           /\ files'[q] = files[q] /\ chunks'[q] = chunks[q] /\ view'[q] = view[q]
  PROVE  Honest'
<1>1. \A q \in Procs : q # p => HasherHonest(q)'
  BY RestKeepsHonest
<1> QED
  BY <1>1, RowsKeepHonest DEF Honest

\* Without rows and calls there is nothing to be dishonest about.
LEMMA HonestStart == Init => Honest
<1> SUFFICES ASSUME Init PROVE Honest
  OBVIOUS
<1>1. DOMAIN outputs = {}
  BY DEF Init
<1>2. \A p \in Procs : pc[p] = "idle"
  BY DEF Init
<1> QED
  BY <1>1, <1>2 DEF Honest, HasherHonest

\* Every step keeps rows and hashers honest.
LEMMA HonestStep == TInv /\ Honest /\ [Next]_vars => Honest'
<1> SUFFICES ASSUME TInv, Honest, [Next]_vars PROVE Honest'
  OBVIOUS
<1>grow. DbGrows
  BY DbOnlyGrows
<1>ty. TypeOK /\ Hashing /\ \A q \in Procs : HasherHonest(q)
  BY DEF TInv, Honest
<1>size. \A S \in SUBSET Files : Len(PathOrder[S]) = Cardinality(S) /\ Cardinality(S) \in Nat
  BY PathOrderSeq, SubsetSize
<1>quiet. ASSUME NEW p \in Procs,
                 \/ \E m \in Mains, a \in Attrs : Call(p, m, a) \/ CallMissing(p, m, a)
                 \/ Query(p) \/ SkipRow(p) \/ Differ(p) \/ Miss(p)
                 \/ \E f \in Files : ReadFile(p, f)
          PROVE  Honest'
  <2>1. UNCHANGED db
    BY <1>quiet DEF Call, CallMissing, Query, SkipRow, Differ, DifferWith, Miss, ReadFile
  <2>2. pc'[p] \in {"idle", "query", "scan", "eval"}
    BY <1>quiet, <1>ty
    DEF Call, CallMissing, Query, SkipRow, Differ, DifferWith, Miss, ReadFile, TypeOK
  <2>3. HasherHonest(p)'
    BY <2>2 DEF HasherHonest
  <2>4. \A q \in Procs : q # p =>
          /\ pc'[q] = pc[q] /\ todo'[q] = todo[q] /\ row'[q] = row[q]
          /\ files'[q] = files[q] /\ chunks'[q] = chunks[q] /\ view'[q] = view[q]
    BY <1>quiet, <1>ty
    DEF Call, CallMissing, Query, SkipRow, Differ, DifferWith, Miss, ReadFile, TypeOK,
        locals, hashing
  <2> QED
    BY <1>grow, <2>1, <2>3, <2>4, LocalKeepsHonest
<1>return. ASSUME NEW p \in Procs,
                  \/ Hit(p) \/ EvalError(p) \/ HashError(p) \/ InsertConflict(p)
                  \/ Store(p) \/ DbError(p) \/ ChildKilled(p) \/ Crash(p)
           PROVE  Honest'
  <2>1. UNCHANGED db /\ \E r : Return(p, r)
    BY <1>return
    DEF Hit, EvalError, HashError, InsertConflict, Store, DbError, ChildKilled, Crash
  <2>2. pc'[p] = "idle"
    BY <2>1, <1>ty DEF Return, TypeOK
  <2>3. HasherHonest(p)'
    BY <2>2 DEF HasherHonest
  <2>4. \A q \in Procs : q # p =>
          /\ pc'[q] = pc[q] /\ todo'[q] = todo[q] /\ row'[q] = row[q]
          /\ files'[q] = files[q] /\ chunks'[q] = chunks[q] /\ view'[q] = view[q]
    BY <2>1, <1>ty DEF Return, TypeOK
  <2> QED
    BY <1>grow, <2>1, <2>3, <2>4, LocalKeepsHonest
<1>next. ASSUME NEW p \in Procs, NextRow(p) PROVE Honest'
  <2> DEFINE S == RowInputs(Head(todo[p]))
  <2>1. S \in SUBSET Files
    BY PathSets
  <2>2. /\ files' = [files EXCEPT ![p] = PathOrder[S]]
        /\ chunks' = [chunks EXCEPT ![p] = <<>>]
        /\ pc' = [pc EXCEPT ![p] = "hash"]
        /\ UNCHANGED <<outputs, inputs, todo, row, view>>
    BY <1>next, <2>1, SortedOrder DEF NextRow, StartHashing, db
  <2>3. /\ pc'[p] = "hash" /\ todo'[p] = todo[p]
        /\ files'[p] = PathOrder[S] /\ chunks'[p] = <<>>
    BY <2>2, <1>ty DEF TypeOK
  <2>4. RowInputs(Head(todo[p]))' = S
    BY <2>2 DEF RowInputs
  <2>5. Len(files'[p]) + Len(chunks'[p]) = Cardinality(S)
    BY <2>1, <2>3, <1>size
  <2>6. HasherHonest(p)'
    BY <2>3, <2>4, <2>5 DEF HasherHonest
  <2>7. \A q \in Procs : q # p =>
          /\ pc'[q] = pc[q] /\ todo'[q] = todo[q] /\ row'[q] = row[q]
          /\ files'[q] = files[q] /\ chunks'[q] = chunks[q] /\ view'[q] = view[q]
    BY <2>2, <1>ty DEF TypeOK
  <2> QED
    BY <1>grow, <2>2, <2>6, <2>7, LocalKeepsHonest DEF db
<1>finish. ASSUME NEW p \in Procs, Finish(p) PROVE Honest'
  <2> DEFINE S == Tracked(view[p])
  <2>1. S \in SUBSET Files
    BY <1>ty, PathSets DEF TypeOK
  <2>2. /\ files' = [files EXCEPT ![p] = PathOrder[S]]
        /\ chunks' = [chunks EXCEPT ![p] = <<>>]
        /\ pc' = [pc EXCEPT ![p] = "inshash"]
        /\ UNCHANGED <<outputs, inputs, todo, row, view>>
    BY <1>finish, <2>1, SortedOrder DEF Finish, StartHashing, db
  <2>3. /\ pc'[p] = "inshash" /\ view'[p] = view[p]
        /\ files'[p] = PathOrder[S] /\ chunks'[p] = <<>>
    BY <2>2, <1>ty DEF TypeOK
  <2>4. Len(files'[p]) + Len(chunks'[p]) = Cardinality(S)
    BY <2>1, <2>3, <1>size
  <2>5. HasherHonest(p)'
    BY <2>3, <2>4 DEF HasherHonest, Tracked, ShouldTrack
  <2>6. \A q \in Procs : q # p =>
          /\ pc'[q] = pc[q] /\ todo'[q] = todo[q] /\ row'[q] = row[q]
          /\ files'[q] = files[q] /\ chunks'[q] = chunks[q] /\ view'[q] = view[q]
    BY <2>2, <1>ty DEF TypeOK
  <2> QED
    BY <1>grow, <2>2, <2>5, <2>6, LocalKeepsHonest DEF db
<1>hash. ASSUME NEW p \in Procs, HashFile(p) PROVE Honest'
  <2>1. /\ files' = [files EXCEPT ![p] = Tail(files[p])]
        /\ chunks' = [chunks EXCEPT ![p] = Append(chunks[p], fs[Head(files[p])])]
        /\ UNCHANGED <<outputs, inputs, pc, todo, row, view>>
        /\ pc[p] \in {"hash", "inshash"} /\ files[p] # <<>>
    BY <1>hash DEF HashFile, db
  <2>2. Len(files'[p]) + Len(chunks'[p]) = Len(files[p]) + Len(chunks[p])
    <3>1. /\ files[p] \in Seq(Files) /\ files[p] # <<>> /\ chunks[p] \in Seq(Bytes)
          /\ Head(files[p]) \in Files
      BY <2>1, <1>ty DEF TypeOK
    <3>2. fs[Head(files[p])] \in Bytes
      BY <1>hash, <1>ty, <3>1 DEF HashFile, TypeOK, Content
    <3>3. /\ Len(Tail(files[p])) = Len(files[p]) - 1
          /\ Len(Append(chunks[p], fs[Head(files[p])])) = Len(chunks[p]) + 1
          /\ Len(files[p]) \in Nat /\ Len(chunks[p]) \in Nat
      BY <3>1, <3>2
    <3> QED
      BY <2>1, <3>3, <1>ty DEF TypeOK
  <2>3. HasherHonest(p)'
    <3>1. /\ pc'[p] = pc[p] /\ view'[p] = view[p] /\ pc[p] # "inputs"
          /\ RowInputs(Head(todo[p]))' = RowInputs(Head(todo[p]))
      BY <2>1 DEF RowInputs
    <3> QED
      BY <2>2, <3>1, <1>ty DEF HasherHonest, Tracked, ShouldTrack
  <2>4. \A q \in Procs : q # p =>
          /\ pc'[q] = pc[q] /\ todo'[q] = todo[q] /\ row'[q] = row[q]
          /\ files'[q] = files[q] /\ chunks'[q] = chunks[q] /\ view'[q] = view[q]
    BY <2>1, <1>ty DEF TypeOK
  <2> QED
    BY <1>grow, <2>1, <2>3, <2>4, LocalKeepsHonest DEF db
<1>output. ASSUME NEW p \in Procs, InsertOutput(p) PROVE Honest'
  <2> DEFINE r == [main |-> call[p].main, attr |-> call[p].attr, hash |-> call[p].hash,
                   output |-> view[p], input_hash |-> Digest(chunks[p])]
  <2>1. /\ outputs' = Append(outputs, r) /\ inputs' = inputs
        /\ row' = [row EXCEPT ![p] = Len(outputs) + 1]
        /\ chunks' = [chunks EXCEPT ![p] = <<>>]
        /\ pc' = [pc EXCEPT ![p] = "inputs"]
        /\ UNCHANGED <<todo, files, view>>
        /\ pc[p] = "inshash" /\ files[p] = <<>>
    BY <1>output DEF InsertOutput
  <2>2. r.output = view[p] /\ r.input_hash = Digest(chunks[p])
    OBVIOUS
  <2> HIDE DEF r
  <2>3. /\ Len(outputs) \in Nat /\ Len(outputs') = Len(outputs) + 1
        /\ DOMAIN outputs = 1..Len(outputs)
        /\ DOMAIN outputs' = 1..(Len(outputs) + 1)
        /\ outputs'[Len(outputs) + 1] = r
        /\ \A id \in 1..Len(outputs) : outputs'[id] = outputs[id]
    <3>1. outputs \in Seq(Rows \cup {r})
      BY <1>ty DEF TypeOK
    <3> QED
      BY <2>1, <3>1, AppendProperties
  <2>4. ASSUME NEW id \in DOMAIN outputs' PROVE RowHonest(id)'
    <3>1. CASE id \in 1..Len(outputs)
      <4>1. RowHonest(id) /\ outputs'[id] = outputs[id]
        BY <2>3, <3>1 DEF Honest
      <4> QED
        BY <2>1, <4>1 DEF RowHonest, RowInputs, Tracked, ShouldTrack, Digest
    <3>2. CASE id = Len(outputs) + 1
      <4>1. outputs'[id] = r
        BY <2>3, <3>2
      <4>2. RowInputs(id)' = {}
        BY <2>1, <2>3, <3>2, <1>ty DEF RowInputs, TypeOK
      <4>3. Len(files[p]) = 0 /\ Len(chunks[p]) \in Nat /\ chunks[p] \in Seq(Bytes)
        BY <2>1, <1>ty DEF TypeOK
      <4>4. Len(chunks[p]) = Cardinality(Tracked(view[p]))
        <5>1. Len(files[p]) + Len(chunks[p]) = Cardinality(Tracked(view[p]))
          BY <2>1, <1>ty DEF HasherHonest
        <5> QED
          BY <4>3, <5>1
      <4>5. chunks[p] \in BoundedSeq(Bytes, Cardinality(Files))
        <5>1. Len(chunks[p]) <= Cardinality(Files) /\ Cardinality(Files) \in Nat
          <6>1. Len(files[p]) + Len(chunks[p]) <= Cardinality(Files)
            BY <1>ty DEF Hashing
          <6> QED
            BY <4>3, <6>1, FilesFinite, FS_CardinalityType
        <5> QED
          BY <4>3, <5>1, DigestType
      <4> QED
        BY <2>2, <4>1, <4>2, <4>4, <4>5 DEF RowHonest, Tracked, ShouldTrack, Digest
    <3> QED
      BY <2>3, <3>1, <3>2
  <2>5. HasherHonest(p)'
    <3>1. /\ pc'[p] = "inputs" /\ row'[p] = Len(outputs) + 1 /\ view'[p] = view[p]
      BY <2>1, <1>ty DEF TypeOK
    <3> QED
      BY <2>2, <2>3, <3>1 DEF HasherHonest
  <2>6. ASSUME NEW q \in Procs, q # p PROVE HasherHonest(q)'
    BY <2>1, <2>6, <1>ty, <1>grow, RestKeepsHonest DEF TypeOK
  <2> QED
    BY <2>4, <2>5, <2>6 DEF Honest
<1>input. ASSUME NEW p \in Procs, NEW f \in Files, InsertInput(p, f) PROVE Honest'
  <2>1. /\ pc[p] = "inputs" /\ f \in Tracked(view[p])
        /\ inputs' = inputs \cup {<<row[p], f>>}
        /\ UNCHANGED <<outputs, pc, todo, row, files, chunks, view>>
    BY <1>input DEF InsertInput, Unrecorded, locals
  <2>2. outputs[row[p]].output = view[p]
    BY <2>1, <1>ty DEF HasherHonest
  <2>3. ASSUME NEW id \in DOMAIN outputs' PROVE RowHonest(id)'
    <3>1. RowHonest(id)
      BY <2>1 DEF Honest
    <3>2. RowInputs(id)' \subseteq RowInputs(id) \cup {g \in {f} : id = row[p]}
      BY <2>1 DEF RowInputs
    <3>3. RowInputs(id)' \subseteq Tracked(outputs[id].output)
      BY <2>1, <2>2, <3>1, <3>2 DEF RowHonest
    <3> QED
      BY <2>1, <3>1, <3>3 DEF RowHonest, Tracked, ShouldTrack, Digest
  <2>4. \A q \in Procs : HasherHonest(q)'
    BY <2>1, <1>grow, RestKeepsHonest
  <2> QED
    BY <2>3, <2>4 DEF Honest
<1>edit. ASSUME NEW f \in Files, NEW c \in Content, Edit(f, c) PROVE Honest'
  <2>1. UNCHANGED <<outputs, inputs, pc, todo, row, files, chunks, view>>
    BY <1>edit DEF Edit, db, locals
  <2> QED
    BY <2>1, <1>grow, RestKeepsHonest, RowsKeepHonest DEF Honest, db
<1>stay. ASSUME UNCHANGED vars PROVE Honest'
  <2>1. UNCHANGED <<outputs, inputs, pc, todo, row, files, chunks, view>>
    BY <1>stay DEF vars
  <2> QED
    BY <2>1, <1>grow, RestKeepsHonest, RowsKeepHonest DEF Honest, db
<1> QED
  BY <1>quiet, <1>return, <1>next, <1>finish, <1>hash, <1>output, <1>input, <1>edit, <1>stay
  DEF Next, Step, Rest

\* Lists of the same contents have the same length, and a set of paths that is
\* as large as a set that contains it is that set.
LEMMA HonestNeverServesPartial == CollisionFree /\ TInv /\ Honest => PartialRowNeverServed
<1> SUFFICES ASSUME CollisionFree, TInv, Honest, NEW p \in Procs,
                    pc[p] = "hash", files[p] = <<>>, HashAgrees(p)
             PROVE  Complete(Head(todo[p]))
  BY DEF PartialRowNeverServed
<1> DEFINE id == Head(todo[p])
<1>1. id \in DOMAIN outputs
  BY DEF TInv, TypeOK, Hashing
<1>2. RowHonest(id) /\ HasherHonest(p)
  BY <1>1 DEF Honest
<1>3. PICK cs \in BoundedSeq(Bytes, Cardinality(Files)) :
        /\ Len(cs) = Cardinality(Tracked(outputs[id].output))
        /\ outputs[id].input_hash = Digest(cs)
  BY <1>2 DEF RowHonest
<1>4. PICK S \in SUBSET RowInputs(id) : Len(files[p]) + Len(chunks[p]) = Cardinality(S)
  BY <1>2 DEF HasherHonest
<1>5. chunks[p] \in Seq(Bytes) /\ Len(chunks[p]) \in Nat /\ Len(<<>>) = 0
  BY DEF TInv, TypeOK
<1>6. chunks[p] \in BoundedSeq(Bytes, Cardinality(Files))
  <2>1. Len(files[p]) + Len(chunks[p]) <= Cardinality(Files) /\ Cardinality(Files) \in Nat
    BY FilesFinite, FS_CardinalityType DEF TInv, Hashing
  <2> QED
    BY <1>5, <2>1, DigestType
<1>7. chunks[p] = cs
  BY <1>3, <1>6 DEF CollisionFree, HashAgrees
<1>8. Cardinality(S) = Cardinality(Tracked(outputs[id].output))
  BY <1>3, <1>4, <1>5, <1>7
<1>9. outputs[id].output \in Views
  <2>1. outputs[id] \in Rows
    BY <1>1 DEF TInv, TypeOK
  <2> QED
    BY <2>1 DEF Rows
<1>10. /\ S \subseteq Tracked(outputs[id].output)
       /\ RowInputs(id) \subseteq Tracked(outputs[id].output)
       /\ IsFiniteSet(Tracked(outputs[id].output))
  BY <1>2, <1>9, PathSets, SubsetSize DEF RowHonest
<1>11. S = Tracked(outputs[id].output)
  BY <1>8, <1>10, FS_Subset
<1> QED
  BY <1>10, <1>11 DEF Complete

\* If contents tell apart, no interleaving of processes, edits, crashes and
\* database failures lets a query answer from a row whose inputs are not all
\* recorded.
THEOREM PartialRowsStayHidden == CollisionFree /\ Spec => []PartialRowNeverServed
<1> SUFFICES ASSUME CollisionFree PROVE Spec => []PartialRowNeverServed
  OBVIOUS
<1>1. Init => TInv /\ Honest
  BY TypeStart, HonestStart
<1>2. TInv /\ Honest /\ [Next]_vars => (TInv /\ Honest)'
  BY TypeStep, HonestStep
<1>3. TInv /\ Honest => PartialRowNeverServed
  BY HonestNeverServesPartial
<1> QED
  BY <1>1, <1>2, <1>3, PTL DEF Spec
=============================================================================
