---------------------------- MODULE TermsProofs ----------------------------
(***************************************************************************)
(* Theorems about Terms, for every program, and for any number of terms,   *)
(* iterators' items and handled errors.                                    *)
(***************************************************************************)
EXTENDS Terms, FiniteSetTheorems, TLAPS

\* The references are the terms that are held; an error in store.ctx is that
\* of an operation which failed; and the last operation has told the truth.
Honest ==
  /\ held \in [Values -> Nat]
  /\ refs = held
  /\ ctx # "ok" => failed
  /\ OutcomeIsOwn
  /\ HealthyNeverPanics

----------------------------------------------------------------------------
(* Counting.                                                               *)

\* Receiving a value adds as many references as terms.
LEMMA ReceiveCounts ==
  ASSUME NEW h \in [Values -> Nat], NEW v \in Values
  PROVE  Wrapped(h, v) \in [Values -> Nat] /\ ToNix(Incref(h, v), v) = Wrapped(h, v)
<1> DEFINE up == [h EXCEPT ![v] = @ + 1]
<1>1. up \in [Values -> Nat] /\ h[v] \in Nat /\ up[v] = h[v] + 1
  OBVIOUS
<1>2. [up EXCEPT ![v] = @ - 1] = h
  <2>1. \A w \in Values : [up EXCEPT ![v] = @ - 1][w] = h[w]
    BY <1>1
  <2> QED
    BY <1>1, <2>1
<1> QED
  BY <1>1, <1>2 DEF Wrapped, ToNix, Incref, Decref

\* Moving a term into an operation that drops it takes one away.
LEMMA WithoutCounts ==
  ASSUME NEW h \in [Values -> Nat], NEW v \in Values, Kind[v] = "scalar" \/ h[v] > 0
  PROVE  Without(h, v) \in [Values -> Nat]
  BY DEF Without, Decref

\* Only terms that are there can be moved.
LEMMA ArgumentHeld ==
  ASSUME Honest, NEW v \in Values, Argument(v)
  PROVE  Kind[v] = "scalar" \/ held[v] > 0
  BY DEF Honest, Argument, Movable

\* A collection has each value a number of times.
LEMMA AddedCounts ==
  ASSUME NEW c \in Values, NEW v \in Values PROVE Added(c)[v] \in Nat
<1> DEFINE places == {k \in DOMAIN Elems[c] : Elems[c][k] = v}
<1>1. DOMAIN Elems[c] = 1..Len(Elems[c]) /\ Len(Elems[c]) \in Nat
  BY ValuesType
<1>2. IsFiniteSet(places)
  <2>1. IsFiniteSet(1..Len(Elems[c]))
    BY <1>1, FS_Interval
  <2>2. places \subseteq 1..Len(Elems[c])
    BY <1>1
  <2> HIDE DEF places
  <2> QED
    BY <2>1, <2>2, FS_Subset
<1>3. Cardinality(places) \in Nat
  BY <1>2, FS_CardinalityType
<1> QED
  BY <1>3 DEF Added

\* So does receiving all of a collection.
LEMMA ReceiveAllCounts ==
  ASSUME Honest, NEW c \in Values, ReceiveAll(c)
  PROVE  held' \in [Values -> Nat] /\ refs' = held'
<1>1. \A v \in Values : Added(c)[v] \in Nat
  BY AddedCounts
<1>2. held \in [Values -> Nat] /\ refs = held
  BY DEF Honest
<1> QED
  BY <1>1, <1>2 DEF ReceiveAll

----------------------------------------------------------------------------
(* The iterator.                                                           *)

\* The iterator in use is within the bounds it found when it began.
Located ==
  \/ iter = NoIter
  \/ iter \in Iters /\ iter.len = Len(Elems[iter.on]) /\ iter.idx <= iter.len

\* While an iterator has items left the next one is a value of its collection.
LEMMA CurrentIsValue ==
  ASSUME Located, NEW kind \in {"list", "names", "items"}, Polled(kind)
  PROVE  iter \in Iters /\ iter.idx < iter.len /\ Current \in Values
<1>1. iter \in Iters /\ iter.len = Len(Elems[iter.on]) /\ iter.idx < iter.len
  BY DEF Located, Polled, NoIter, Iters
<1>2. iter.on \in Values /\ iter.idx + 1 \in 1..Len(Elems[iter.on])
  BY <1>1 DEF Iters
<1>3. Elems[iter.on] \in Seq(Values)
  BY <1>2, ValuesType
<1>4. Elems[iter.on][iter.idx + 1] \in Values
  BY <1>2, <1>3
<1> QED
  BY <1>1, <1>4 DEF Current

\* What the item at position k of the iterator in use is handed out as.
Item(it, k) ==
  <<k, IF it.kind # "names" /\ Elems[it.on][k] \in Failing THEN "err" ELSE "ok">>

\* An item that is yielded is the next one, whether it fails or not.
LEMMA YieldKeeps ==
  ASSUME Located, IterationFaithful, NEW kind \in {"list", "names", "items"}, Polled(kind),
         NEW out \in {"ok", "err"}, Yield(out),
         (out = "err") = (kind # "names" /\ Current \in Failing)
  PROVE  Located' /\ IterationFaithful'
<1>1. iter \in Iters /\ iter.idx < iter.len /\ iter.len = Len(Elems[iter.on])
      /\ iter.kind = kind
  BY CurrentIsValue DEF Located, Polled, NoIter
<1>2. iter.idx \in Nat /\ iter.len \in Nat /\ iter.yielded \in Seq(Nat \X {"ok", "err"})
      /\ iter.kind # "none"
  BY <1>1 DEF Iters
<1> DEFINE next == Append(iter.yielded, <<iter.idx + 1, out>>)
<1>3. next \in Seq(Nat \X {"ok", "err"})
  BY <1>2
<1>4. /\ iter' \in Iters /\ iter'.len = iter.len /\ iter'.idx = iter.idx + 1
      /\ iter'.on = iter.on /\ iter'.kind = iter.kind /\ iter'.yielded = next
  <2> HIDE DEF next
  <2>1. iter = [kind |-> iter.kind, on |-> iter.on, len |-> iter.len, idx |-> iter.idx,
                yielded |-> iter.yielded]
    BY <1>1 DEF Iters
  <2>2. iter' = [iter EXCEPT !.idx = iter.idx + 1, !.yielded = next]
    BY DEF Yield, next
  <2>3. iter' = [kind |-> iter.kind, on |-> iter.on, len |-> iter.len, idx |-> iter.idx + 1,
                 yielded |-> next]
    BY <2>1, <2>2
  <2>4. iter.kind \in {"list", "names", "items"} /\ iter.on \in Values
    BY <1>1 DEF Iters
  <2> QED
    BY <1>2, <1>3, <2>3, <2>4 DEF Iters
<1>5. Located'
  BY <1>1, <1>2, <1>4 DEF Located
<1>6. iter.yielded = [k \in 1..iter.idx |-> Item(iter, k)]
  BY <1>2 DEF IterationFaithful, Item
<1>7. <<iter.idx + 1, out>> = Item(iter, iter.idx + 1)
  BY <1>1 DEF Item, Current
<1>8. Len(iter.yielded) = iter.idx
  BY <1>2, <1>6
<1>9. next = [k \in 1..(iter.idx + 1) |-> Item(iter, k)]
  <2>1. DOMAIN next = 1..(iter.idx + 1) /\ next[iter.idx + 1] = Item(iter, iter.idx + 1)
    BY <1>2, <1>7, <1>8
  <2>2. \A k \in 1..iter.idx : next[k] = Item(iter, k)
    BY <1>2, <1>6, <1>8
  <2>3. \A k \in 1..(iter.idx + 1) : next[k] = Item(iter, k)
    BY <1>2, <2>1, <2>2
  <2> QED
    BY <1>3, <2>1, <2>3
<1> QED
  BY <1>4, <1>5, <1>9 DEF IterationFaithful, Item

\* What a panic leaves as it was, and what an iteration begins with.
LEMMA IterStart == Init => Located /\ IterationFaithful
  BY DEF Init, Located, IterationFaithful, NoIter

\* Every step keeps iterators in their place.
LEMMA IterStep == Located /\ IterationFaithful /\ [Next]_vars => Located' /\ IterationFaithful'
<1> SUFFICES ASSUME Located, IterationFaithful, [Next]_vars
             PROVE  Located' /\ IterationFaithful'
  OBVIOUS
<1>same. ASSUME UNCHANGED iter PROVE Located' /\ IterationFaithful'
  BY <1>same DEF Located, IterationFaithful
<1>start. ASSUME NEW c \in Values, NEW kind \in {"list", "names", "items"}, StartIter(c, kind)
          PROVE  Located' /\ IterationFaithful'
  <2>1. Len(Elems[c]) \in Nat
    BY ValuesType
  <2>2. iter' = [kind |-> kind, on |-> c, len |-> Len(Elems[c]), idx |-> 0, yielded |-> <<>>]
    BY <1>start DEF StartIter
  <2>3. Located'
    BY <2>1, <2>2 DEF Located, Iters
  <2>4. iter'.yielded = <<>> /\ iter'.idx = 0
    BY <2>2
  <2> QED
    BY <2>3, <2>4 DEF IterationFaithful
<1>end. ASSUME EndIter PROVE Located' /\ IterationFaithful'
  BY <1>end DEF EndIter, Located, IterationFaithful, NoIter
<1>item. ASSUME NextItem PROVE Located' /\ IterationFaithful'
  <2>1. last'.out \in {"ok", "err"} /\ (last'.out = "err") = (Current \in Failing)
    BY <1>item DEF NextItem, Fetch, End
  <2> QED
    BY <1>item, <2>1, YieldKeeps DEF NextItem
<1>name. ASSUME NextName PROVE Located' /\ IterationFaithful'
  BY <1>name, YieldKeeps DEF NextName
<1>elem. ASSUME NextElem PROVE Located' /\ IterationFaithful'
  <2>1. CASE last'.out = "panic"
    BY <1>same, <1>elem, <2>1 DEF NextElem
  <2>2. CASE last'.out # "panic"
    <3>1. /\ last'.out \in {"ok", "err"} /\ (last'.out = "err") = (Current \in Failing)
          /\ Yield(last'.out)
      BY <1>elem, <2>2 DEF NextElem, FetchElem, Fetch, End
    <3> QED
      BY <1>elem, <3>1, YieldKeeps DEF NextElem
  <2> QED
    BY <2>1, <2>2
<1>others. ASSUME \/ \E v \in Values : \/ EvalString(v) \/ CloneTerm(v) \/ DropTerm(v)
                                       \/ GetMissing(v) \/ Realise(v) \/ GetIdxOutside(v)
                                       \/ Length(v) \/ Insert(v) \/ CallRefused(v)
                                       \/ \E i \in DOMAIN Elems[v] : Get(v, i) \/ GetIdx(v, i)
                                       \/ \E f \in Values : CallWith(f, v) \/ CallPanics(f, v)
                  \/ \E kind \in {"list", "attrs"} : StartBuild(kind)
                  \/ InsertFails \/ FinishBuild \/ StoreCall \/ StoreStringInvalid
                  \/ Refuse
                  \/ \E s \in Values : \E i \in DOMAIN Elems[s] : GetAttrs(s, i)
                  \/ \E c \in Values : AsHashmap(c) \/ AsList(c) \/ Repr(c)
           PROVE  UNCHANGED iter
  BY <1>others DEF EvalString, CloneTerm, DropTerm, GetMissing, Realise, GetIdxOutside, Length,
     Insert, Get, GetIdx, CallWith, CallPanics, CallRefused, StartBuild, InsertFails, FinishBuild,
     StoreCall, StoreStringInvalid, Refuse, GetAttrs, AsHashmap, AsList, Repr
<1> QED
  BY <1>same, <1>start, <1>end, <1>item, <1>name, <1>elem, <1>others
  DEF Next, Stopped, vars, FileUnreadable, TypeMismatch, NotOfType, EmptyPath, CollectFails

----------------------------------------------------------------------------
(* The operations.                                                         *)

\* An operation that ends by the rules, and counts right, keeps everything.
LEMMA EndKeeps ==
  ASSUME Honest, NEW out, NEW fails \in BOOLEAN, End(out, fails),
         held' \in [Values -> Nat], refs' = held',
         ctx' # "ok" => failed \/ fails,
         out \in {"ok", "err"} => (out = "err") = fails,
         out \in {"panic", "undefined"} => failed \/ fails
  PROVE  Honest'
  BY DEF Honest, End, OutcomeIsOwn, HealthyNeverPanics

\* Getting an item or an attribute, which may fail, keeps the counts and outcomes honest.
LEMMA FetchKeeps ==
  ASSUME Honest, NEW v \in Values, Fetch(v) \/ FetchElem(v)
  PROVE  Honest'
<1>0. held \in [Values -> Nat] /\ refs = held
  BY DEF Honest
<1>1. ASSUME ctx' = "ok", Receive(v), End("ok", FALSE) PROVE Honest'
  <2>1. held' \in [Values -> Nat] /\ refs' = held'
    BY <1>0, <1>1, ReceiveCounts DEF Receive
  <2> QED
    BY <1>1, <2>1, EndKeeps
<1>2. ASSUME NEW out \in {"err", "panic"}, End(out, TRUE),
             UNCHANGED <<refs, held>>
      PROVE  Honest'
  <2>1. held' \in [Values -> Nat] /\ refs' = held'
    BY <1>0, <1>2
  <2> QED
    BY <1>2, <2>1, EndKeeps
<1> QED
  BY <1>1, <1>2 DEF Fetch, FetchElem

\* Nothing is held and nothing has failed at the start.
LEMMA HonestStart == Init => Honest
<1> SUFFICES ASSUME Init PROVE Honest
  OBVIOUS
<1>1. held \in [Values -> Nat] /\ refs = held /\ ctx = "ok"
  BY DEF Init
<1>2. last.out = "ok" /\ last.failed = FALSE
  BY DEF Init
<1> QED
  BY <1>1, <1>2 DEF Honest, OutcomeIsOwn, HealthyNeverPanics

\* Every operation keeps the counts and the outcomes honest.
LEMMA HonestStep == Honest /\ Located /\ [Next]_vars => Honest'
<1> SUFFICES ASSUME Honest, Located, [Next]_vars PROVE Honest'
  OBVIOUS
<1>0. held \in [Values -> Nat] /\ refs = held /\ (ctx # "ok" => failed)
  BY DEF Honest
<1>fetch. ASSUME \/ \E v \in Values : EvalString(v)
                 \/ \E s \in Values : \E i \in DOMAIN Elems[s] : Get(s, i) \/ GetIdx(s, i)
          PROVE  Honest'
  <2>1. \A s \in Values : \A i \in DOMAIN Elems[s] : Elems[s][i] \in Values
    BY ValuesType
  <2> QED
    BY <1>fetch, <2>1, FetchKeeps DEF EvalString, Get, GetIdx
<1>items. ASSUME NextItem \/ NextElem PROVE Honest'
  <2>1. Current \in Values
    BY <1>items, CurrentIsValue DEF NextItem, NextElem
  <2> QED
    BY <1>items, <2>1, FetchKeeps DEF NextItem, NextElem
<1>clone. ASSUME NEW v \in Values, CloneTerm(v) PROVE Honest'
  <2>1. held' \in [Values -> Nat] /\ refs' = held'
    BY <1>clone, <1>0 DEF CloneTerm, Incref
  <2> QED
    BY <1>clone, <1>0, <2>1, EndKeeps DEF CloneTerm
<1>drop. ASSUME NEW v \in Values, DropTerm(v) PROVE Honest'
  <2>1. held[v] > 0 /\ held[v] \in Nat
    BY <1>drop, <1>0 DEF DropTerm, Movable
  <2>2. held' \in [Values -> Nat] /\ refs' = held'
    BY <1>drop, <1>0, <2>1 DEF DropTerm, Decref
  <2> QED
    BY <1>drop, <1>0, <2>2, EndKeeps DEF DropTerm
<1>call. ASSUME NEW f \in Values, NEW v \in Values, CallWith(f, v) PROVE Honest'
  <2> DEFINE res == Apply[f][v]
  <2>1. res \in Values /\ (Kind[v] = "scalar" \/ held[v] > 0)
    BY <1>call, ValuesType, ArgumentHeld DEF CallWith
  <2>2. ctx' # "ok" => failed
    BY <1>call, <1>0 DEF CallWith, Converted
  <2> HIDE DEF res
  <2>3. ASSUME refs' = Without(ToNix(Incref(refs, res), res), v),
               held' = Without(Wrapped(held, res), v), End("ok", FALSE)
        PROVE  Honest'
    <3>1. Wrapped(held, res) \in [Values -> Nat]
          /\ ToNix(Incref(refs, res), res) = Wrapped(held, res)
      BY <1>0, <2>1, ReceiveCounts
    <3>2. Kind[v] = "scalar" \/ Wrapped(held, res)[v] > 0
      BY <1>0, <2>1 DEF Wrapped
    <3>3. held' \in [Values -> Nat] /\ refs' = held'
      BY <2>3, <3>1, <3>2, WithoutCounts
    <3> QED
      BY <2>2, <2>3, <3>3, EndKeeps
  <2>4. ASSUME refs' = Without(refs, v), held' = Without(held, v), End("err", TRUE)
        PROVE  Honest'
    <3>1. held' \in [Values -> Nat] /\ refs' = held'
      BY <1>0, <2>1, <2>4, WithoutCounts
    <3> QED
      BY <2>2, <2>4, <3>1, EndKeeps
  <2> QED
    BY <1>call, <2>3, <2>4 DEF CallWith, res
<1>panics. ASSUME NEW f \in Values, NEW v \in Values, CallPanics(f, v) PROVE Honest'
  <2>1. Kind[v] = "scalar" \/ held[v] > 0
    BY <1>panics, ArgumentHeld DEF CallPanics
  <2>2. failed /\ ctx' = ctx /\ End("panic", FALSE)
    BY <1>panics, <1>0 DEF CallPanics, Stale
  <2>3. held' \in [Values -> Nat] /\ refs' = held'
    BY <1>panics, <1>0, <2>1, WithoutCounts DEF CallPanics
  <2> QED
    BY <2>2, <2>3, EndKeeps
<1>insert. ASSUME NEW v \in Values, Insert(v) PROVE Honest'
  <2>1. Kind[v] = "scalar" \/ held[v] > 0
    BY <1>insert, ArgumentHeld DEF Insert
  <2>2. held' \in [Values -> Nat] /\ refs' = held'
    BY <1>insert, <1>0, <2>1, WithoutCounts DEF Insert
  <2>3. CASE Stale(v)
    <3>1. failed /\ ctx' = ctx /\ End("panic", FALSE)
      BY <1>insert, <1>0, <2>3 DEF Insert, Stale
    <3> QED
      BY <2>2, <3>1, EndKeeps
  <2>4. CASE ~Stale(v)
    <3>1. ctx' = "ok" /\ End("ok", FALSE)
      BY <1>insert, <2>4 DEF Insert
    <3> QED
      BY <2>2, <3>1, EndKeeps
  <2> QED
    BY <2>3, <2>4
<1>fails. ASSUME UNCHANGED <<refs, held>>,
                 \E out \in {"err", "panic", "undefined"} : End(out, TRUE)
          PROVE  Honest'
  <2>1. held' \in [Values -> Nat] /\ refs' = held'
    BY <1>fails, <1>0
  <2> QED
    BY <1>fails, <2>1, EndKeeps
<1>errs. ASSUME \/ \E s \in Values : GetMissing(s) \/ GetIdxOutside(s) \/ CallRefused(s)
                \/ InsertFails \/ StoreStringInvalid \/ Refuse
         PROVE  Honest'
  <2>1. UNCHANGED <<refs, held>> /\ \E out \in {"err", "panic", "undefined"} : End(out, TRUE)
    BY <1>errs DEF GetMissing, GetIdxOutside, CallRefused, InsertFails, StoreStringInvalid, Refuse
  <2> QED
    BY <1>fails, <2>1
<1>either. ASSUME StoreCall \/ \E s \in Values : Realise(s) PROVE Honest'
  <2>1. UNCHANGED <<refs, held>>
    BY <1>either DEF StoreCall, Realise
  <2>2. CASE \E out \in {"err", "undefined"} : End(out, TRUE)
    BY <1>fails, <2>1, <2>2
  <2>3. CASE ctx' = "ok" /\ End("ok", FALSE)
    BY <1>0, <2>1, <2>3, EndKeeps
  <2> QED
    BY <1>either, <2>2, <2>3 DEF StoreCall, Realise
<1>path. ASSUME NEW s \in Values, NEW i \in DOMAIN Elems[s], GetAttrs(s, i) PROVE Honest'
  <2>1. \A c \in Values : \A j \in DOMAIN Elems[c] : Elems[c][j] \in Values
    BY ValuesType
  <2>2. CASE End("err", TRUE) /\ UNCHANGED <<refs, held>>
    BY <1>fails, <2>2
  <2>3. CASE \E v \in Values : Fetch(v)
    BY <2>3, FetchKeeps
  <2> QED
    BY <1>path, <2>1, <2>2, <2>3 DEF GetAttrs
<1>all. ASSUME NEW c \in Values, AsList(c) \/ Repr(c) PROVE Honest'
  <2>1. CASE StopAtFailure(c)
    BY <1>fails, <2>1 DEF StopAtFailure
  <2>2. CASE NoneFails(c) /\ (ReceiveAll(c) \/ UNCHANGED <<refs, held>>)
    <3>1. held' \in [Values -> Nat] /\ refs' = held'
      BY <1>0, <2>2, ReceiveAllCounts
    <3> QED
      BY <2>2, <3>1, EndKeeps DEF NoneFails
  <2> QED
    BY <1>all, <2>1, <2>2 DEF AsList, Repr
<1>map. ASSUME NEW s \in Values, AsHashmap(s) PROVE Honest'
  <2>1. held' \in [Values -> Nat] /\ refs' = held'
    BY <1>map, ReceiveAllCounts DEF AsHashmap
  <2>2. Elems[s] # <<>> => Len(Elems[s]) \in DOMAIN Elems[s]
    BY ValuesType
  <2>3. ctx' # "ok" => failed'
    BY <1>map, <2>2 DEF AsHashmap, ErrorAfter, Fails, Failing
  <2>4. last'.out = "ok" /\ last'.failed = FALSE
    BY <1>map DEF AsHashmap
  <2> QED
    BY <2>1, <2>3, <2>4 DEF Honest, OutcomeIsOwn, HealthyNeverPanics
<1>plain. ASSUME \/ \E c \in Values : Length(c)
                 \/ \E c \in Values, kind \in {"list", "names", "items"} : StartIter(c, kind)
                 \/ NextName \/ EndIter
                 \/ \E kind \in {"list", "attrs"} : StartBuild(kind)
                 \/ FinishBuild
          PROVE  Honest'
  <2>1. held' \in [Values -> Nat] /\ refs' = held' /\ (ctx' # "ok" => failed)
        /\ End("ok", FALSE)
    BY <1>plain, <1>0 DEF Length, StartIter, NextName, EndIter, StartBuild, FinishBuild
  <2> QED
    BY <2>1, EndKeeps
<1>stay. ASSUME UNCHANGED vars PROVE Honest'
  BY <1>stay DEF Honest, vars, OutcomeIsOwn, HealthyNeverPanics
<1> QED
  BY <1>fetch, <1>items, <1>clone, <1>drop, <1>call, <1>panics, <1>insert, <1>errs, <1>plain,
     <1>either, <1>path, <1>all, <1>map, <1>stay
  DEF Next, Stopped, FileUnreadable, TypeMismatch, NotOfType, EmptyPath, CollectFails

----------------------------------------------------------------------------
(* Types.                                                                  *)

\* No more terms are held than the bound, and one that an iterator borrows is.
HeldBounds ==
  \A v \in Values : held[v] <= MaxHeld /\ (Iterating(v) => held[v] > 0)

\* What a step must not do to the terms that are held.
HeldMove(v) == held'[v] <= MaxHeld /\ (Iterating(v) => held'[v] > 0)

\* An iterator goes on with the term that it has borrowed, or ends.
LEMMA IterGoesOn ==
  ASSUME HeldBounds, \A v \in Values : HeldMove(v),
         UNCHANGED iter \/ iter' = NoIter \/ \E out : iter \in Iters /\ Yield(out)
  PROVE  HeldBounds'
<1>1. CASE UNCHANGED iter
  BY <1>1 DEF HeldBounds, HeldMove, Iterating
<1>2. CASE iter' = NoIter
  BY <1>2 DEF HeldBounds, HeldMove, Iterating, NoIter
<1>3. ASSUME NEW out, iter \in Iters, Yield(out) PROVE HeldBounds'
  <2>1. iter'.kind = iter.kind /\ iter'.on = iter.on
    BY <1>3 DEF Yield, Iters
  <2> QED
    BY <2>1 DEF HeldBounds, HeldMove, Iterating
<1> QED
  BY <1>1, <1>2, <1>3

\* A term is received when there is room for it.
LEMMA ReceiveMoves ==
  ASSUME Honest, HeldBounds, NEW c \in Values, Receive(c), NEW v \in Values
  PROVE  HeldMove(v)
<1>1. held \in [Values -> Nat] /\ held[c] < MaxHeld /\ held' = Wrapped(held, c)
  BY DEF Honest, Receive
<1>2. held'[v] = held[v] \/ (v = c /\ held'[v] = held[v] + 1)
  BY <1>1 DEF Wrapped
<1>3. held[v] \in Nat /\ held[v] <= MaxHeld /\ (Iterating(v) => held[v] > 0) /\ MaxHeld \in Nat
  BY <1>1, BoundsType DEF HeldBounds
<1> QED
  BY <1>1, <1>2, <1>3 DEF HeldMove

\* Forcing a value, too, takes one term at most.
LEMMA FetchMoves ==
  ASSUME Honest, HeldBounds, NEW c \in Values, Fetch(c) \/ FetchElem(c), NEW v \in Values
  PROVE  HeldMove(v)
<1>1. CASE Receive(c)
  BY <1>1, ReceiveMoves
<1>2. CASE UNCHANGED held
  BY <1>2 DEF HeldBounds, HeldMove
<1> QED
  BY <1>1, <1>2 DEF Fetch, FetchElem

\* A term is moved only if no iterator borrows it.
LEMMA WithoutMoves ==
  ASSUME Honest, HeldBounds, NEW a \in Values, Argument(a), NEW h \in [Values -> Nat],
         \A v \in Values : h[v] >= held[v] /\ h[v] <= MaxHeld, held' = Without(h, a), NEW v \in Values
  PROVE  HeldMove(v)
<1>1. held[v] \in Nat /\ h[v] \in Nat /\ held[v] <= h[v] /\ h[v] <= MaxHeld /\ MaxHeld \in Nat
  BY BoundsType DEF Honest
<1>2. Iterating(v) => held[v] > 0
  BY DEF HeldBounds
<1>3. CASE held'[v] = h[v]
  BY <1>1, <1>2, <1>3 DEF HeldMove
<1>4. CASE v = a /\ Kind[a] # "scalar" /\ held'[v] = h[v] - 1
  <2>1. Iterating(v) => held[v] > 1
    BY <1>4 DEF Argument, Movable
  <2> QED
    BY <1>1, <1>4, <2>1 DEF HeldMove
<1> QED
  BY <1>3, <1>4 DEF Without, Decref

\* No step drops what an iterator borrows, or takes more than there is room for.
LEMMA HeldStep == Honest /\ Located /\ HeldBounds /\ [Next]_vars => HeldBounds'
<1> SUFFICES ASSUME Honest, Located, HeldBounds, [Next]_vars PROVE HeldBounds'
  OBVIOUS
<1>0. held \in [Values -> Nat] /\ MaxHeld \in Nat
  BY BoundsType DEF Honest
<1>same. ASSUME UNCHANGED held PROVE \A v \in Values : HeldMove(v)
  BY <1>same DEF HeldBounds, HeldMove
<1>elems. \A c \in Values : \A i \in DOMAIN Elems[c] : Elems[c][i] \in Values
  BY ValuesType
<1>fetch. ASSUME \/ \E v \in Values : EvalString(v)
                 \/ \E c \in Values : \E i \in DOMAIN Elems[c] : Get(c, i) \/ GetIdx(c, i)
          PROVE  HeldBounds'
  <2>1. UNCHANGED iter
    BY <1>fetch DEF EvalString, Get, GetIdx
  <2>2. \A v \in Values : HeldMove(v)
    BY <1>fetch, <1>elems, FetchMoves DEF EvalString, Get, GetIdx
  <2> QED
    BY <2>1, <2>2, IterGoesOn
<1>path. ASSUME NEW s \in Values, NEW i \in DOMAIN Elems[s], GetAttrs(s, i) PROVE HeldBounds'
  <2>1. CASE UNCHANGED held
    BY <1>path, <1>same, <2>1, IterGoesOn DEF GetAttrs
  <2>2. CASE \E c \in Values : Fetch(c)
    <3>1. \A v \in Values : HeldMove(v)
      BY <2>2, FetchMoves
    <3> QED
      BY <1>path, <3>1, IterGoesOn DEF GetAttrs
  <2> QED
    BY <1>path, <1>elems, <2>1, <2>2 DEF GetAttrs
<1>items. ASSUME NextItem \/ NextElem PROVE HeldBounds'
  <2>1. iter \in Iters /\ Current \in Values
    BY <1>items, CurrentIsValue DEF NextItem, NextElem
  <2>2. \A v \in Values : HeldMove(v)
    BY <1>items, <2>1, FetchMoves DEF NextItem, NextElem
  <2>3. UNCHANGED iter \/ \E out : Yield(out)
    BY <1>items DEF NextItem, NextElem
  <2> QED
    BY <2>1, <2>2, <2>3, IterGoesOn
<1>name. ASSUME NextName PROVE HeldBounds'
  <2>1. iter \in Iters
    BY <1>name, CurrentIsValue DEF NextName
  <2>2. UNCHANGED held /\ Yield("ok")
    BY <1>name DEF NextName
  <2> QED
    BY <1>same, <2>1, <2>2, IterGoesOn
<1>start. ASSUME NEW c \in Values, NEW kind \in {"list", "names", "items"}, StartIter(c, kind)
          PROVE  HeldBounds'
  <2>1. held[c] > 0 /\ UNCHANGED held /\ iter'.on = c
    BY <1>start DEF StartIter, Has
  <2> QED
    BY <2>1 DEF HeldBounds, Iterating
<1>clone. ASSUME NEW c \in Values, CloneTerm(c) PROVE HeldBounds'
  <2>1. held[c] \in 1..(MaxHeld - 1) /\ held' = [held EXCEPT ![c] = @ + 1] /\ UNCHANGED iter
    BY <1>clone DEF CloneTerm
  <2>2. ASSUME NEW v \in Values PROVE HeldMove(v)
    <3>1. held[v] \in Nat /\ held[v] <= MaxHeld /\ (Iterating(v) => held[v] > 0)
      BY <1>0 DEF HeldBounds
    <3>2. held'[v] = IF v = c THEN held[c] + 1 ELSE held[v]
      BY <1>0, <2>1
    <3> QED
      BY <1>0, <2>1, <3>1, <3>2 DEF HeldMove
  <2> QED
    BY <2>1, <2>2, IterGoesOn
<1>drop. ASSUME NEW c \in Values, DropTerm(c) PROVE HeldBounds'
  <2>1. Movable(c) /\ held' = [held EXCEPT ![c] = @ - 1] /\ UNCHANGED iter
    BY <1>drop DEF DropTerm
  <2>2. ASSUME NEW v \in Values PROVE HeldMove(v)
    <3>1. held[v] \in Nat /\ held[v] <= MaxHeld /\ (Iterating(v) => held[v] > 0)
      BY <1>0 DEF HeldBounds
    <3>2. held'[v] = IF v = c THEN held[c] - 1 ELSE held[v]
      BY <1>0, <2>1
    <3>3. Iterating(c) => held[c] > 1
      BY <2>1 DEF Movable
    <3> QED
      BY <1>0, <3>1, <3>2, <3>3 DEF HeldMove
  <2> QED
    BY <2>1, <2>2, IterGoesOn
<1>call. ASSUME NEW f \in Values, NEW a \in Values, CallWith(f, a) \/ CallPanics(f, a)
         PROVE  HeldBounds'
  <2> DEFINE res == Apply[f][a]
  <2>0. res \in Values
    BY ValuesType
  <2>1. Argument(a) /\ UNCHANGED iter
    BY <1>call DEF CallWith, CallPanics
  <2> HIDE DEF res
  <2>2. CASE held' = Without(held, a)
    <3>1. \A v \in Values : held[v] >= held[v] /\ held[v] <= MaxHeld
      BY <1>0 DEF HeldBounds
    <3>2. \A v \in Values : HeldMove(v)
      BY <1>0, <2>1, <2>2, <3>1, WithoutMoves
    <3> QED
      BY <2>1, <3>2, IterGoesOn
  <2>3. CASE held[res] < MaxHeld /\ held' = Without(Wrapped(held, res), a)
    <3> DEFINE h == Wrapped(held, res)
    <3>1. h \in [Values -> Nat]
      BY <1>0, <2>0 DEF Wrapped
    <3>2. ASSUME NEW v \in Values PROVE h[v] >= held[v] /\ h[v] <= MaxHeld
      <4>1. held[v] \in Nat /\ held[v] <= MaxHeld
        BY <1>0 DEF HeldBounds
      <4>2. h[v] = held[v] \/ (v = res /\ h[v] = held[v] + 1)
        BY <1>0, <2>0 DEF Wrapped
      <4> QED
        BY <1>0, <2>3, <4>1, <4>2
    <3>3. held' = Without(h, a)
      BY <2>3
    <3> HIDE DEF h
    <3>4. \A v \in Values : HeldMove(v)
      BY <2>1, <3>1, <3>2, <3>3, WithoutMoves
    <3> QED
      BY <2>1, <3>4, IterGoesOn
  <2> QED
    BY <1>call, <2>2, <2>3 DEF CallWith, CallPanics, res
<1>insert. ASSUME NEW a \in Values, Insert(a) PROVE HeldBounds'
  <2>1. Argument(a) /\ held' = Without(held, a) /\ UNCHANGED iter
    BY <1>insert DEF Insert
  <2>2. \A v \in Values : held[v] >= held[v] /\ held[v] <= MaxHeld
    BY <1>0 DEF HeldBounds
  <2>3. \A v \in Values : HeldMove(v)
    BY <1>0, <2>1, <2>2, WithoutMoves
  <2> QED
    BY <2>1, <2>3, IterGoesOn
<1>all. ASSUME NEW c \in Values, AsList(c) \/ Repr(c) \/ AsHashmap(c) PROVE HeldBounds'
  <2>1. UNCHANGED iter
    BY <1>all DEF AsList, Repr, AsHashmap
  <2>2. CASE UNCHANGED held
    BY <1>same, <2>1, <2>2, IterGoesOn
  <2>3. CASE ReceiveAll(c)
    <3>1. \A v \in Values : held'[v] = held[v] + Added(c)[v] /\ held[v] + Added(c)[v] <= MaxHeld
      BY <2>3 DEF ReceiveAll
    <3>2. \A v \in Values : held'[v] \in Nat
      BY <2>3, ReceiveAllCounts
    <3>3. ASSUME NEW v \in Values PROVE Added(c)[v] \in Nat
      BY AddedCounts
    <3>4. ASSUME NEW v \in Values PROVE HeldMove(v)
      <4>1. held[v] \in Nat /\ (Iterating(v) => held[v] > 0)
        BY <1>0 DEF HeldBounds
      <4> QED
        BY <3>1, <3>3, <4>1 DEF HeldMove
    <3> QED
      BY <2>1, <3>4, IterGoesOn
  <2> QED
    BY <1>all, <2>2, <2>3 DEF AsList, Repr, AsHashmap, StopAtFailure
<1>others. ASSUME \/ \E v \in Values : \/ GetMissing(v) \/ Realise(v) \/ GetIdxOutside(v)
                                       \/ Length(v) \/ CallRefused(v)
                  \/ \E kind \in {"list", "attrs"} : StartBuild(kind)
                  \/ InsertFails \/ FinishBuild \/ StoreCall \/ StoreStringInvalid
                  \/ Refuse \/ EndIter \/ UNCHANGED vars
           PROVE  HeldBounds'
  <2>1. UNCHANGED held /\ (UNCHANGED iter \/ iter' = NoIter)
    BY <1>others DEF GetMissing, Realise, GetIdxOutside, Length, CallRefused, StartBuild,
       InsertFails, FinishBuild, StoreCall, StoreStringInvalid, Refuse, EndIter, vars
  <2> QED
    BY <1>same, <2>1, IterGoesOn
<1> QED
  BY <1>fetch, <1>path, <1>items, <1>name, <1>start, <1>clone, <1>drop, <1>call, <1>insert,
     <1>all, <1>others
  DEF Next, Stopped, FileUnreadable, TypeMismatch, NotOfType, EmptyPath, CollectFails

\* Contexts, builders and outcomes have their types.
Typed ==
  /\ ctx \in {"ok", "key", "nix"}
  /\ build \in [kind : {"none", "list", "attrs"}, items : 0..MaxItems]
  /\ last \in [out : {"ok", "err", "panic", "undefined"}, failed : BOOLEAN]
  /\ failed \in BOOLEAN

\* An operation ends in one of four ways.
LEMMA EndTyped ==
  ASSUME Typed, NEW out \in {"ok", "err", "panic", "undefined"}, NEW fails \in BOOLEAN,
         End(out, fails), ctx' \in {"ok", "key", "nix"},
         UNCHANGED build \/ build' \in [kind : {"none", "list", "attrs"}, items : 0..MaxItems]
  PROVE  Typed'
  BY DEF Typed, End

\* A value that is forced is handed out, as an error, or the list panics.
LEMMA FetchTyped ==
  ASSUME Typed, NEW v, Fetch(v) \/ FetchElem(v), UNCHANGED build
  PROVE  Typed' /\ last'.out \in {"ok", "err", "panic"}
<1>1. ctx' \in {"ok", "key", "nix"}
  BY DEF Fetch, FetchElem
<1>2. End("ok", FALSE) \/ End("err", TRUE) \/ End("panic", TRUE)
  BY DEF Fetch, FetchElem
<1>3. Typed'
  BY <1>1, <1>2, EndTyped
<1>4. last'.out \in {"ok", "err", "panic"}
  BY <1>2 DEF End
<1> QED
  BY <1>3, <1>4

\* Every operation leaves the context, the builder and its outcome typed.
LEMMA TypedStep == Typed /\ Located /\ [Next]_vars => Typed'
<1> SUFFICES ASSUME Typed, Located, [Next]_vars PROVE Typed'
  OBVIOUS
<1>0. /\ ctx \in {"ok", "key", "nix"} /\ failed \in BOOLEAN
      /\ build \in [kind : {"none", "list", "attrs"}, items : 0..MaxItems]
      /\ NoBuild \in [kind : {"none", "list", "attrs"}, items : 0..MaxItems]
  BY BoundsType DEF Typed, NoBuild
<1>ends. ASSUME \E out \in {"ok", "err", "panic", "undefined"}, fails \in BOOLEAN : End(out, fails),
                ctx' \in {"ok", "key", "nix"},
                UNCHANGED build \/ build' \in [kind : {"none", "list", "attrs"}, items : 0..MaxItems]
         PROVE  Typed'
  BY <1>ends, EndTyped
<1>fetch. ASSUME NEW v \in Values, EvalString(v) PROVE Typed'
  BY <1>fetch, FetchTyped DEF EvalString
<1>get. ASSUME NEW c \in Values, NEW i \in DOMAIN Elems[c], Get(c, i) \/ GetIdx(c, i) PROVE Typed'
  BY <1>get, FetchTyped DEF Get, GetIdx
<1>items. ASSUME NextItem \/ NextElem PROVE Typed'
  BY <1>items, FetchTyped DEF NextItem, NextElem
<1>path. ASSUME NEW s \in Values, NEW i \in DOMAIN Elems[s], GetAttrs(s, i) PROVE Typed'
  <2>1. UNCHANGED build
    BY <1>path DEF GetAttrs
  <2>2. CASE \E v : Fetch(v)
    BY <2>1, <2>2, FetchTyped
  <2>3. CASE End("err", TRUE) /\ ctx' \in {"ok", "key", "nix"}
    BY <1>ends, <2>1, <2>3
  <2> QED
    BY <1>path, <2>2, <2>3 DEF GetAttrs
<1>call. ASSUME NEW f \in Values, NEW v \in Values, CallWith(f, v) \/ CallPanics(f, v) PROVE Typed'
  <2>1. UNCHANGED build /\ ctx' \in {"ok", "key", "nix"}
    BY <1>call, <1>0 DEF CallWith, CallPanics, Converted
  <2>2. End("ok", FALSE) \/ End("err", TRUE) \/ End("panic", FALSE)
    BY <1>call DEF CallWith, CallPanics
  <2> QED
    BY <1>ends, <2>1, <2>2
<1>all. ASSUME NEW c \in Values, AsList(c) \/ Repr(c) PROVE Typed'
  <2>1. UNCHANGED build /\ ctx' \in {"ok", "key", "nix"}
    BY <1>all DEF AsList, Repr, StopAtFailure, NoneFails, ErrorAfter
  <2>2. End("ok", FALSE) \/ End("err", TRUE) \/ End("panic", TRUE)
    BY <1>all DEF AsList, Repr, StopAtFailure, NoneFails
  <2> QED
    BY <1>ends, <2>1, <2>2
<1>map. ASSUME NEW s \in Values, AsHashmap(s) PROVE Typed'
  <2>1. UNCHANGED build /\ ctx' \in {"ok", "key", "nix"}
    BY <1>map DEF AsHashmap, ErrorAfter
  <2>2. last' = [out |-> "ok", failed |-> FALSE] /\ failed' \in BOOLEAN
    BY <1>map DEF AsHashmap
  <2> QED
    BY <1>0, <2>1, <2>2 DEF Typed
<1>insert. ASSUME NEW v \in Values, Insert(v) PROVE Typed'
  <2>1. build' = NoBuild \/ build' = [build EXCEPT !.items = @ + 1]
    BY <1>insert DEF Insert
  <2>2. build.items \in Nat /\ build.items < MaxItems
    BY <1>insert, <1>0 DEF Insert
  <2>3. build' \in [kind : {"none", "list", "attrs"}, items : 0..MaxItems]
    BY <1>0, <2>1, <2>2, BoundsType
  <2>4. ctx' \in {"ok", "key", "nix"} /\ (End("ok", FALSE) \/ End("panic", FALSE))
    BY <1>insert, <1>0 DEF Insert
  <2> QED
    BY <1>ends, <2>3, <2>4
<1>builds. ASSUME InsertFails \/ FinishBuild \/ \E kind \in {"list", "attrs"} : StartBuild(kind)
           PROVE  Typed'
  <2>1. build' \in [kind : {"none", "list", "attrs"}, items : 0..MaxItems]
    <3>1. 0 \in 0..MaxItems
      BY BoundsType
    <3>2. build' = NoBuild \/ \E kind \in {"list", "attrs"} : build' = [kind |-> kind, items |-> 0]
      BY <1>builds DEF InsertFails, FinishBuild, StartBuild
    <3> QED
      BY <1>0, <3>1, <3>2
  <2>2. ctx' \in {"ok", "key", "nix"} /\ (End("ok", FALSE) \/ End("err", TRUE))
    BY <1>builds, <1>0 DEF InsertFails, FinishBuild, StartBuild
  <2> QED
    BY <1>ends, <2>1, <2>2
<1>terms. ASSUME \E v \in Values : CloneTerm(v) \/ DropTerm(v) PROVE Typed'
  <2>1. UNCHANGED <<ctx, build>> /\ End("ok", FALSE)
    BY <1>terms DEF CloneTerm, DropTerm
  <2> QED
    BY <1>ends, <1>0, <2>1
<1>outside. ASSUME NEW v \in Values, GetIdxOutside(v) PROVE Typed'
  BY <1>ends, <1>outside DEF GetIdxOutside
<1>reads. ASSUME \/ \E v \in Values : GetMissing(v) \/ Realise(v) \/ Length(v) \/ CallRefused(v)
                 \/ \E c \in Values, kind \in {"list", "names", "items"} : StartIter(c, kind)
                 \/ NextName \/ EndIter \/ StoreCall \/ StoreStringInvalid \/ Refuse
          PROVE  Typed'
  <2>1. UNCHANGED build /\ ctx' \in {"ok", "key", "nix"}
    BY <1>reads, <1>0 DEF GetMissing, Realise, Length, CallRefused, StartIter, NextName, EndIter,
       StoreCall, StoreStringInvalid, Refuse
  <2>2. End("ok", FALSE) \/ End("err", TRUE) \/ End("undefined", TRUE)
    BY <1>reads DEF GetMissing, Realise, Length, CallRefused, StartIter, NextName, EndIter,
       StoreCall, StoreStringInvalid, Refuse
  <2> QED
    BY <1>ends, <2>1, <2>2
<1>stay. ASSUME UNCHANGED vars PROVE Typed'
  BY <1>stay DEF Typed, vars
<1> QED
  BY <1>fetch, <1>get, <1>items, <1>path, <1>call, <1>all, <1>map, <1>insert, <1>builds, <1>terms,
     <1>outside, <1>reads, <1>stay
  DEF Next, Stopped, FileUnreadable, TypeMismatch, NotOfType, EmptyPath, CollectFails

----------------------------------------------------------------------------
(* The theorems.                                                           *)

\* The inductive invariants hold throughout.
LEMMA Invariants == Spec => [](Honest /\ Located /\ IterationFaithful)
<1>1. Init => Honest /\ Located /\ IterationFaithful
  BY HonestStart, IterStart
<1>2. Honest /\ Located /\ IterationFaithful /\ [Next]_vars
      => (Honest /\ Located /\ IterationFaithful)'
  BY HonestStep, IterStep
<1> QED
  BY <1>1, <1>2, PTL DEF Spec

\* Every reference taken from the C API belongs to one term that is held, on
\* every path through the operations, errors and panics included.
THEOREM ReferencesMatch == Spec => []RefsMatchHandles
<1>1. Honest => RefsMatchHandles
  BY DEF Honest, RefsMatchHandles
<1> QED
  BY <1>1, Invariants, PTL

\* A result or an error is the operation's own: the error that an earlier
\* operation left in store.ctx is never returned by a later one.
THEOREM OutcomesAreOwn == Spec => []OutcomeIsOwn
<1>1. Honest => OutcomeIsOwn
  BY DEF Honest
<1> QED
  BY <1>1, Invariants, PTL

\* As long as nothing has failed, nothing panics and nothing is undefined.
THEOREM HealthyPanicsNever == Spec => []HealthyNeverPanics
<1>1. Honest => HealthyNeverPanics
  BY DEF Honest
<1> QED
  BY <1>1, Invariants, PTL

\* Iterators yield every item once and in order, whatever runs in between.
THEOREM IterationIsFaithful == Spec => []IterationFaithful
  BY Invariants, PTL

\* Every variable has its type, no more terms are held or referenced than there
\* is room for, and a term is held as long as an iterator borrows it: no operation
\* between two of its items drops or moves that term.
THEOREM TypeCorrect == Spec => []TypeOK
<1>1. Init => HeldBounds /\ Typed
  <2> SUFFICES ASSUME Init PROVE HeldBounds /\ Typed
    OBVIOUS
  <2>1. MaxHeld \in Nat /\ 0 \in 0..MaxItems
    BY BoundsType
  <2>2. \A v \in Values : held[v] = 0 /\ ~Iterating(v)
    BY DEF Init, Iterating, NoIter
  <2>3. HeldBounds
    BY <2>1, <2>2 DEF HeldBounds
  <2>4. Typed
    BY <2>1 DEF Init, Typed, NoBuild
  <2> QED
    BY <2>3, <2>4
<1>2. Honest /\ Located /\ HeldBounds /\ Typed /\ [Next]_vars => (HeldBounds /\ Typed)'
  BY HeldStep, TypedStep
<1>3. Honest /\ Located /\ HeldBounds /\ Typed => TypeOK
  <2> SUFFICES ASSUME Honest, Located, HeldBounds, Typed PROVE TypeOK
    OBVIOUS
  <2>1. held \in [Values -> 0..MaxHeld] /\ refs \in [Values -> 0..MaxHeld]
    <3>1. \A v \in Values : held[v] \in 0..MaxHeld
      BY BoundsType DEF Honest, HeldBounds
    <3> QED
      BY <3>1 DEF Honest
  <2>2. \/ iter = NoIter
        \/ iter \in Iters /\ iter.idx <= iter.len /\ held[iter.on] > 0
    <3>1. ASSUME iter \in Iters PROVE held[iter.on] > 0
      <4>1. iter.on \in Values /\ iter.kind # "none"
        BY <3>1 DEF Iters
      <4> QED
        BY <4>1 DEF HeldBounds, Iterating
    <3> QED
      BY <3>1 DEF Located
  <2> QED
    BY <2>1, <2>2 DEF TypeOK, Typed
<1> QED
  BY <1>1, <1>2, <1>3, Invariants, PTL DEF Spec
=============================================================================
