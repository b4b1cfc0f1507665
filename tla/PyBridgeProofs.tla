--------------------------- MODULE PyBridgeProofs ---------------------------
(***************************************************************************)
(* Theorems about PyBridge, for any number of threads, wrappers, arguments *)
(* and nested calls.                                                       *)
(***************************************************************************)
EXTENDS PyBridge, TLAPS, SequenceTheorems, FiniteSetTheorems

\* An error in store.ctx is that of a call that failed, and so is whatever made
\* a thread panic or poisoned a mutex.
Caused == PanicsNeedFailure /\ (ctx # "ok" => failed)

\* The operations that finish in one step.
LEMMA UseKeeps ==
  ASSUME Caused, NEW t \in Threads, Use(t)
  PROVE  Caused'
<1>ends. ASSUME Succeeds \/ UNCHANGED <<ctx, failed, panicked, poisoned>> PROVE Caused'
  BY <1>ends DEF Caused, PanicsNeedFailure, Succeeds, Quiet
<1>fails. ASSUME failed' PROVE Caused'
  BY <1>fails DEF Caused, PanicsNeedFailure
<1>with. ASSUME NEW locked, FailsWith(t, locked) PROVE Caused'
  BY <1>with, <1>fails DEF FailsWith
<1>1. CASE \E o \in Objects : Block(t, o) \/ CallPoisoned(t, o)
  BY <1>1, <1>ends DEF Block, CallPoisoned
<1>2. CASE \E o \in Objects, args \in Arguments : Call(t, o, args)
  BY <1>2, <1>ends DEF Call
<1>3. ASSUME NEW o \in Objects,
             UseAttrSet(t, o) \/ UseList(t, o) \/ UseStore(t, o) \/ UseEvaluator(t, o)
               \/ UseListIterator(t, o) \/ UseIterator(t, o) \/ UseRealised(t, o)
      PROVE  Caused'
  <2>1. Succeeds \/ FailsWith(t, {o}) \/ UNCHANGED <<ctx, failed, panicked, poisoned>>
          \/ failed'
    BY <1>3 DEF UseAttrSet, UseList, UseStore, UseEvaluator, UseListIterator, UseIterator,
                UseRealised
  <2> QED
    BY <2>1, <1>ends, <1>fails, <1>with
<1>4. ASSUME NEW o \in Objects, NEW destination \in Objects, CopyClosure(t, o, destination)
      PROVE  Caused'
  <2>1. CASE destination \in poisoned /\ UNCHANGED failed
    BY <2>1, <1>fails DEF Caused, PanicsNeedFailure
  <2>2. Succeeds \/ FailsWith(t, {o}) \/ FailsWith(t, {o, destination})
          \/ (destination \in poisoned /\ UNCHANGED failed)
    BY <1>4 DEF CopyClosure
  <2> QED
    BY <2>1, <2>2, <1>ends, <1>with
<1>5. ASSUME NEW o \in Objects, Poisoned(t, o) PROVE Caused'
  BY <1>5, <1>fails DEF Poisoned, Caused, PanicsNeedFailure
<1>6. CASE Shorten(t)
  BY <1>6, <1>ends DEF Shorten
<1> QED
  BY <1>1, <1>2, <1>3, <1>4, <1>5, <1>6 DEF Use

\* The steps of a call.
LEMMA CallKeeps ==
  ASSUME Caused, NEW t \in Threads, Step(t) \/ LeaveCallback(t)
  PROVE  Caused'
<1>plain. ASSUME Converted(t) \/ FailCall(t) PROVE Caused'
  BY <1>plain DEF Converted, FailCall, Caused, PanicsNeedFailure
<1>fails. ASSUME failed' PROVE Caused'
  BY <1>fails DEF Caused, PanicsNeedFailure
<1>panic. ASSUME UNCHANGED failed, ctx # "ok" \/ panicked # {} \/ poisoned # {} PROVE Caused'
  BY <1>panic DEF Caused, PanicsNeedFailure
<1>1. CASE ConvertPlain(t) \/ ConvertForeign(t)
  BY <1>1, <1>plain DEF ConvertPlain, ConvertForeign
<1>2. CASE EnterCallback(t) \/ ConvertBlocks(t) \/ Return(t)
  BY <1>2 DEF EnterCallback, ConvertBlocks, Return, Caused, PanicsNeedFailure
<1>3. CASE ConvertWrapper(t)
  BY <1>3, <1>plain, <1>panic DEF ConvertWrapper
<1>4. CASE Apply(t)
  <2>1. UNCHANGED ctx /\ (failed' \/ UNCHANGED <<failed, panicked, poisoned>>)
    BY <1>4 DEF Apply, Quiet
  <2> QED
    BY <2>1, <1>fails DEF Caused, PanicsNeedFailure
<1>5. CASE LeaveCallback(t)
  BY <1>5, <1>plain, <1>panic DEF LeaveCallback
<1>6. CASE ConvertNul(t)
  BY <1>6, <1>fails DEF ConvertNul
<1> QED
  BY <1>1, <1>2, <1>3, <1>4, <1>5, <1>6 DEF Step

\* No thread panics and no mutex is poisoned unless a call has failed by itself
\* before, in that thread or in another one.
THEOREM PanicsAreCaused == Spec => []PanicsNeedFailure
<1>1. Init => Caused
  BY DEF Init, Caused, PanicsNeedFailure
<1>2. Caused /\ [Next]_vars => Caused'
  <2> SUFFICES ASSUME Caused, [Next]_vars PROVE Caused'
    OBVIOUS
  <2>1. ASSUME NEW t \in Threads, Use(t) PROVE Caused'
    BY <2>1, UseKeeps
  <2>2. ASSUME NEW t \in Threads, Step(t) \/ LeaveCallback(t) PROVE Caused'
    BY <2>2, CallKeeps
  <2>3. CASE Still \/ UNCHANGED vars \/ \E t \in Threads : Switch(t)
    BY <2>3 DEF Still, Switch, vars, Caused, PanicsNeedFailure
  <2> QED
    BY <2>1, <2>2, <2>3 DEF Next
<1>3. Caused => PanicsNeedFailure
  BY DEF Caused
<1> QED
  BY <1>1, <1>2, <1>3, PTL DEF Spec

----------------------------------------------------------------------------
(* Locks, poison and arguments: the inductive invariant.                   *)

NoBuilder(items) == \A k \in DOMAIN items : items[k] # "builder"

\* The items of the argument that is being converted are those in the builder
\* and those still to come, unless somebody has shortened the list.
Filling(f, shortened) ==
  \/ /\ f.items # <<>> /\ Head(f.items) = "builder" /\ NoBuilder(Tail(f.items))
     /\ Len(f.items) = Len(Head(f.args).items) + 1
  \/ /\ NoBuilder(f.items)
     /\ \/ f.filled + Len(f.items) = Len(Head(f.args).items)
        \/ Head(f.args).is = "list" /\ shortened

FrameOK(f, shortened) ==
  /\ f \in Frames
  /\ f.at # "blocked" => Kind[f.fn] = "function"
  /\ f.at = "callback" => f.items # <<>> /\ Head(f.items) = "custom"
  /\ f.args = <<>> => f.items = <<>>
  /\ f.args # <<>> => Filling(f, shortened)

\* Every frame is in order.  A thread that waits for a mutex is the one that has the
\* GIL, and the wait is all that it does; only a wait is deeper than MaxDepth.
StacksOK ==
  /\ stack \in [Threads -> Seq(Frames)]
  /\ \A t \in Threads : \A i \in 1..Len(stack[t]) :
       /\ FrameOK(stack[t][i], resized)
       /\ stack[t][i].at = "blocked" => t = gil /\ i = Len(stack[t])
  /\ \A t \in Threads :
       \/ Len(stack[t]) <= MaxDepth
       \/ Len(stack[t]) = MaxDepth + 1 /\ stack[t][Len(stack[t])].at = "blocked"

\* A call holds the mutex of its function and no two calls hold the same; a
\* mutex that is held is that of a call, or of a store in a hung interpreter.
LocksOK ==
  /\ \A t \in Threads : \A i \in 1..Len(stack[t]) :
       stack[t][i].at # "blocked" => owner[stack[t][i].fn] = t
  /\ \A t \in Threads : \A i, j \in 1..Len(stack[t]) :
       stack[t][i].at # "blocked" /\ stack[t][j].at # "blocked"
         /\ stack[t][i].fn = stack[t][j].fn => i = j
  /\ \A o \in Objects : Kind[o] = "function" /\ owner[o] # Free =>
       \E i \in 1..Len(stack[owner[o]]) :
         stack[owner[o]][i].fn = o /\ stack[owner[o]][i].at # "blocked"
  /\ \A o \in Objects :
       Kind[o] # "function" /\ owner[o] # Free => Kind[o] = "store" /\ Hung

ScalarsOK ==
  /\ gil \in Threads
  /\ owner \in [Objects -> Threads \cup {Free}]
  /\ poisoned \subseteq Objects
  /\ ctx \in {"ok", "nix"}
  /\ ops \in 0..MaxOps
  /\ failed \in BOOLEAN
  /\ panicked \subseteq Threads
  /\ resized \in BOOLEAN

IInv ==
  /\ ScalarsOK
  /\ StacksOK
  /\ LocksOK
  /\ PoisonKeepsOut
  /\ ArgumentsWhole
----------------------------------------------------------------------------
(* Facts about sequences, frames and stacks.                               *)

\* The last element of a sequence and what is in front of it.
LEMMA FrontLast ==
  ASSUME NEW S, NEW s \in Seq(S), s # <<>>
  PROVE  /\ Len(s) \in Nat \ {0}
         /\ Last(s) = s[Len(s)] /\ Last(s) \in S
         /\ Front(s) \in Seq(S) /\ Len(Front(s)) = Len(s) - 1
         /\ \A i \in 1..(Len(s) - 1) : Front(s)[i] = s[i]
<1> DEFINE n == Len(s) - 1
<1>1. n \in Nat /\ n \in Int /\ 1 \in Int /\ \A i \in 1..n : s[i] \in S
  OBVIOUS
<1>2. /\ SubSeq(s, 1, n) \in Seq(S)
      /\ Len(SubSeq(s, 1, n)) = IF 1 <= n THEN n - 1 + 1 ELSE 0
      /\ \A i \in 1..(n - 1 + 1) : SubSeq(s, 1, n)[i] = s[1 + i - 1]
  BY <1>1, SubSeqProperties
<1>3. Front(s) = SubSeq(s, 1, n)
  BY DEF Front
<1> HIDE DEF n
<1>4. Front(s) \in Seq(S) /\ Len(Front(s)) = n /\ \A i \in 1..n : Front(s)[i] = s[i]
  BY <1>1, <1>2, <1>3
<1> QED
  BY <1>1, <1>4 DEF Last, n

\* A call that starts on a list of arguments.
LEMMA ItemsOfFilling ==
  ASSUME NEW f, NEW shortened \in BOOLEAN,
         f.args \in Seq(ArgumentTypes), f.filled = 0, f.items = ItemsOf(f.args)
  PROVE  /\ f.items \in Seq(Leaves \cup Terms \cup {"builder"})
         /\ f.args = <<>> => f.items = <<>>
         /\ f.args # <<>> => Filling(f, shortened)
<1>1. CASE f.args = <<>>
  BY <1>1 DEF ItemsOf
<1>2. CASE f.args # <<>>
  <2> DEFINE its == Head(f.args).items
  <2>1. Head(f.args) \in ArgumentTypes
    BY <1>2
  <2>2. its \in Seq(Leaves \cup Terms) /\ its \in Seq(Leaves \cup Terms \cup {"builder"})
    BY <2>1 DEF ArgumentTypes
  <2>3. "builder" \notin Leaves \cup Terms
    BY LeavesType, ObjectsAreNotLeaves DEF Terms
  <2>4. NoBuilder(its)
    BY <2>2, <2>3 DEF NoBuilder
  <2> HIDE DEF its
  <2>5. CASE Head(f.args).is = "item"
    <3>1. f.items = its
      BY <1>2, <2>5 DEF ItemsOf, its
    <3> QED
      BY <1>2, <2>2, <2>4, <3>1 DEF Filling, its
  <2>6. CASE Head(f.args).is # "item"
    <3>1. f.items = <<"builder">> \o its
      BY <1>2, <2>6 DEF ItemsOf, its
    <3>2. /\ f.items \in Seq(Leaves \cup Terms \cup {"builder"}) /\ f.items # <<>>
          /\ Head(f.items) = "builder" /\ Tail(f.items) = its /\ Len(f.items) = Len(its) + 1
      BY <2>2, <3>1
    <3> QED
      BY <1>2, <2>4, <3>2 DEF Filling, its
  <2> QED
    BY <2>5, <2>6
<1> QED
  BY <1>1, <1>2

\* A frame whose next item has been converted.
LEMMA ConvertedFrame ==
  ASSUME NEW f, NEW shortened \in BOOLEAN, FrameOK(f, shortened),
         f.at # "blocked", f.items # <<>>
  PROVE  LET g == [f EXCEPT !.items = Tail(@), !.at = "ready",
                            !.filled = IF Head(f.items) = "builder" THEN 0 ELSE @ + 1]
         IN  FrameOK(g, shortened) /\ g.fn = f.fn /\ g.at = "ready"
<1> DEFINE filled == IF Head(f.items) = "builder" THEN 0 ELSE f.filled + 1
           g == [f EXCEPT !.items = Tail(@), !.at = "ready",
                          !.filled = IF Head(f.items) = "builder" THEN 0 ELSE @ + 1]
<1>1. /\ f \in Frames /\ f.args # <<>> /\ Kind[f.fn] = "function"
      /\ Filling(f, shortened)
  BY DEF FrameOK
<1>2. /\ f.items \in Seq(Leaves \cup Terms \cup {"builder"}) /\ f.filled \in Nat
      /\ f.args \in Seq(ArgumentTypes) /\ f.fn \in Objects
  BY <1>1 DEF Frames
<1>3. g = [f EXCEPT !.items = Tail(f.items), !.at = "ready", !.filled = filled]
  BY <1>1 DEF Frames
<1> HIDE DEF filled
<1>4. Tail(f.items) \in Seq(Leaves \cup Terms \cup {"builder"}) /\ filled \in Nat
  BY <1>2 DEF filled
<1>5. g \in Frames /\ g.fn = f.fn /\ g.args = f.args /\ g.items = Tail(f.items)
      /\ g.filled = filled /\ g.at = "ready"
  BY <1>1, <1>3, <1>4 DEF Frames
<1> HIDE DEF g
<1>6. Len(Head(f.args).items) \in Nat
  BY <1>1, <1>2 DEF ArgumentTypes
<1>7. /\ Len(Tail(f.items)) = Len(f.items) - 1 /\ Len(f.items) \in Nat
      /\ \A k \in DOMAIN Tail(f.items) : k + 1 \in DOMAIN f.items /\ Tail(f.items)[k] = f.items[k + 1]
      /\ Head(f.items) = f.items[1] /\ 1 \in DOMAIN f.items
  BY <1>2
<1>8. ASSUME Head(f.items) = "builder" PROVE FrameOK(g, shortened)
  <2>1. NoBuilder(Tail(f.items)) /\ Len(f.items) = Len(Head(f.args).items) + 1
    BY <1>1, <1>7, <1>8 DEF Filling, NoBuilder
  <2>2. g.filled + Len(g.items) = Len(Head(g.args).items)
    BY <1>5, <1>6, <1>7, <1>8, <2>1 DEF filled
  <2> QED
    BY <1>1, <1>5, <2>1, <2>2 DEF FrameOK, Filling
<1>9. ASSUME Head(f.items) # "builder" PROVE FrameOK(g, shortened)
  <2>1. /\ NoBuilder(f.items)
        /\ \/ f.filled + Len(f.items) = Len(Head(f.args).items)
           \/ Head(f.args).is = "list" /\ shortened
    BY <1>1, <1>9 DEF Filling
  <2>2. NoBuilder(Tail(f.items))
    BY <1>7, <2>1 DEF NoBuilder
  <2>3. g.filled + Len(g.items) = f.filled + Len(f.items)
    BY <1>2, <1>5, <1>7, <1>9 DEF filled
  <2> QED
    BY <1>1, <1>5, <2>1, <2>2, <2>3 DEF FrameOK, Filling
<1>10. FrameOK(g, shortened) /\ g.fn = f.fn /\ g.at = "ready"
  BY <1>5, <1>8, <1>9
<1> QED
  BY <1>10 DEF g

\* A frame that goes on to its next argument.
LEMMA AppliedFrame ==
  ASSUME NEW f, NEW shortened \in BOOLEAN, FrameOK(f, shortened),
         f.at = "ready", f.args # <<>>
  PROVE  LET rest == Tail(f.args)
             g == [f EXCEPT !.args = rest, !.items = ItemsOf(rest), !.filled = 0]
         IN  FrameOK(g, shortened) /\ g.fn = f.fn /\ g.at = "ready"
<1> DEFINE rest == Tail(f.args)
           g == [f EXCEPT !.args = rest, !.items = ItemsOf(rest), !.filled = 0]
<1>1. f \in Frames /\ Kind[f.fn] = "function"
  BY DEF FrameOK
<1>2. rest \in Seq(ArgumentTypes) /\ f.fn \in Objects
  BY <1>1 DEF Frames
<1>3. g.fn = f.fn /\ g.args = rest /\ g.items = ItemsOf(rest) /\ g.filled = 0 /\ g.at = "ready"
  BY <1>1 DEF Frames
<1>4. ItemsOf(rest) \in Seq(Leaves \cup Terms \cup {"builder"}) => g \in Frames
  <2> HIDE DEF rest
  <2> QED
    BY <1>1, <1>2 DEF Frames
<1> HIDE DEF g, rest
<1>5. /\ g.items \in Seq(Leaves \cup Terms \cup {"builder"})
      /\ g.args = <<>> => g.items = <<>>
      /\ g.args # <<>> => Filling(g, shortened)
  BY <1>2, <1>3, ItemsOfFilling
<1>6. g \in Frames
  BY <1>3, <1>4, <1>5
<1> QED
  BY <1>1, <1>3, <1>5, <1>6 DEF FrameOK, g, rest

\* A frame whose item runs Python code.
LEMMA CallbackFrame ==
  ASSUME NEW f, NEW shortened \in BOOLEAN, FrameOK(f, shortened),
         f.at = "ready", f.items # <<>>, Head(f.items) = "custom"
  PROVE  LET g == [f EXCEPT !.at = "callback"]
         IN  FrameOK(g, shortened) /\ g.fn = f.fn /\ g.at = "callback"
<1> DEFINE g == [f EXCEPT !.at = "callback"]
<1>1. f \in Frames
  BY DEF FrameOK
<1>2. g \in Frames /\ g.fn = f.fn /\ g.args = f.args /\ g.items = f.items
      /\ g.filled = f.filled /\ g.at = "callback"
  BY <1>1 DEF Frames
<1> HIDE DEF g
<1> QED
  BY <1>2 DEF FrameOK, Filling, g

\* A list that somebody has shortened.
LEMMA ShortenedFrame ==
  ASSUME NEW f, NEW shortened \in BOOLEAN, FrameOK(f, shortened),
         f.at = "callback", Head(f.args).is = "list", Len(f.items) > 1
  PROVE  LET g == [f EXCEPT !.items = Front(@)]
         IN  FrameOK(g, TRUE) /\ g.fn = f.fn /\ g.at = f.at
<1> DEFINE g == [f EXCEPT !.items = Front(@)]
<1>1. f \in Frames /\ f.items # <<>> /\ Head(f.items) = "custom" /\ Kind[f.fn] = "function"
  BY DEF FrameOK
<1>2. f.items \in Seq(Leaves \cup Terms \cup {"builder"})
  BY <1>1 DEF Frames
<1>3. /\ Front(f.items) \in Seq(Leaves \cup Terms \cup {"builder"})
      /\ Len(Front(f.items)) = Len(f.items) - 1
      /\ \A i \in 1..(Len(f.items) - 1) : Front(f.items)[i] = f.items[i]
  BY <1>1, <1>2, FrontLast
<1>4. g \in Frames /\ g.fn = f.fn /\ g.args = f.args /\ g.items = Front(f.items)
      /\ g.filled = f.filled /\ g.at = f.at
  BY <1>1, <1>3 DEF Frames
<1> HIDE DEF g
<1>5. NoBuilder(f.items) /\ f.args # <<>>
  BY <1>1 DEF FrameOK, Filling
<1>6. NoBuilder(Front(f.items)) /\ Front(f.items) # <<>> /\ Head(Front(f.items)) = "custom"
  BY <1>1, <1>2, <1>3, <1>5 DEF NoBuilder
<1> QED
  BY <1>1, <1>4, <1>5, <1>6 DEF FrameOK, Filling, g

\* The three ways in which an operation changes the stack of its thread.
LEMMA Pushed ==
  ASSUME stack \in [Threads -> Seq(Frames)], NEW t \in Threads, NEW frame \in Frames,
         Push(t, frame)
  PROVE  /\ stack' \in [Threads -> Seq(Frames)]
         /\ Len(stack'[t]) = Len(stack[t]) + 1
         /\ \A i \in 1..Len(stack[t]) : stack'[t][i] = stack[t][i]
         /\ stack'[t][Len(stack[t]) + 1] = frame
         /\ \A u \in Threads \ {t} : stack'[u] = stack[u]
<1>1. stack[t] \in Seq(Frames)
  OBVIOUS
<1>2. stack'[t] = Append(stack[t], frame) /\ \A u \in Threads \ {t} : stack'[u] = stack[u]
  BY DEF Push
<1>3. stack' \in [Threads -> Seq(Frames)]
  BY <1>1 DEF Push
<1> QED
  BY <1>1, <1>2, <1>3

\* The innermost call of a thread is replaced, and nothing below it.
LEMMA Replaced ==
  ASSUME stack \in [Threads -> Seq(Frames)], NEW t \in Threads, NEW frame \in Frames,
         Busy(t), Replace(t, frame)
  PROVE  /\ stack' \in [Threads -> Seq(Frames)]
         /\ Len(stack'[t]) = Len(stack[t])
         /\ \A i \in 1..(Len(stack[t]) - 1) : stack'[t][i] = stack[t][i]
         /\ stack'[t][Len(stack[t])] = frame
         /\ \A u \in Threads \ {t} : stack'[u] = stack[u]
<1>1. stack[t] \in Seq(Frames) /\ stack[t] # <<>>
  BY DEF Busy
<1>2. /\ Len(stack[t]) \in Nat \ {0}
      /\ Front(stack[t]) \in Seq(Frames) /\ Len(Front(stack[t])) = Len(stack[t]) - 1
      /\ \A i \in 1..(Len(stack[t]) - 1) : Front(stack[t])[i] = stack[t][i]
  BY <1>1, FrontLast
<1>3. stack'[t] = Append(Front(stack[t]), frame) /\ \A u \in Threads \ {t} : stack'[u] = stack[u]
  BY DEF Replace
<1>4. stack' \in [Threads -> Seq(Frames)]
  BY <1>2 DEF Replace
<1> QED
  BY <1>1, <1>2, <1>3, <1>4

\* The innermost call of a thread is gone, and nothing below it.
LEMMA Popped ==
  ASSUME stack \in [Threads -> Seq(Frames)], NEW t \in Threads, Busy(t), EndCall(t)
  PROVE  /\ stack' \in [Threads -> Seq(Frames)]
         /\ Len(stack'[t]) = Len(stack[t]) - 1
         /\ \A i \in 1..(Len(stack[t]) - 1) : stack'[t][i] = stack[t][i]
         /\ \A u \in Threads \ {t} : stack'[u] = stack[u]
<1>1. stack[t] \in Seq(Frames) /\ stack[t] # <<>>
  BY DEF Busy
<1>2. /\ Len(stack[t]) \in Nat \ {0}
      /\ Front(stack[t]) \in Seq(Frames) /\ Len(Front(stack[t])) = Len(stack[t]) - 1
      /\ \A i \in 1..(Len(stack[t]) - 1) : Front(stack[t])[i] = stack[t][i]
  BY <1>1, FrontLast
<1>3. stack'[t] = Front(stack[t]) /\ \A u \in Threads \ {t} : stack'[u] = stack[u]
  BY DEF EndCall
<1>4. stack' \in [Threads -> Seq(Frames)]
  BY <1>2 DEF EndCall
<1> QED
  BY <1>1, <1>2, <1>3, <1>4

\* The innermost call of a busy thread.
LEMMA TopFrame ==
  ASSUME StacksOK, NEW t \in Threads, Busy(t)
  PROVE  /\ Len(stack[t]) \in Nat \ {0} /\ Len(stack[t]) \in 1..Len(stack[t])
         /\ Top(t) = stack[t][Len(stack[t])] /\ FrameOK(Top(t), resized)
<1>1. stack[t] \in Seq(Frames) /\ stack[t] # <<>>
  BY DEF StacksOK, Busy
<1>2. Len(stack[t]) \in Nat \ {0} /\ Top(t) = stack[t][Len(stack[t])]
  BY <1>1, FrontLast DEF Top
<1> QED
  BY <1>2 DEF StacksOK

----------------------------------------------------------------------------
(* An interpreter that hangs, and one that does not.                       *)

\* Nothing happens once the thread with the GIL waits for a mutex.
LEMMA HungStays ==
  ASSUME Hung, [Next]_vars
  PROVE  UNCHANGED vars
<1>1. Busy(gil) /\ Top(gil).at = "blocked"
  BY DEF Hung
<1>2. ~InPython(gil)
  BY <1>1 DEF InPython
<1>3. ASSUME NEW t \in Threads PROVE ~Switch(t) /\ ~Begin(t) /\ ~LeaveCallback(t)
  BY <1>1, <1>2 DEF Switch, Begin, LeaveCallback, At
<1>4. ASSUME NEW t \in Threads PROVE ~Use(t)
  BY <1>3 DEF Use, Block, Poisoned, UseAttrSet, UseList, UseEvaluator, UseStore, CopyClosure,
             UseListIterator, UseIterator, UseRealised, CallPoisoned, Shorten, Call
<1>5. ASSUME NEW t \in Threads PROVE ~Step(t)
  BY <1>1 DEF Step, ConvertPlain, ConvertForeign, ConvertNul, EnterCallback, ConvertWrapper,
             ConvertBlocks, Apply, Return, Converting, At
<1> QED
  BY <1>3, <1>4, <1>5 DEF Next, Still

\* Otherwise no thread waits, and only functions are locked.
LEMMA NoneWaits ==
  ASSUME IInv, ~Hung
  PROVE  /\ \A t \in Threads : \A i \in 1..Len(stack[t]) : stack[t][i].at # "blocked"
         /\ \A t \in Threads : Len(stack[t]) <= MaxDepth
         /\ \A o \in Objects : Kind[o] # "function" => owner[o] = Free
<1>1. ASSUME NEW t \in Threads, NEW i \in 1..Len(stack[t]), stack[t][i].at = "blocked"
      PROVE  FALSE
  <2>1. t = gil /\ i = Len(stack[t]) /\ stack[t] \in Seq(Frames)
    BY <1>1 DEF IInv, StacksOK
  <2>2. Busy(gil) /\ Top(gil) = stack[gil][i]
    BY <2>1 DEF Busy, Top, Last
  <2> QED
    BY <1>1, <2>1, <2>2 DEF Hung
<1>2. ASSUME NEW t \in Threads PROVE Len(stack[t]) <= MaxDepth
  <2>1. stack[t] \in Seq(Frames)
    BY DEF IInv, StacksOK
  <2> QED
    BY <1>1, <2>1, BoundsType DEF IInv, StacksOK
<1> QED
  BY <1>1, <1>2 DEF IInv, LocksOK

\* Unless the GIL is lost for good every call holds the lock of its own function, once.
LEMMA CallsHold ==
  ASSUME IInv, ~Hung, NEW u \in Threads, NEW i \in 1..Len(stack[u])
  PROVE  /\ stack[u][i].fn \in Objects /\ Kind[stack[u][i].fn] = "function"
         /\ stack[u][i].at # "blocked" /\ owner[stack[u][i].fn] = u
         /\ \A j \in 1..Len(stack[u]) : stack[u][i].fn = stack[u][j].fn => i = j
<1>1. \A j \in 1..Len(stack[u]) : stack[u][j].at # "blocked"
  BY NoneWaits
<1>2. FrameOK(stack[u][i], resized)
  BY DEF IInv, StacksOK
<1>3. stack[u][i].fn \in Objects /\ Kind[stack[u][i].fn] = "function"
  BY <1>1, <1>2 DEF FrameOK, Frames
<1>4. owner[stack[u][i].fn] = u
  BY <1>1 DEF IInv, LocksOK
<1>5. \A j \in 1..Len(stack[u]) : stack[u][i].fn = stack[u][j].fn => i = j
  BY <1>1 DEF IInv, LocksOK
<1> QED
  BY <1>1, <1>3, <1>4, <1>5

----------------------------------------------------------------------------
(* The steps by what they do to calls and locks, and that each keeps the   *)
(* invariant.                                                              *)

\* A panic poisons only mutexes that nobody holds any more.
PoisonsFree == \A o \in poisoned' : o \in poisoned \/ owner'[o] = Free

\* The calls go on: each keeps its function, and none begins to wait.
GoesOn ==
  /\ stack' \in [Threads -> Seq(Frames)]
  /\ \A u \in Threads : /\ Len(stack'[u]) = Len(stack[u])
                        /\ \A i \in 1..Len(stack[u]) :
                             /\ FrameOK(stack'[u][i], resized')
                             /\ stack'[u][i].fn = stack[u][i].fn
                             /\ stack'[u][i].at # "blocked"
  /\ UNCHANGED owner

\* t waits, for a mutex that is held or for one that it has just locked.
Waits(t) ==
  /\ gil = t
  /\ \E o \in Objects :
       /\ Push(t, [fn |-> o, args |-> <<>>, items |-> <<>>, filled |-> 0, at |-> "blocked"])
       /\ \/ UNCHANGED owner
          \/ Kind[o] = "store" /\ Unlocked(o) /\ owner' = [owner EXCEPT ![o] = t]
  /\ UNCHANGED <<gil, poisoned, resized>>

\* The innermost call of t is over.
Ends(t) ==
  /\ Busy(t)
  /\ EndCall(t)
  /\ poisoned' \subseteq poisoned \cup {Top(t).fn}
  /\ UNCHANGED <<gil, resized>>

\* A call that only gets on with its arguments disturbs no lock.
LEMMA GoesOnKeeps ==
  ASSUME IInv, ~Hung, GoesOn
  PROVE  StacksOK' /\ LocksOK'
<1>1. /\ \A t \in Threads : Len(stack'[t]) <= MaxDepth
      /\ \A t \in Threads : \A i \in 1..Len(stack'[t]) :
           FrameOK(stack'[t][i], resized') /\ stack'[t][i].at # "blocked"
  BY NoneWaits DEF GoesOn
<1>2. StacksOK'
  BY <1>1 DEF GoesOn, StacksOK
<1>3. \A t \in Threads : \A i \in 1..Len(stack'[t]) : owner'[stack'[t][i].fn] = t
  BY NoneWaits DEF GoesOn, IInv, LocksOK
<1>4. \A t \in Threads : \A i, j \in 1..Len(stack'[t]) :
        stack'[t][i].fn = stack'[t][j].fn => i = j
  BY NoneWaits DEF GoesOn, IInv, LocksOK
<1>5. ASSUME NEW o \in Objects, Kind[o] = "function", owner'[o] # Free
      PROVE  \E i \in 1..Len(stack'[owner'[o]]) :
               stack'[owner'[o]][i].fn = o /\ stack'[owner'[o]][i].at # "blocked"
  <2>1. owner'[o] = owner[o] /\ owner[o] \in Threads
    BY <1>5 DEF GoesOn, IInv, ScalarsOK
  <2> QED
    BY <1>5, <2>1 DEF GoesOn, IInv, LocksOK
<1>6. \A o \in Objects : Kind[o] # "function" => owner'[o] = Free
  BY NoneWaits DEF GoesOn
<1> QED
  BY <1>2, <1>3, <1>4, <1>5, <1>6 DEF LocksOK

\* A thread that finds a mutex taken waits for it on top of its stack.
LEMMA WaitsKeeps ==
  ASSUME IInv, ~Hung, NEW t \in Threads, Waits(t)
  PROVE  StacksOK' /\ LocksOK'
<1> DEFINE n == Len(stack[t])
<1>1. PICK o \in Objects :
        /\ Push(t, [fn |-> o, args |-> <<>>, items |-> <<>>, filled |-> 0, at |-> "blocked"])
        /\ \/ UNCHANGED owner
           \/ Kind[o] = "store" /\ Unlocked(o) /\ owner' = [owner EXCEPT ![o] = t]
  BY DEF Waits
<1> DEFINE frame == [fn |-> o, args |-> <<>>, items |-> <<>>, filled |-> 0, at |-> "blocked"]
<1>2. frame \in Frames /\ frame.fn = o /\ frame.at = "blocked" /\ frame.args = <<>> /\ frame.items = <<>>
  BY DEF Frames
<1>3. FrameOK(frame, resized)
  BY <1>2 DEF FrameOK
<1> HIDE DEF frame
<1>4. /\ stack' \in [Threads -> Seq(Frames)] /\ Len(stack'[t]) = n + 1 /\ n \in Nat
      /\ \A i \in 1..n : stack'[t][i] = stack[t][i]
      /\ stack'[t][n + 1] = frame
      /\ \A u \in Threads \ {t} : stack'[u] = stack[u]
  BY <1>1, <1>2, Pushed DEF IInv, StacksOK, frame
<1>5. gil = t /\ UNCHANGED <<gil, resized>>
  BY DEF Waits
<1>6. \A u \in Threads : \A i \in 1..Len(stack'[u]) :
        \/ u = t /\ i = n + 1
        \/ i \in 1..Len(stack[u]) /\ stack'[u][i] = stack[u][i]
  BY <1>4
<1> HIDE DEF n
<1>7. StacksOK'
  <2>1. \A u \in Threads : \A i \in 1..Len(stack'[u]) :
          /\ FrameOK(stack'[u][i], resized')
          /\ stack'[u][i].at = "blocked" => u = gil' /\ i = Len(stack'[u])
    BY <1>3, <1>4, <1>5, <1>6, NoneWaits DEF IInv, StacksOK
  <2>2. \A u \in Threads : \/ Len(stack'[u]) <= MaxDepth
                           \/ /\ Len(stack'[u]) = MaxDepth + 1
                              /\ stack'[u][Len(stack'[u])].at = "blocked"
    BY <1>2, <1>4, NoneWaits, BoundsType DEF n
  <2> QED
    BY <1>4, <2>1, <2>2 DEF StacksOK
<1>8. Hung'
  <2>1. stack'[t] \in Seq(Frames) /\ stack'[t] # <<>>
    BY <1>4
  <2> QED
    BY <1>2, <1>4, <1>5, <2>1 DEF Hung, Busy, Top, Last
<1>9. \A x \in Objects : Kind[x] = "function" => owner'[x] = owner[x]
  BY <1>1 DEF IInv, ScalarsOK
<1>10. \A u \in Threads : \A i \in 1..Len(stack[u]) :
         stack[u][i].fn \in Objects /\ Kind[stack[u][i].fn] = "function"
  BY NoneWaits DEF IInv, StacksOK, FrameOK, Frames
<1>11. \A u \in Threads : \A i \in 1..Len(stack'[u]) :
         stack'[u][i].at # "blocked" => owner'[stack'[u][i].fn] = u
  BY <1>2, <1>4, <1>6, <1>9, <1>10 DEF IInv, LocksOK
<1>12. \A u \in Threads : \A i, j \in 1..Len(stack'[u]) :
         stack'[u][i].at # "blocked" /\ stack'[u][j].at # "blocked"
           /\ stack'[u][i].fn = stack'[u][j].fn => i = j
  BY <1>2, <1>4, <1>6 DEF IInv, LocksOK
<1>13. ASSUME NEW x \in Objects, Kind[x] = "function", owner'[x] # Free
       PROVE  \E i \in 1..Len(stack'[owner'[x]]) :
                stack'[owner'[x]][i].fn = x /\ stack'[owner'[x]][i].at # "blocked"
  <2>1. owner'[x] = owner[x] /\ owner[x] \in Threads
    BY <1>9, <1>13 DEF IInv, ScalarsOK
  <2>2. PICK i \in 1..Len(stack[owner[x]]) :
          stack[owner[x]][i].fn = x /\ stack[owner[x]][i].at # "blocked"
    BY <1>13, <2>1 DEF IInv, LocksOK
  <2>3. i \in 1..Len(stack'[owner[x]]) /\ stack'[owner[x]][i] = stack[owner[x]][i]
    <3>1. CASE owner[x] = t
      BY <1>4, <2>2, <3>1 DEF n
    <3>2. CASE owner[x] # t
      BY <1>4, <2>1, <2>2, <3>2
    <3> QED
      BY <3>1, <3>2
  <2> QED
    BY <2>1, <2>2, <2>3
<1>14. \A x \in Objects : Kind[x] # "function" /\ owner'[x] # Free => Kind[x] = "store"
  BY <1>1, NoneWaits DEF IInv, ScalarsOK
<1> QED
  BY <1>7, <1>8, <1>11, <1>12, <1>13, <1>14 DEF LocksOK

\* A call takes the lock of its function, which was free.
LEMMA CallsKeep ==
  ASSUME IInv, ~Hung, NEW t \in Threads, NEW f \in Objects, NEW args \in Arguments,
         Call(t, f, args)
  PROVE  StacksOK' /\ LocksOK'
<1> DEFINE n == Len(stack[t])
           frame == [fn |-> f, args |-> args, items |-> ItemsOf(args), filled |-> 0, at |-> "ready"]
<1>1. /\ gil = t /\ n < MaxDepth /\ Kind[f] = "function" /\ owner[f] = Free
      /\ owner' = [owner EXCEPT ![f] = t]
      /\ Push(t, frame) /\ UNCHANGED <<gil, resized>>
  BY DEF Call, Begin, Unlocked
<1>2. /\ frame.fn = f /\ frame.args = args /\ frame.items = ItemsOf(args)
      /\ frame.filled = 0 /\ frame.at = "ready" /\ args \in Seq(ArgumentTypes)
  BY ArgumentsType
<1>3. ItemsOf(args) \in Seq(Leaves \cup Terms \cup {"builder"}) => frame \in Frames
  BY <1>2 DEF Frames
<1> HIDE DEF frame
<1>4. frame \in Frames /\ FrameOK(frame, resized)
  BY <1>1, <1>2, <1>3, ItemsOfFilling DEF FrameOK, IInv, ScalarsOK
<1>5. /\ stack' \in [Threads -> Seq(Frames)] /\ Len(stack'[t]) = n + 1 /\ n \in Nat
      /\ \A i \in 1..n : stack'[t][i] = stack[t][i]
      /\ stack'[t][n + 1] = frame
      /\ \A u \in Threads \ {t} : stack'[u] = stack[u]
  BY <1>1, <1>4, Pushed DEF IInv, StacksOK
<1>6. \A u \in Threads : \A i \in 1..Len(stack'[u]) :
        \/ u = t /\ i = n + 1
        \/ i \in 1..Len(stack[u]) /\ stack'[u][i] = stack[u][i]
  BY <1>5
<1>7. StacksOK'
  <2>1. \A u \in Threads : \A i \in 1..Len(stack'[u]) :
          FrameOK(stack'[u][i], resized') /\ stack'[u][i].at # "blocked"
    BY <1>1, <1>2, <1>4, <1>5, <1>6, NoneWaits DEF IInv, StacksOK
  <2>2. \A u \in Threads : Len(stack'[u]) <= MaxDepth
    BY <1>1, <1>5, NoneWaits, BoundsType
  <2> QED
    BY <1>5, <2>1, <2>2 DEF StacksOK
<1>8. \A u \in Threads : \A i \in 1..Len(stack[u]) :
        /\ stack[u][i].fn \in Objects /\ stack[u][i].fn # f /\ stack[u][i].at # "blocked"
        /\ owner'[stack[u][i].fn] = u
  <2> SUFFICES ASSUME NEW u \in Threads, NEW i \in 1..Len(stack[u])
               PROVE  /\ stack[u][i].fn \in Objects /\ stack[u][i].fn # f
                      /\ stack[u][i].at # "blocked" /\ owner'[stack[u][i].fn] = u
    OBVIOUS
  <2>1. stack[u][i].fn \in Objects /\ stack[u][i].at # "blocked" /\ owner[stack[u][i].fn] = u
    BY CallsHold
  <2> QED
    BY <1>1, <2>1, FreeIsNobody DEF IInv, ScalarsOK
<1> HIDE DEF n
<1>9. \A u \in Threads : \A i \in 1..Len(stack'[u]) : owner'[stack'[u][i].fn] = u
  <2>1. owner'[f] = t
    BY <1>1 DEF IInv, ScalarsOK
  <2> QED
    BY <1>2, <1>5, <1>6, <1>8, <2>1
<1>10. \A u \in Threads : \A i, j \in 1..Len(stack'[u]) :
         stack'[u][i].fn = stack'[u][j].fn => i = j
  BY <1>2, <1>5, <1>6, <1>8 DEF IInv, LocksOK
<1>11. ASSUME NEW x \in Objects, Kind[x] = "function", owner'[x] # Free
       PROVE  \E i \in 1..Len(stack'[owner'[x]]) :
                stack'[owner'[x]][i].fn = x /\ stack'[owner'[x]][i].at # "blocked"
  <2>1. CASE x = f
    <3>1. owner'[x] = t /\ n + 1 \in 1..Len(stack'[t])
      BY <1>1, <1>5, <2>1 DEF IInv, ScalarsOK
    <3> QED
      BY <1>2, <1>5, <2>1, <3>1
  <2>2. CASE x # f
    <3>1. owner'[x] = owner[x] /\ owner[x] \in Threads
      BY <1>1, <1>11, <2>2 DEF IInv, ScalarsOK
    <3>2. PICK i \in 1..Len(stack[owner[x]]) :
            stack[owner[x]][i].fn = x /\ stack[owner[x]][i].at # "blocked"
      BY <1>11, <3>1 DEF IInv, LocksOK
    <3>3. i \in 1..Len(stack'[owner[x]]) /\ stack'[owner[x]][i] = stack[owner[x]][i]
      <4>1. CASE owner[x] = t
        BY <1>5, <3>2, <4>1 DEF n
      <4>2. CASE owner[x] # t
        BY <1>5, <3>1, <3>2, <4>2
      <4> QED
        BY <4>1, <4>2
    <3> QED
      BY <3>1, <3>2, <3>3
  <2> QED
    BY <2>1, <2>2
<1>12. \A x \in Objects : Kind[x] # "function" => owner'[x] = Free
  BY <1>1, NoneWaits DEF IInv, ScalarsOK
<1> QED
  BY <1>7, <1>9, <1>10, <1>11, <1>12 DEF LocksOK

\* A call that ends, by a panic too, gives back the lock of its function.
LEMMA EndsKeeps ==
  ASSUME IInv, ~Hung, NEW t \in Threads, Ends(t)
  PROVE  StacksOK' /\ LocksOK'
<1> DEFINE n == Len(stack[t])
           f == Top(t).fn
<1>1. /\ Busy(t) /\ EndCall(t) /\ UNCHANGED <<gil, resized>>
      /\ owner' = [owner EXCEPT ![f] = Free]
  BY DEF Ends, EndCall
<1>2. /\ stack' \in [Threads -> Seq(Frames)] /\ Len(stack'[t]) = n - 1
      /\ \A i \in 1..(n - 1) : stack'[t][i] = stack[t][i]
      /\ \A u \in Threads \ {t} : stack'[u] = stack[u]
      /\ n \in Nat \ {0} /\ n \in 1..n
      /\ Top(t) = stack[t][n] /\ FrameOK(Top(t), resized)
  BY <1>1, Popped, TopFrame DEF IInv, StacksOK
<1>3. f \in Objects /\ Kind[f] = "function" /\ owner[f] = t
  BY <1>2, NoneWaits DEF FrameOK, Frames, IInv, LocksOK
<1>4. \A u \in Threads : \A i \in 1..Len(stack'[u]) :
        i \in 1..Len(stack[u]) /\ stack'[u][i] = stack[u][i] /\ (u = t => i # n)
  BY <1>2
<1>5. StacksOK'
  <2>1. \A u \in Threads : \A i \in 1..Len(stack'[u]) :
          FrameOK(stack'[u][i], resized') /\ stack'[u][i].at # "blocked"
    BY <1>1, <1>4, NoneWaits DEF IInv, StacksOK
  <2>2. \A u \in Threads : Len(stack'[u]) <= MaxDepth
    BY <1>2, NoneWaits, BoundsType
  <2> QED
    BY <1>2, <2>1, <2>2 DEF StacksOK
<1>6. ASSUME NEW u \in Threads, NEW i \in 1..Len(stack'[u])
      PROVE  stack'[u][i].fn # f /\ owner'[stack'[u][i].fn] = u
  <2>1. stack[u][i].fn \in Objects /\ stack[u][i].at # "blocked" /\ owner[stack[u][i].fn] = u
        /\ i \in 1..Len(stack[u]) /\ stack'[u][i] = stack[u][i] /\ (u = t => i # n)
    BY <1>4, CallsHold
  <2>2. stack[u][i].fn # f
    <3>1. CASE u = t
      BY <1>2, <2>1, <3>1, CallsHold
    <3>2. CASE u # t
      BY <1>3, <2>1, <3>2
    <3> QED
      BY <3>1, <3>2
  <2> QED
    BY <1>1, <2>1, <2>2 DEF IInv, ScalarsOK
<1>7. \A u \in Threads : \A i, j \in 1..Len(stack'[u]) :
        stack'[u][i].fn = stack'[u][j].fn => i = j
  BY <1>4, NoneWaits DEF IInv, LocksOK
<1>8. ASSUME NEW x \in Objects, Kind[x] = "function", owner'[x] # Free
      PROVE  \E i \in 1..Len(stack'[owner'[x]]) :
               stack'[owner'[x]][i].fn = x /\ stack'[owner'[x]][i].at # "blocked"
  <2>1. x # f /\ owner'[x] = owner[x] /\ owner[x] \in Threads
    BY <1>1, <1>8 DEF IInv, ScalarsOK
  <2>2. PICK i \in 1..Len(stack[owner[x]]) :
          stack[owner[x]][i].fn = x /\ stack[owner[x]][i].at # "blocked"
    BY <1>8, <2>1 DEF IInv, LocksOK
  <2>3. i \in 1..Len(stack'[owner[x]]) /\ stack'[owner[x]][i] = stack[owner[x]][i]
    <3>1. CASE owner[x] = t
      BY <1>2, <2>1, <2>2, <3>1
    <3>2. CASE owner[x] # t
      BY <1>2, <2>1, <2>2, <3>2
    <3> QED
      BY <3>1, <3>2
  <2> QED
    BY <2>1, <2>2, <2>3
<1>9. \A x \in Objects : Kind[x] # "function" => owner'[x] = Free
  BY <1>1, NoneWaits DEF IInv, ScalarsOK
<1> QED
  BY <1>5, <1>6, <1>7, <1>8, <1>9 DEF LocksOK

\* How an operation that is one step ends: it touches no call and no lock.
LEMMA StaysGoesOn ==
  ASSUME IInv, ~Hung, UNCHANGED <<stack, owner, resized>>
  PROVE  GoesOn
  BY NoneWaits DEF GoesOn, IInv, StacksOK

\* The innermost call gets on with its work.
LEMMA ReplaceGoesOn ==
  ASSUME IInv, ~Hung, NEW t \in Threads, Busy(t), NEW frame, Replace(t, frame),
         FrameOK(frame, resized), frame.fn = Top(t).fn, frame.at # "blocked",
         UNCHANGED <<owner, resized>>
  PROVE  GoesOn
<1>1. frame \in Frames
  BY DEF FrameOK
<1>2. /\ stack' \in [Threads -> Seq(Frames)] /\ Len(stack'[t]) = Len(stack[t])
      /\ \A i \in 1..(Len(stack[t]) - 1) : stack'[t][i] = stack[t][i]
      /\ stack'[t][Len(stack[t])] = frame
      /\ \A u \in Threads \ {t} : stack'[u] = stack[u]
  BY <1>1, Replaced DEF IInv, StacksOK
<1>3. Len(stack[t]) \in Nat \ {0} /\ Top(t) = stack[t][Len(stack[t])]
  BY TopFrame DEF IInv
<1>4. \A u \in Threads : \A i \in 1..Len(stack[u]) :
        \/ u = t /\ i = Len(stack[t])
        \/ stack'[u][i] = stack[u][i]
  BY <1>2, <1>3
<1>5. \A u \in Threads : \A i \in 1..Len(stack[u]) :
        FrameOK(stack[u][i], resized) /\ stack[u][i].at # "blocked"
  BY NoneWaits DEF IInv, StacksOK
<1> QED
  BY <1>2, <1>3, <1>4, <1>5 DEF GoesOn

\* A list is shortened while it is converted.
LEMMA ShortenGoesOn ==
  ASSUME IInv, ~Hung, NEW t \in Threads, Shorten(t)
  PROVE  GoesOn /\ resized'
<1>0. PICK u \in Threads : \E k \in DOMAIN stack[u] :
        /\ stack[u][k].at = "callback"
        /\ Head(stack[u][k].args).is = "list"
        /\ Len(stack[u][k].items) > 1
        /\ stack' = [stack EXCEPT ![u][k].items = Front(@)]
  BY DEF Shorten
<1>1. PICK k \in DOMAIN stack[u] :
        /\ stack[u][k].at = "callback"
        /\ Head(stack[u][k].args).is = "list"
        /\ Len(stack[u][k].items) > 1
        /\ stack' = [stack EXCEPT ![u][k].items = Front(@)]
  BY <1>0
<1>2. resized' = TRUE /\ UNCHANGED owner
  BY DEF Shorten
<1>3. stack[u] \in Seq(Frames) /\ k \in 1..Len(stack[u]) /\ stack \in [Threads -> Seq(Frames)]
  BY <1>1 DEF IInv, StacksOK
<1> DEFINE frame == [stack[u][k] EXCEPT !.items = Front(@)]
<1>4. FrameOK(stack[u][k], resized)
  BY <1>3 DEF IInv, StacksOK
<1>5. FrameOK(frame, TRUE) /\ frame.fn = stack[u][k].fn /\ frame.at = stack[u][k].at
  BY <1>1, <1>4, ShortenedFrame DEF IInv, ScalarsOK
<1>6. stack' = [stack EXCEPT ![u] = [stack[u] EXCEPT ![k] = frame]]
  BY <1>1, <1>3 DEF Frames
<1> HIDE DEF frame
<1>7. /\ stack' \in [Threads -> Seq(Frames)] /\ Len(stack'[u]) = Len(stack[u])
      /\ \A i \in 1..Len(stack[u]) : stack'[u][i] = IF i = k THEN frame ELSE stack[u][i]
      /\ \A v \in Threads \ {u} : stack'[v] = stack[v]
  <2>1. frame \in Frames
    BY <1>5 DEF FrameOK
  <2>2. [stack[u] EXCEPT ![k] = frame] \in Seq(Frames)
    BY <1>3, <2>1
  <2> QED
    BY <1>3, <1>6, <2>2
<1>8. \A v \in Threads : \A i \in 1..Len(stack[v]) :
        /\ FrameOK(stack[v][i], resized) /\ stack[v][i].at # "blocked"
        /\ FrameOK(stack[v][i], TRUE)
  <2>1. ASSUME NEW f, FrameOK(f, resized) PROVE FrameOK(f, TRUE)
    BY <2>1 DEF FrameOK, Filling
  <2>2. \A v \in Threads : \A i \in 1..Len(stack[v]) : FrameOK(stack[v][i], resized)
    BY DEF IInv, StacksOK
  <2> QED
    BY <2>1, <2>2, NoneWaits
<1>9. \A v \in Threads : Len(stack'[v]) = Len(stack[v])
  BY <1>7
<1>10. ASSUME NEW v \in Threads, NEW i \in 1..Len(stack[v])
       PROVE  /\ FrameOK(stack'[v][i], TRUE) /\ stack'[v][i].fn = stack[v][i].fn
              /\ stack'[v][i].at # "blocked"
  <2>1. CASE v = u /\ i = k
    BY <1>5, <1>7, <1>8, <2>1
  <2>2. CASE v # u \/ i # k
    BY <1>7, <1>8, <2>2
  <2> QED
    BY <2>1, <2>2
<1> QED
  BY <1>2, <1>7, <1>9, <1>10 DEF GoesOn

----------------------------------------------------------------------------
(* Every operation is one of these.                                        *)

\* The rest of the invariant.
Rest == ScalarsOK' /\ PoisonKeepsOut' /\ ArgumentsWhole'

\* An operation that leaves every argument as it is, and every mutex that is
\* held whole.
LEMMA PlainRest ==
  ASSUME IInv, ScalarsOK', PoisonsFree, unfilled' = unfilled, resized => resized',
         \A o \in poisoned : owner'[o] = Free
  PROVE  Rest
  BY DEF Rest, IInv, PoisonsFree, PoisonKeepsOut, ArgumentsWhole

\* A panic is that of a thread, and poisons wrappers that were locked.
LEMMA PanicScalars ==
  ASSUME ScalarsOK, NEW t \in Threads, NEW locked \in SUBSET Objects, PanicsWith(t, locked)
  PROVE  panicked' \subseteq Threads /\ poisoned' \subseteq Objects
         /\ \A o \in poisoned' : o \in poisoned \/ o \in locked
  BY DEF ScalarsOK, PanicsWith

\* Using a wrapper other than by calling a function.
LEMMA UseKeepsAll ==
  ASSUME IInv, ~Hung, NEW t \in Threads, Use(t)
  PROVE  StacksOK' /\ LocksOK' /\ Rest
<1>1. ScalarsOK
  BY DEF IInv
<1>2. gil = t /\ Len(stack[t]) < MaxDepth /\ ops' \in 0..MaxOps /\ UNCHANGED gil
  <2>1. Begin(t)
    BY DEF Use, Block, Poisoned, UseAttrSet, UseList, UseEvaluator, UseStore, CopyClosure,
           UseListIterator, UseIterator, UseRealised, CallPoisoned, Shorten, Call
  <2>2. UNCHANGED gil
    BY DEF Use, Block, Poisoned, UseAttrSet, UseList, UseEvaluator, UseStore, CopyClosure,
           UseListIterator, UseIterator, UseRealised, CallPoisoned, Shorten, Call, Begin
  <2> QED
    BY <1>1, <2>1, <2>2, BoundsType DEF Begin, ScalarsOK
<1>3. ASSUME NEW locked \in SUBSET Objects, \A o \in locked : Unlocked(o),
             UNCHANGED <<stack, owner, resized, unfilled>>,
             \/ Succeeds \/ FailsWith(t, locked)
             \/ UNCHANGED <<ctx, failed, panicked, poisoned>>
             \/ PanicsWith(t, locked) /\ ctx' \in {"ok", "nix"} /\ failed' \in BOOLEAN
      PROVE  StacksOK' /\ LocksOK' /\ Rest
  <2>1. /\ ctx' \in {"ok", "nix"} /\ failed' \in BOOLEAN
        /\ Quiet \/ PanicsWith(t, locked)
    BY <1>1, <1>3 DEF Succeeds, FailsWith, Quiet, ScalarsOK
  <2>2. /\ panicked' \subseteq Threads /\ poisoned' \subseteq Objects
        /\ \A o \in poisoned' : o \in poisoned \/ o \in locked
    BY <1>1, <2>1, PanicScalars DEF Quiet, ScalarsOK
  <2>3. ScalarsOK' /\ PoisonsFree
    BY <1>1, <1>2, <1>3, <2>1, <2>2 DEF ScalarsOK, PoisonsFree, Unlocked
  <2>4. Rest
    BY <1>3, <2>3, PlainRest DEF IInv, PoisonKeepsOut
  <2> QED
    BY <1>3, <2>4, StaysGoesOn, GoesOnKeeps
<1>4. ASSUME NEW o \in Objects, Block(t, o) PROVE StacksOK' /\ LocksOK' /\ Rest
  <2>1. Waits(t)
    BY <1>4 DEF Block, Waits, Begin
  <2>2. Rest
    BY <1>1, <1>2, <1>4, PlainRest DEF Block, ScalarsOK, PoisonsFree, IInv, PoisonKeepsOut
  <2> QED
    BY <2>1, <2>2, WaitsKeeps
<1>5. ASSUME NEW o \in Objects, Poisoned(t, o) \/ CallPoisoned(t, o)
      PROVE  StacksOK' /\ LocksOK' /\ Rest
  <2>1. /\ UNCHANGED <<stack, owner, resized, unfilled, ctx, failed>>
        /\ PanicsWith(t, {}) \/ UNCHANGED <<panicked, poisoned>>
    BY <1>5 DEF Poisoned, CallPoisoned
  <2> QED
    BY <1>1, <1>3, <2>1 DEF ScalarsOK
<1>6. ASSUME NEW o \in Objects,
             UseAttrSet(t, o) \/ UseList(t, o) \/ UseEvaluator(t, o) \/ UseStore(t, o)
               \/ UseListIterator(t, o) \/ UseIterator(t, o) \/ UseRealised(t, o)
      PROVE  StacksOK' /\ LocksOK' /\ Rest
  <2>1. /\ Unlocked(o) /\ UNCHANGED <<stack, owner, resized, unfilled>>
        /\ \/ Succeeds \/ FailsWith(t, {o})
           \/ UNCHANGED <<ctx, failed, panicked, poisoned>>
           \/ PanicsWith(t, {o}) /\ failed' = TRUE /\ UNCHANGED ctx
    BY <1>6 DEF UseAttrSet, UseList, UseEvaluator, UseStore, UseListIterator, UseIterator,
                UseRealised
  <2>2. {o} \in SUBSET Objects /\ \A x \in {o} : Unlocked(x)
    BY <2>1
  <2>3. \/ Succeeds \/ FailsWith(t, {o})
        \/ UNCHANGED <<ctx, failed, panicked, poisoned>>
        \/ PanicsWith(t, {o}) /\ ctx' \in {"ok", "nix"} /\ failed' \in BOOLEAN
    BY <1>1, <2>1 DEF ScalarsOK
  <2> QED
    BY <1>3, <2>1, <2>2, <2>3
<1>7. ASSUME NEW o \in Objects, NEW destination \in Objects, CopyClosure(t, o, destination)
      PROVE  StacksOK' /\ LocksOK' /\ Rest
  <2>1. Unlocked(o) /\ UNCHANGED <<gil, resized, unfilled>> /\ gil = t /\ Kind[o] = "store"
    BY <1>7 DEF CopyClosure, Begin
  <2>2. CASE FailsWith(t, {o}) /\ UNCHANGED <<stack, owner>>
    BY <1>3, <2>1, <2>2
  <2>3. CASE /\ Unlocked(destination)
             /\ Succeeds \/ FailsWith(t, {o, destination})
             /\ UNCHANGED <<stack, owner>>
    BY <1>3, <2>1, <2>3
  <2>4. CASE ctx' = "ok" /\ PanicsWith(t, {o}) /\ UNCHANGED <<stack, owner, failed>>
    BY <1>1, <1>3, <2>1, <2>4 DEF ScalarsOK
  <2>5. CASE /\ Push(t, [fn |-> o, args |-> <<>>, items |-> <<>>, filled |-> 0, at |-> "blocked"])
             /\ owner' = [owner EXCEPT ![o] = t]
             /\ Succeeds
    <3>1. Waits(t)
      BY <2>1, <2>5 DEF Waits, Succeeds, Quiet
    <3>2. ScalarsOK' /\ PoisonsFree
      BY <1>1, <1>2, <2>1, <2>5 DEF ScalarsOK, Succeeds, Quiet, PoisonsFree
    <3>3. \A x \in poisoned : owner'[x] = Free
      BY <2>1, <2>5 DEF Unlocked, IInv, PoisonKeepsOut, ScalarsOK
    <3> QED
      BY <2>1, <3>1, <3>2, <3>3, PlainRest, WaitsKeeps
  <2> QED
    BY <1>7, <2>2, <2>3, <2>4, <2>5 DEF CopyClosure
<1>8. ASSUME Shorten(t) PROVE StacksOK' /\ LocksOK' /\ Rest
  <2>1. GoesOn /\ resized'
    BY <1>8, ShortenGoesOn
  <2>2. Rest
    BY <1>1, <1>2, <1>8, <2>1, PlainRest
       DEF Shorten, ScalarsOK, PoisonsFree, IInv, PoisonKeepsOut
  <2> QED
    BY <2>1, <2>2, GoesOnKeeps
<1>9. ASSUME NEW f \in Objects, NEW args \in Arguments, Call(t, f, args)
      PROVE  StacksOK' /\ LocksOK' /\ Rest
  <2>1. /\ UNCHANGED <<gil, poisoned, ctx, failed, panicked, resized, unfilled>>
        /\ Unlocked(f) /\ owner' = [owner EXCEPT ![f] = t]
    BY <1>9 DEF Call
  <2>2. ScalarsOK' /\ PoisonsFree /\ \A x \in poisoned : owner'[x] = Free
    BY <1>1, <1>2, <2>1 DEF ScalarsOK, PoisonsFree, Unlocked, IInv, PoisonKeepsOut
  <2> QED
    BY <1>9, <2>1, <2>2, PlainRest, CallsKeep
<1> QED
  BY <1>4, <1>5, <1>6, <1>7, <1>8, <1>9 DEF Use

\* An item is converted.
LEMMA ConvertedKeeps ==
  ASSUME IInv, ~Hung, NEW t \in Threads, Busy(t), Top(t).items # <<>>, Converted(t)
  PROVE  StacksOK' /\ LocksOK' /\ Rest
<1> DEFINE frame == [Top(t) EXCEPT !.items = Tail(@), !.at = "ready",
                                   !.filled = IF Item(t) = "builder" THEN 0 ELSE @ + 1]
<1>1. FrameOK(Top(t), resized) /\ Top(t).at # "blocked"
  BY TopFrame, NoneWaits DEF IInv
<1>2. FrameOK(frame, resized) /\ frame.fn = Top(t).fn /\ frame.at = "ready"
  BY <1>1, ConvertedFrame DEF Item, IInv, ScalarsOK
<1> HIDE DEF frame
<1>3. Replace(t, frame) /\ ctx' = "ok"
      /\ UNCHANGED <<gil, owner, poisoned, ops, failed, panicked, resized, unfilled>>
  BY DEF Converted, frame
<1>4. GoesOn
  BY <1>2, <1>3, ReplaceGoesOn
<1>5. Rest
  BY <1>3, PlainRest DEF IInv, ScalarsOK, PoisonsFree, PoisonKeepsOut
<1> QED
  BY <1>4, <1>5, GoesOnKeeps

\* A call ends, with a result, an error or a panic.
LEMMA EndsKeepsAll ==
  ASSUME IInv, ~Hung, NEW t \in Threads, Busy(t), EndCall(t),
         Quiet \/ PanicsWith(t, {Top(t).fn}),
         failed' \in BOOLEAN, UNCHANGED <<gil, ctx, ops, resized>>, ArgumentsWhole'
  PROVE  StacksOK' /\ LocksOK' /\ Rest
<1>1. Top(t).fn \in Objects
  BY TopFrame DEF IInv, FrameOK, Frames
<1>2. ScalarsOK /\ owner' = [owner EXCEPT ![Top(t).fn] = Free]
  BY DEF IInv, EndCall
<1>3. panicked' \subseteq Threads /\ poisoned' \subseteq poisoned \cup {Top(t).fn}
  BY <1>2 DEF Quiet, PanicsWith, ScalarsOK
<1>4. ScalarsOK'
  BY <1>1, <1>2, <1>3 DEF ScalarsOK
<1>5. PoisonKeepsOut'
  BY <1>1, <1>2, <1>3 DEF PoisonKeepsOut, IInv, ScalarsOK
<1>6. Ends(t)
  BY <1>3 DEF Ends
<1> QED
  BY <1>4, <1>5, <1>6, EndsKeeps DEF Rest

\* The steps of a call.
LEMMA CallKeepsAll ==
  ASSUME IInv, ~Hung, NEW t \in Threads, Step(t) \/ LeaveCallback(t)
  PROVE  StacksOK' /\ LocksOK' /\ Rest
<1>1. ScalarsOK /\ ArgumentsWhole /\ StacksOK
  BY DEF IInv
<1>2. gil = t /\ Busy(t)
  BY DEF Step, LeaveCallback, ConvertPlain, ConvertForeign, ConvertNul, EnterCallback,
         ConvertWrapper, ConvertBlocks, Apply, Return, Converting, At
<1>3. FrameOK(Top(t), resized) /\ Top(t).at # "blocked"
  BY <1>1, <1>2, TopFrame, NoneWaits
<1>4. ASSUME Top(t).items # <<>>, Converted(t) PROVE StacksOK' /\ LocksOK' /\ Rest
  BY <1>2, <1>4, ConvertedKeeps
<1>5. ASSUME FailCall(t) PROVE StacksOK' /\ LocksOK' /\ Rest
  <2>1. EndCall(t) /\ Quiet /\ failed' \in BOOLEAN /\ UNCHANGED <<gil, ctx, ops, resized, unfilled>>
    BY <1>1, <1>5 DEF FailCall, Quiet, ScalarsOK
  <2> QED
    BY <1>1, <1>2, <2>1, EndsKeepsAll DEF ArgumentsWhole
<1>6. ASSUME PanicCall(t), failed' \in BOOLEAN PROVE StacksOK' /\ LocksOK' /\ Rest
  BY <1>1, <1>2, <1>6, EndsKeepsAll DEF PanicCall, ArgumentsWhole
<1>7. CASE ConvertPlain(t)
  BY <1>4, <1>7 DEF ConvertPlain, Converting
<1>8. CASE ConvertForeign(t)
  BY <1>5, <1>8 DEF ConvertForeign
<1>9. CASE ConvertNul(t)
  BY <1>6, <1>9 DEF ConvertNul
<1>10. CASE EnterCallback(t)
  <2> DEFINE frame == [Top(t) EXCEPT !.at = "callback"]
  <2>1. Top(t).at = "ready" /\ Top(t).items # <<>> /\ Head(Top(t).items) = "custom"
    BY <1>10 DEF EnterCallback, Converting, At, Item
  <2>2. FrameOK(frame, resized) /\ frame.fn = Top(t).fn /\ frame.at = "callback"
    BY <1>1, <1>3, <2>1, CallbackFrame DEF ScalarsOK
  <2> HIDE DEF frame
  <2>3. Replace(t, frame)
        /\ UNCHANGED <<gil, owner, poisoned, ctx, ops, failed, panicked, resized, unfilled>>
    BY <1>10 DEF EnterCallback, frame
  <2>4. Rest
    BY <2>3, PlainRest DEF IInv, ScalarsOK, PoisonsFree, PoisonKeepsOut
  <2> QED
    BY <1>2, <2>2, <2>3, <2>4, ReplaceGoesOn, GoesOnKeeps
<1>11. CASE ConvertWrapper(t)
  <2>1. Top(t).items # <<>>
    BY <1>11 DEF ConvertWrapper, Converting
  <2> QED
    BY <1>1, <1>4, <1>6, <1>11, <2>1 DEF ConvertWrapper, ScalarsOK
<1>12. CASE ConvertBlocks(t)
  <2>1. Item(t) \in Objects
    BY <1>12 DEF ConvertBlocks, Terms
  <2>2. Waits(t)
    BY <1>2, <1>12, <2>1 DEF ConvertBlocks, Waits
  <2>3. Rest
    BY <1>12, PlainRest DEF ConvertBlocks, IInv, ScalarsOK, PoisonsFree, PoisonKeepsOut
  <2> QED
    BY <2>2, <2>3, WaitsKeeps
<1>13. CASE Apply(t)
  <2>1. /\ Top(t).at = "ready" /\ Top(t).items = <<>> /\ Top(t).args # <<>>
        /\ UNCHANGED <<gil, ctx, ops, resized>>
        /\ unfilled' = IF Top(t).filled = Len(Head(Top(t).args).items) THEN unfilled
                       ELSE unfilled \cup {Head(Top(t).args).is}
    BY <1>13 DEF Apply, At
  <2>2. \/ Top(t).filled = Len(Head(Top(t).args).items)
        \/ Head(Top(t).args).is = "list" /\ resized
    BY <1>3, <2>1 DEF FrameOK, Filling, Frames
  <2>3. ArgumentsWhole'
    BY <1>1, <2>1, <2>2 DEF ArgumentsWhole
  <2>4. CASE EndCall(t) /\ failed' \in BOOLEAN /\ (Quiet \/ PanicsWith(t, {Top(t).fn}))
    BY <1>2, <2>1, <2>3, <2>4, EndsKeepsAll
  <2> DEFINE rest == Tail(Top(t).args)
             frame == [Top(t) EXCEPT !.args = rest, !.items = ItemsOf(rest), !.filled = 0]
  <2>5. CASE Replace(t, frame) /\ UNCHANGED <<owner, failed, panicked, poisoned>>
    <3>1. FrameOK(frame, resized) /\ frame.fn = Top(t).fn /\ frame.at = "ready"
      BY <1>1, <1>3, <2>1, AppliedFrame DEF ScalarsOK
    <3> HIDE DEF frame
    <3>2. GoesOn
      BY <1>2, <2>1, <2>5, <3>1, ReplaceGoesOn
    <3>3. Rest
      BY <2>1, <2>3, <2>5 DEF Rest, IInv, ScalarsOK, PoisonKeepsOut
    <3> QED
      BY <3>2, <3>3, GoesOnKeeps
  <2> QED
    BY <1>1, <1>13, <2>4, <2>5 DEF Apply, ScalarsOK
<1>14. CASE Return(t)
  <2>1. EndCall(t) /\ Quiet /\ failed' \in BOOLEAN /\ UNCHANGED <<gil, ctx, ops, resized, unfilled>>
    BY <1>1, <1>14 DEF Return, Quiet, ScalarsOK
  <2> QED
    BY <1>1, <1>2, <2>1, EndsKeepsAll DEF ArgumentsWhole
<1>15. CASE LeaveCallback(t)
  <2>1. Top(t).at = "callback"
    BY <1>15 DEF LeaveCallback, At
  <2>2. Top(t).items # <<>>
    BY <1>3, <2>1 DEF FrameOK
  <2> QED
    BY <1>1, <1>4, <1>5, <1>6, <1>15, <2>2 DEF LeaveCallback, ScalarsOK
<1> QED
  BY <1>7, <1>8, <1>9, <1>10, <1>11, <1>12, <1>13, <1>14, <1>15 DEF Step

----------------------------------------------------------------------------
(* The theorems.                                                           *)

\* The invariant holds before the first call.
LEMMA InitInv == Init => IInv
<1> SUFFICES ASSUME Init PROVE IInv
  OBVIOUS
<1>1. ScalarsOK
  <2>1. ops \in 0..MaxOps
    BY BoundsType DEF Init
  <2>2. owner \in [Objects -> Threads \cup {Free}]
    BY DEF Init
  <2>3. failed \in BOOLEAN /\ resized \in BOOLEAN
    BY DEF Init
  <2> QED
    BY <2>1, <2>2, <2>3 DEF Init, ScalarsOK
<1>0. PoisonKeepsOut /\ ArgumentsWhole
  BY DEF Init, PoisonKeepsOut, ArgumentsWhole
<1>2. \A t \in Threads : stack[t] = <<>> /\ Len(stack[t]) = 0 /\ 1..Len(stack[t]) = {}
  BY DEF Init
<1>3. stack \in [Threads -> Seq(Frames)]
  BY DEF Init
<1>4. StacksOK
  BY <1>2, <1>3, BoundsType DEF StacksOK
<1>5. LocksOK
  BY <1>2 DEF Init, LocksOK
<1> QED
  BY <1>0, <1>1, <1>4, <1>5 DEF IInv

\* Every step of every thread keeps the invariant.
LEMMA InvStep == IInv /\ [Next]_vars => IInv'
<1> SUFFICES ASSUME IInv, [Next]_vars PROVE IInv'
  OBVIOUS
<1>1. CASE UNCHANGED vars
  <2>1. Hung' = Hung
    BY <1>1 DEF vars, Hung, Busy, Top
  <2>2. ScalarsOK' /\ StacksOK' /\ PoisonKeepsOut' /\ ArgumentsWhole'
    BY <1>1 DEF vars, IInv, ScalarsOK, StacksOK, PoisonKeepsOut, ArgumentsWhole
  <2>3. LocksOK'
    BY <1>1, <2>1 DEF vars, IInv, LocksOK
  <2> QED
    BY <2>2, <2>3 DEF IInv
<1>2. CASE Hung
  BY <1>1, <1>2, HungStays
<1>3. ASSUME ~Hung, NEW t \in Threads, Switch(t) PROVE IInv'
  <2>1. GoesOn
    BY <1>3, StaysGoesOn DEF Switch
  <2>2. Rest
    BY <1>3, PlainRest DEF Switch, IInv, ScalarsOK, PoisonsFree, PoisonKeepsOut
  <2> QED
    BY <1>3, <2>1, <2>2, GoesOnKeeps DEF Rest, IInv
<1>4. ASSUME ~Hung, NEW t \in Threads, Use(t) PROVE IInv'
  BY <1>4, UseKeepsAll DEF Rest, IInv
<1>5. ASSUME ~Hung, NEW t \in Threads, Step(t) \/ LeaveCallback(t) PROVE IInv'
  BY <1>5, CallKeepsAll DEF Rest, IInv
<1> QED
  BY <1>1, <1>2, <1>3, <1>4, <1>5 DEF Next, Still

\* The inductive invariant holds throughout.
LEMMA Invariance == Spec => []IInv
  BY InitInv, InvStep, PTL DEF Spec

\* Every variable has its type: the stacks hold frames, and only a call that
\* waits for a mutex is deeper than the bound.
THEOREM TypeCorrect == Spec => []TypeOK
<1>1. IInv => TypeOK
  <2> SUFFICES ASSUME IInv PROVE TypeOK
    OBVIOUS
  <2>1. ASSUME NEW t \in Threads
        PROVE  Len(stack[t]) <= MaxDepth + 1 /\ \A i \in DOMAIN stack[t] : stack[t][i] \in Frames
    <3>1. stack[t] \in Seq(Frames)
      BY DEF IInv, StacksOK
    <3> QED
      BY <3>1, BoundsType DEF IInv, StacksOK
  <2>2. unfilled \subseteq {"item", "list", "dict"}
    BY DEF IInv, ArgumentsWhole
  <2> QED
    BY <2>1, <2>2 DEF IInv, ScalarsOK, TypeOK
<1> QED
  BY <1>1, Invariance, PTL

\* A function's mutex is held by the one call that is under way on it, and no other
\* mutex is ever found locked, but that of a store in a hung interpreter.
THEOREM LocksFollowCalls == Spec => []LocksAreCalls
<1>1. IInv => LocksAreCalls
  <2> SUFFICES ASSUME IInv, NEW o \in Objects
               PROVE  /\ Kind[o] = "function" => \A t \in Threads :
                           Cardinality(Holding(t, o)) = IF owner[o] = t THEN 1 ELSE 0
                      /\ Kind[o] # "function" /\ owner[o] # Free => Kind[o] = "store" /\ Hung
    BY DEF LocksAreCalls
  <2>1. ASSUME Kind[o] = "function", NEW t \in Threads
        PROVE  Cardinality(Holding(t, o)) = IF owner[o] = t THEN 1 ELSE 0
    <3>1. DOMAIN stack[t] = 1..Len(stack[t])
      BY DEF IInv, StacksOK
    <3>2. CASE owner[o] = t
      <4>1. PICK i \in 1..Len(stack[t]) : stack[t][i].fn = o /\ stack[t][i].at # "blocked"
        BY <2>1, <3>2, FreeIsNobody DEF IInv, LocksOK
      <4>2. Holding(t, o) = {i}
        BY <3>1, <4>1 DEF Holding, IInv, LocksOK
      <4> QED
        BY <3>2, <4>2, FS_Singleton
    <3>3. CASE owner[o] # t
      <4>1. Holding(t, o) = {}
        BY <3>1, <3>3 DEF Holding, IInv, LocksOK
      <4> QED
        BY <3>3, <4>1, FS_EmptySet
    <3> QED
      BY <3>2, <3>3
  <2> QED
    BY <2>1 DEF IInv, LocksOK
<1> QED
  BY <1>1, Invariance, PTL

\* The guard of a poisoned mutex is not held by anybody.
THEOREM PoisonedIsShut == Spec => []PoisonKeepsOut
<1>1. IInv => PoisonKeepsOut
  BY DEF IInv
<1> QED
  BY <1>1, Invariance, PTL

\* nix gets every item of every argument but for lists that a callback shortened.
THEOREM ArgumentsArrive == Spec => []ArgumentsWhole
<1>1. IInv => ArgumentsWhole
  BY DEF IInv
<1> QED
  BY <1>1, Invariance, PTL
=============================================================================
