------------------------------ MODULE PyBridge ------------------------------
(***************************************************************************)
(* nix-for-py: Python threads that use the wrappers of one evaluator.      *)
(* Every wrapper has a mutex of its own around a raw pointer of nix, and   *)
(* all of them share the evaluator's store.ctx.                            *)
(*                                                                         *)
(* No method gives up the GIL, so a method is one step, with one           *)
(* exception: __call__ of a function holds the function's mutex while it   *)
(* converts its arguments, and the conversion runs Python code (__index__  *)
(* or __float__ of an argument), during which other threads run, and the   *)
(* same thread may use other wrappers.                                     *)
(*                                                                         *)
(* A thread that waits for a mutex keeps the GIL.  The holder needs the    *)
(* GIL to go on, so that the wait never ends.                              *)
(***************************************************************************)
EXTENDS Integers, FiniteSets, Sequences, SequencesExt

CONSTANTS
  Threads,    \* Python threads
  Objects,    \* wrappers
  Kind,       \* Kind[o]: "function", "attrset", "list", "evaluator", "store",
              \*   "listiter", "iter" (of names or items), "realised" (a string)
  Pointer,    \* Pointer[o]: the raw pointer of nix that the wrapper holds
  Leaves,     \* what an argument is made of, besides wrappers: see Convert
  Arguments,  \* the lists of arguments that functions are called with
  Free,       \* nobody: the mutex is not locked
  MaxOps,     \* bound on the number of operations
  MaxDepth    \* bound on the nesting of calls in one thread

Terms == {o \in Objects : Kind[o] \in {"function", "attrset", "list"}}

Kinds ==
  {"function", "attrset", "list", "evaluator", "store", "listiter", "iter", "realised"}

\* An argument is one item, or a list or dict of items.
ArgumentTypes == [is : {"item", "list", "dict"}, items : Seq(Leaves \cup Terms)]

ASSUME KindType == Kind \in [Objects -> Kinds]
ASSUME LeavesType == Leaves \subseteq {"plain", "custom", "foreign", "nul"}
ASSUME ArgumentsType ==
  /\ Arguments \subseteq Seq(ArgumentTypes)
  /\ \A args \in Arguments : \A i \in DOMAIN args :
       args[i].is = "item" => Len(args[i].items) = 1
ASSUME ObjectsAreNotLeaves ==
  Objects \cap {"plain", "custom", "foreign", "nul", "builder"} = {}
ASSUME FreeIsNobody == Free \notin Threads
ASSUME BoundsType == MaxOps \in Nat /\ MaxDepth \in Nat

VARIABLES
  gil,       \* the thread that holds the GIL
  stack,     \* stack[t]: the calls of t that are under way
  owner,     \* owner[o]: the thread that holds the mutex of o, or Free
  poisoned,  \* wrappers whose mutex is poisoned
  ctx,       \* the error in store.ctx, or "ok"
  ops,       \* number of operations begun
  failed,    \* history: a call of nix-for-rust has failed by itself
  panicked,  \* history: threads that have panicked
  resized,   \* history: a list was shortened while it was converted
  unfilled   \* history: the types of arguments applied with items missing

vars == <<gil, stack, owner, poisoned, ctx, ops, failed, panicked, resized, unfilled>>

\* A call: the function, the arguments that are not yet applied, the items of
\* the first one that are not yet converted, how many are, and where the call is.
Frames == [fn : Objects, args : Seq(ArgumentTypes), items : Seq(Leaves \cup Terms \cup {"builder"}),
           filled : Nat, at : {"ready", "callback", "blocked"}]

Init ==
  /\ gil \in Threads
  /\ stack = [t \in Threads |-> <<>>]
  /\ owner = [o \in Objects |-> Free]
  /\ poisoned = {}
  /\ ctx = "ok"
  /\ ops = 0
  /\ failed = FALSE
  /\ panicked = {}
  /\ resized = FALSE
  /\ unfilled = {}

----------------------------------------------------------------------------
Top(t) == Last(stack[t])
Busy(t) == stack[t] # <<>>
At(t, place) == gil = t /\ Busy(t) /\ Top(t).at = place

\* t runs Python code: of its own, or a callback of a conversion.
InPython(t) == Busy(t) => Top(t).at = "callback"

Push(t, frame) == stack' = [stack EXCEPT ![t] = Append(@, frame)]

\* Mutant: every argument is a call in a call.
ReplaceDeeper(t, frame) == stack' = [stack EXCEPT ![t] = Append(@, frame)]

Replace(t, frame) == stack' = [stack EXCEPT ![t] = Append(Front(@), frame)]

\* What the conversion of the next argument goes through: a builder of lists or
\* bindings is made first.
ItemsOf(args) ==
  IF args = <<>> THEN <<>>
  ELSE IF Head(args).is # "item" THEN <<"builder">> \o Head(args).items ELSE Head(args).items

Hung == Busy(gil) /\ Top(gil).at = "blocked"

\* Another thread gets the GIL.
Switch(t) ==
  /\ gil # t
  /\ InPython(gil)
  /\ gil' = t
  /\ UNCHANGED <<stack, owner, poisoned, ctx, ops, failed, panicked, resized, unfilled>>

\* Python code of t begins an operation.
Begin(t) ==
  /\ gil = t
  /\ InPython(t)
  /\ Len(stack[t]) < MaxDepth
  /\ ops < MaxOps
  /\ ops' = ops + 1

Unlocked(o) == owner[o] = Free /\ o \notin poisoned

\* How an operation ends that runs in one step.
Quiet == UNCHANGED <<panicked, poisoned>>
Succeeds == ctx' = "ok" /\ failed' = failed /\ Quiet

\* The guards that are held when t panics poison their mutexes.
PanicsWith(t, locked) ==
  /\ panicked' = panicked \cup {t}
  /\ poisoned' = poisoned \cup locked

\* check_call sees an error, which is made an exception: that panics if its code
\* is unknown or its message is not UTF-8.
FailsWith(t, locked) ==
  /\ ctx' = "nix"
  /\ failed' = TRUE
  /\ Quiet \/ PanicsWith(t, locked)

----------------------------------------------------------------------------
(* Attribute sets, lists, stores, evaluators.                              *)

\* lock() of a mutex that somebody holds.
Block(t, o) ==
  /\ Begin(t)
  /\ owner[o] # Free
  /\ Push(t, [fn |-> o, args |-> <<>>, items |-> <<>>, filled |-> 0, at |-> "blocked"])
  /\ UNCHANGED <<gil, owner, poisoned, ctx, failed, panicked, resized, unfilled>>

\* lock().expect(...) on a poisoned mutex.
Poisoned(t, o) ==
  /\ Begin(t)
  /\ Kind[o] \notin {"function", "listiter"}
  /\ o \in poisoned
  /\ PanicsWith(t, {})
  /\ UNCHANGED <<gil, stack, owner, ctx, failed, resized, unfilled>>

UseAttrSet(t, o) ==
  /\ Begin(t)
  /\ Kind[o] = "attrset" /\ Unlocked(o)
  /\ Succeeds \/ FailsWith(t, {o})
  /\ UNCHANGED <<gil, stack, owner, resized, unfilled>>

\* Mutant: an index outside the list panics.
UseListOutside(t, o) ==
  /\ Begin(t)
  /\ Kind[o] = "list" /\ Unlocked(o)
  /\ Succeeds \/ (PanicsWith(t, {o}) /\ UNCHANGED <<ctx, failed>>)
  /\ UNCHANGED <<gil, stack, owner, resized, unfilled>>

\* __getitem__ panics on an element that throws, too.
UseList(t, o) ==
  /\ Begin(t)
  /\ Kind[o] = "list" /\ Unlocked(o)
  /\ Succeeds \/ FailsWith(t, {o})
  /\ UNCHANGED <<gil, stack, owner, resized, unfilled>>

\* __next__, as __getitem__; at the end, and __len__: the length is kept.
UseListIterator(t, o) ==
  /\ Begin(t)
  /\ Kind[o] = "listiter" /\ Unlocked(o)
  /\ Succeeds \/ FailsWith(t, {o}) \/ UNCHANGED <<ctx, failed, panicked, poisoned>>
  /\ UNCHANGED <<gil, stack, owner, resized, unfilled>>

UseIterator(t, o) ==
  /\ Begin(t)
  /\ Kind[o] = "iter" /\ Unlocked(o)
  /\ Succeeds \/ FailsWith(t, {o}) \/ UNCHANGED <<ctx, failed, panicked, poisoned>>
  /\ UNCHANGED <<gil, stack, owner, resized, unfilled>>

\* The string and the paths of a realised string are copies.
UseRealised(t, o) ==
  /\ Begin(t)
  /\ Kind[o] = "realised" /\ Unlocked(o)
  /\ UNCHANGED <<gil, stack, owner, poisoned, ctx, failed, panicked, resized, unfilled>>

\* eval_attr_from_file leaves store.ctx alone, and its tracer may panic.
UseEvaluator(t, o) ==
  /\ Begin(t)
  /\ Kind[o] = "evaluator" /\ Unlocked(o)
  /\ \/ Succeeds \/ FailsWith(t, {o})
     \/ UNCHANGED <<ctx, failed, panicked, poisoned>>
     \/ PanicsWith(t, {o}) /\ failed' = TRUE /\ UNCHANGED ctx
  /\ UNCHANGED <<gil, stack, owner, resized, unfilled>>

UseStore(t, o) ==
  /\ Begin(t)
  /\ Kind[o] = "store" /\ Unlocked(o)
  /\ Succeeds \/ FailsWith(t, {o})
  /\ UNCHANGED <<gil, stack, owner, resized, unfilled>>

\* copy_closure locks the store and parses the path, then locks its destination,
\* which may be poisoned, or be the store itself.
CopyClosure(t, o, destination) ==
  /\ Begin(t)
  /\ Kind[o] = "store" /\ Unlocked(o)
  /\ Kind[destination] = "store"
  /\ \/ FailsWith(t, {o}) /\ UNCHANGED <<stack, owner>>
     \/ /\ o # destination /\ Unlocked(destination)
        /\ Succeeds \/ FailsWith(t, {o, destination})
        /\ UNCHANGED <<stack, owner>>
     \/ /\ destination \in poisoned
        /\ ctx' = "ok"
        /\ PanicsWith(t, {o})
        /\ UNCHANGED <<stack, owner, failed>>
     \/ /\ o = destination
        /\ Push(t, [fn |-> o, args |-> <<>>, items |-> <<>>, filled |-> 0, at |-> "blocked"])
        /\ owner' = [owner EXCEPT ![o] = t]
        /\ Succeeds
  /\ UNCHANGED <<gil, resized, unfilled>>

----------------------------------------------------------------------------
(* Functions.                                                              *)

\* The call is over: its guard is dropped.
EndCall(t) ==
  /\ stack' = [stack EXCEPT ![t] = Front(@)]
  /\ owner' = [owner EXCEPT ![Top(t).fn] = Free]

\* Mutant: the guard is forgotten.
FailCallLocked(t) ==
  /\ stack' = [stack EXCEPT ![t] = Front(@)]
  /\ UNCHANGED <<gil, owner, poisoned, ctx, ops, failed, panicked, resized, unfilled>>

FailCall(t) ==
  /\ EndCall(t)
  /\ UNCHANGED <<gil, poisoned, ctx, ops, failed, panicked, resized, unfilled>>

\* The panic drops the guard too, which poisons the mutex.
PanicCall(t) ==
  /\ EndCall(t)
  /\ PanicsWith(t, {Top(t).fn})
  /\ UNCHANGED <<gil, ctx, ops, resized, unfilled>>

\* A poisoned mutex is an error here, and nothing happens.
CallPoisoned(t, f) ==
  /\ Begin(t)
  /\ Kind[f] \in {"function", "listiter"}
  /\ f \in poisoned
  /\ UNCHANGED <<gil, stack, owner, poisoned, ctx, failed, panicked, resized, unfilled>>

\* Mutant: the poison is ignored.
CallAnyway(t, f, args) ==
  /\ Begin(t)
  /\ Kind[f] = "function" /\ owner[f] = Free
  /\ owner' = [owner EXCEPT ![f] = t]
  /\ Push(t, [fn |-> f, args |-> args, items |-> ItemsOf(args), filled |-> 0, at |-> "ready"])
  /\ UNCHANGED <<gil, poisoned, ctx, failed, panicked, resized, unfilled>>

Call(t, f, args) ==
  /\ Begin(t)
  /\ Kind[f] = "function" /\ Unlocked(f)
  /\ owner' = [owner EXCEPT ![f] = t]
  /\ Push(t, [fn |-> f, args |-> args, items |-> ItemsOf(args), filled |-> 0, at |-> "ready"])
  /\ UNCHANGED <<gil, poisoned, ctx, failed, panicked, resized, unfilled>>

Item(t) == Head(Top(t).items)
Converting(t) == At(t, "ready") /\ Top(t).items # <<>>

\* Mutant: the same item is converted again.
ConvertedAgain(t) ==
  /\ Replace(t, [Top(t) EXCEPT !.at = "ready"])
  /\ ctx' = "ok"
  /\ UNCHANGED <<gil, owner, poisoned, ops, failed, panicked, resized, unfilled>>

\* The item is a value of nix: it is initialised, or put into its container,
\* and either goes through store.ctx.
Converted(t) ==
  /\ Replace(t, [Top(t) EXCEPT !.items = Tail(@), !.at = "ready",
                               !.filled = IF Item(t) = "builder" THEN 0 ELSE @ + 1])
  /\ ctx' = "ok"
  /\ UNCHANGED <<gil, owner, poisoned, ops, failed, panicked, resized, unfilled>>

ConvertPlain(t) ==
  /\ Converting(t)
  /\ Item(t) \in {"plain", "builder"}
  /\ Converted(t)

\* "A Nix term" was expected.
ConvertForeign(t) ==
  /\ Converting(t)
  /\ Item(t) = "foreign"
  /\ FailCall(t)

\* A string with a zero in it is no C string, which panics.
ConvertNul(t) ==
  /\ Converting(t)
  /\ Item(t) = "nul"
  /\ failed' = TRUE
  /\ PanicCall(t)

\* extract::<i64> or extract::<f64> calls a method of the argument...
EnterCallback(t) ==
  /\ Converting(t)
  /\ Item(t) = "custom"
  /\ Replace(t, [Top(t) EXCEPT !.at = "callback"])
  /\ UNCHANGED <<gil, owner, poisoned, ctx, ops, failed, panicked, resized, unfilled>>

\* ... which returns a number, or raises.  An exception that carries an earlier
\* panic goes on as a panic.
LeaveCallback(t) ==
  /\ At(t, "callback")
  /\ \/ Converted(t)
     \/ FailCall(t)
     \/ panicked # {} /\ PanicCall(t) /\ UNCHANGED failed

\* Mutant: the items of a dict are not collected first either.
ShortenAny(t) ==
  /\ Begin(t)
  /\ \E u \in Threads : \E i \in DOMAIN stack[u] :
       /\ stack[u][i].at = "callback"
       /\ Head(stack[u][i].args).is # "item"
       /\ Len(stack[u][i].items) > 1
       /\ stack' = [stack EXCEPT ![u][i].items = Front(@)]
  /\ resized' = TRUE
  /\ UNCHANGED <<gil, owner, poisoned, ctx, failed, panicked, unfilled>>

\* Python code takes the last item off a list that is being converted: the
\* iterator over the list ends early, and the list that is made of its builder
\* has a slot that was never filled.  The items of a dict are collected before
\* the first of them is converted, and items that are added are not seen.
Shorten(t) ==
  /\ Begin(t)
  /\ \E u \in Threads : \E i \in DOMAIN stack[u] :
       /\ stack[u][i].at = "callback"
       /\ Head(stack[u][i].args).is = "list"
       /\ Len(stack[u][i].items) > 1
       /\ stack' = [stack EXCEPT ![u][i].items = Front(@)]
  /\ resized' = TRUE
  /\ UNCHANGED <<gil, owner, poisoned, ctx, failed, panicked, unfilled>>

\* lock(), clone() and unlock; then to_raw_value stumbles over an old error.
ConvertWrapper(t) ==
  /\ Converting(t)
  /\ Item(t) \in Terms
  /\ \/ Unlocked(Item(t)) /\ ctx = "ok" /\ Converted(t)
     \/ Unlocked(Item(t)) /\ ctx # "ok" /\ PanicCall(t) /\ UNCHANGED failed
     \/ Item(t) \in poisoned /\ PanicCall(t) /\ UNCHANGED failed

\* The wrapper is locked: by the call itself, by a call around it, or by another
\* thread.
ConvertBlocks(t) ==
  /\ Converting(t)
  /\ Item(t) \in Terms
  /\ owner[Item(t)] # Free
  /\ Push(t, [fn |-> Item(t), args |-> <<>>, items |-> <<>>, filled |-> 0, at |-> "blocked"])
  /\ UNCHANGED <<gil, owner, poisoned, ctx, ops, failed, panicked, resized, unfilled>>

\* value_call has a context of its own.  What it returns is applied to the next
\* argument if it is a function, and its error is made an exception.
Apply(t) ==
  /\ At(t, "ready")
  /\ Top(t).items = <<>>
  /\ Top(t).args # <<>>
  /\ \/ LET rest == Tail(Top(t).args)
        IN  /\ Replace(t, [Top(t) EXCEPT !.args = rest, !.items = ItemsOf(rest), !.filled = 0])
            /\ UNCHANGED <<owner, failed, panicked, poisoned>>
     \/ EndCall(t) /\ failed' \in {failed, TRUE} /\ Quiet
     \/ EndCall(t) /\ failed' = TRUE /\ PanicsWith(t, {Top(t).fn})
  /\ unfilled' = IF Top(t).filled = Len(Head(Top(t).args).items) THEN unfilled
                 ELSE unfilled \cup {Head(Top(t).args).is}
  /\ UNCHANGED <<gil, ctx, ops, resized>>

\* The result is wrapped, and the guard dropped.
Return(t) ==
  /\ At(t, "ready")
  /\ Top(t).args = <<>>
  /\ EndCall(t)
  /\ UNCHANGED <<gil, poisoned, ctx, ops, failed, panicked, resized, unfilled>>

----------------------------------------------------------------------------
\* The interpreter hangs, or the program is over.
Still ==
  /\ Hung \/ (ops = MaxOps /\ \A t \in Threads : ~Busy(t))
  /\ UNCHANGED vars

Step(t) ==
  \/ ConvertPlain(t) \/ ConvertForeign(t) \/ ConvertNul(t) \/ EnterCallback(t) \/ ConvertWrapper(t)
  \/ ConvertBlocks(t) \/ Apply(t) \/ Return(t)

Use(t) ==
  \/ \E o \in Objects : Block(t, o) \/ Poisoned(t, o)
  \/ \E o \in Objects : UseAttrSet(t, o) \/ UseList(t, o) \/ UseEvaluator(t, o) \/ UseStore(t, o)
  \/ \E o \in Objects, destination \in Objects : CopyClosure(t, o, destination)
  \/ \E o \in Objects : UseListIterator(t, o) \/ UseIterator(t, o) \/ UseRealised(t, o)
  \/ (\E o \in Objects : CallPoisoned(t, o)) \/ Shorten(t)
  \/ \E o \in Objects, args \in Arguments : Call(t, o, args)

Next == (\E t \in Threads : Switch(t) \/ Use(t) \/ Step(t) \/ LeaveCallback(t)) \/ Still

Spec == Init /\ [][Next]_vars

\* The interpreter hands the GIL round between threads that run Python code,
\* Rust code that holds it runs on, and callbacks end.
FairSpec ==
  /\ Spec
  /\ \A t \in Threads : SF_vars(Switch(t)) /\ WF_vars(Step(t)) /\ SF_vars(LeaveCallback(t))

----------------------------------------------------------------------------
(* Properties.                                                             *)

\* Every variable has its type.
TypeOK ==
  /\ gil \in Threads
  /\ \A t \in Threads : Len(stack[t]) <= MaxDepth + 1
                        /\ \A i \in DOMAIN stack[t] : stack[t][i] \in Frames
  /\ owner \in [Objects -> Threads \cup {Free}]
  /\ poisoned \subseteq Objects
  /\ ctx \in {"ok", "nix"}
  /\ ops \in 0..MaxOps
  /\ failed \in BOOLEAN
  /\ panicked \subseteq Threads
  /\ resized \in BOOLEAN
  /\ unfilled \subseteq {"item", "list", "dict"}

\* The calls of t that hold the mutex of o.
Holding(t, o) == {i \in DOMAIN stack[t] : stack[t][i].fn = o /\ stack[t][i].at # "blocked"}

\* However calls nest, interleave and end, a mutex is locked by exactly the one
\* call that is under way on its function; of the other wrappers none is ever
\* found locked, save the store that is its own destination.  So the interpreter
\* hangs only over a function that is being called.
LocksAreCalls ==
  \A o \in Objects :
    /\ Kind[o] = "function" =>
         \A t \in Threads : Cardinality(Holding(t, o)) = IF owner[o] = t THEN 1 ELSE 0
    /\ Kind[o] # "function" /\ owner[o] # Free => Kind[o] = "store" /\ Hung

\* No guard of a poisoned mutex is held: what a panic may have left half done is
\* not used again.
PoisonKeepsOut == \A o \in poisoned : owner[o] = Free

\* No thread panics unless a call has failed by itself before, in that thread or in
\* another one: neither a callback, nor a nested call, nor an error that a list
\* or a string handles poisons a wrapper of a program in which nothing failed.
PanicsNeedFailure == panicked # {} \/ poisoned # {} => failed

\* nix is handed every item of every argument, whatever the callbacks do that run
\* between them, except for lists, which somebody must have shortened meanwhile.
ArgumentsWhole == unfilled \subseteq {"list"} /\ (unfilled # {} => resized)

\* A call ends, unless the interpreter hangs.
CallsEnd == \A t \in Threads : Busy(t) ~> ~Busy(t) \/ Hung

\* "Only one thread will have access to each [raw pointer] at a time."
OneThreadPerPointer ==
  \A o1, o2 \in Objects :
    Pointer[o1] = Pointer[o2] /\ owner[o1] # Free /\ owner[o2] # Free => owner[o1] = owner[o2]
=============================================================================
