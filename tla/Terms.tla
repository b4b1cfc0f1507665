------------------------------- MODULE Terms -------------------------------
(***************************************************************************)
(* One evaluator and the terms its caller holds: NixEvalState and RawValue *)
(* of eval.rs with the operations of term.rs on attribute sets, lists and  *)
(* functions, their iterators, the builders behind collect_to_nix, and the *)
(* calls of its store.                                                     *)
(*                                                                         *)
(* All of them share store.ctx.  A call of the C API that is given a       *)
(* context first clears the error it holds and leaves its own there if it  *)
(* fails; check_call reads that error and leaves it.  So an error that the *)
(* caller has handled stays until the next call that uses store.ctx.       *)
(*                                                                         *)
(* An evaluator is used by one thread, and an operation runs as one step.  *)
(* Iterators and the caller's own iterators that feed a builder are lazy:  *)
(* any other operation may run between two of their items.                 *)
(***************************************************************************)
EXTENDS Integers, Sequences, FiniteSets

CONSTANTS
  Values,     \* values of the program under evaluation
  Kind,       \* Kind[v]: "scalar", "list", "attrs" or "function"
  Elems,      \* Elems[v]: elements of a list, or the values of an attrset by index
  Apply,      \* Apply[f][v]: what function f returns for v
  Throws,     \* values that throw when they are forced
  Garbled,    \* strings that are not UTF-8
  Buildable,  \* attrsets that string_realise may succeed to build
  Roots,      \* values of the expressions given to eval_string
  MaxHeld,    \* bound on the terms held of one value
  MaxItems    \* bound on the items put into a builder

Kinds == {"scalar", "list", "attrs", "function"}

ASSUME ValuesType ==
  /\ Kind \in [Values -> Kinds]
  /\ Elems \in [Values -> Seq(Values)]
  /\ Apply \in [Values -> [Values -> Values]]
  /\ Garbled \subseteq {v \in Values : Kind[v] = "scalar"} \ Throws
  /\ Throws \subseteq Values /\ Buildable \subseteq Values /\ Roots \subseteq Values
ASSUME BoundsType == MaxHeld \in Nat /\ MaxItems \in Nat

VARIABLES
  ctx,     \* the error in store.ctx, or "ok"
  refs,    \* refs[v]: references to v that were taken from the C API and not given back
  held,    \* held[v]: terms around v that the caller holds
  iter,    \* the iterator in use
  build,   \* the builder in use
  last,    \* the last operation: how it ended, and whether its own work failed
  failed   \* history: some operation's own work has failed

vars == <<ctx, refs, held, iter, build, last, failed>>

NoIter == [kind |-> "none", len |-> 0, idx |-> 0, yielded |-> <<>>]
NoBuild == [kind |-> "none", items |-> 0]

\* The term that an iterator borrows is kept in field on.
Iterating(v) == iter.kind # "none" /\ iter.on = v

Init ==
  /\ ctx = "ok"
  /\ refs = [v \in Values |-> 0]
  /\ held = [v \in Values |-> 0]
  /\ iter = NoIter
  /\ build = NoBuild
  /\ last = [out |-> "ok", failed |-> FALSE]
  /\ failed = FALSE

----------------------------------------------------------------------------
(* How an operation ends.                                                  *)

End(out, fails) ==
  /\ last' = [out |-> out, failed |-> fails]
  /\ failed' = (failed \/ fails)

\* After undefined behaviour nothing more can be said.
Running == last.out # "undefined"

Has(v, kind) == Running /\ Kind[v] = kind /\ held[v] > 0

\* RawValue: made around a reference that the C API has taken, and dropped.
Incref(r, v) == [r EXCEPT ![v] = @ + 1]
Decref(r, v) == [r EXCEPT ![v] = @ - 1]

\* RawValue::to_nix: a scalar is copied and its RawValue dropped.
ToNix(r, v) == IF Kind[v] = "scalar" THEN Decref(r, v) ELSE r
Wrapped(h, v) == IF Kind[v] = "scalar" THEN h ELSE [h EXCEPT ![v] = @ + 1]

\* The caller gets the term of a value that the C API has just returned.
Receive(v) ==
  /\ held[v] < MaxHeld
  /\ refs' = ToNix(Incref(refs, v), v)
  /\ held' = Wrapped(held, v)

\* The values that the caller cannot get.
Failing == Throws \cup Garbled

\* Mutant: check_call comes before the call.
FetchUnchecked(v) ==
  \/ /\ ctx # "ok"
     /\ End("err", v \in Failing)
     /\ UNCHANGED <<ctx, refs, held>>
  \/ /\ ctx = "ok" /\ v \notin Failing
     /\ Receive(v)
     /\ End("ok", FALSE)
     /\ UNCHANGED ctx

\* The operation calls the C API through store.ctx for v, which forces it, and
\* then check_call, then to_nix: the caller gets the term or the error.  Only the
\* first of the two errors is left in store.ctx.
Fetch(v) ==
  \/ /\ v \notin Failing
     /\ ctx' = "ok"
     /\ Receive(v)
     /\ End("ok", FALSE)
  \/ /\ v \in Failing
     /\ ctx' = IF v \in Throws THEN "nix" ELSE "ok"
     /\ End("err", TRUE)
     /\ UNCHANGED <<refs, held>>

\* The operation fails before it calls nix, and leaves store.ctx alone.
Refuse ==
  /\ Running
  /\ End("err", TRUE)
  /\ UNCHANGED <<ctx, refs, held, iter, build>>

----------------------------------------------------------------------------
(* NixStore, whose calls use the same context.                             *)

\* version, parse_path, build, is_valid_path, store_dir, copy_closure.
StoreCall ==
  /\ Running
  /\ \/ ctx' = "ok" /\ End("ok", FALSE)
     \/ ctx' = "nix" /\ End("err", TRUE)
  /\ UNCHANGED <<refs, held, iter, build>>

\* callback_get_result_string was given no string of UTF-8, or was not called.
StoreStringInvalid ==
  /\ Running
  /\ ctx' = "ok"
  /\ End("err", TRUE)
  /\ UNCHANGED <<refs, held, iter, build>>

----------------------------------------------------------------------------
(* NixEvalState, RawValue.                                                 *)

EvalString(v) ==
  /\ Running
  /\ v \in Roots
  /\ Fetch(v)
  /\ UNCHANGED <<iter, build>>

\* The file of eval_file cannot be read.
FileUnreadable == Refuse

\* Mutant: Clone is derived, and copies the pointer only.
CloneTermDerived(v) ==
  /\ Running
  /\ held[v] \in 1..(MaxHeld - 1)
  /\ held' = [held EXCEPT ![v] = @ + 1]
  /\ End("ok", FALSE)
  /\ UNCHANGED <<ctx, refs, iter, build>>

CloneTerm(v) ==
  /\ Running
  /\ held[v] \in 1..(MaxHeld - 1)
  /\ refs' = Incref(refs, v)
  /\ held' = [held EXCEPT ![v] = @ + 1]
  /\ End("ok", FALSE)
  /\ UNCHANGED <<ctx, iter, build>>

\* Mutant: an iterator borrows nothing.
MovableAlways(v) == held[v] > 0

\* An iterator borrows the term it runs over.
Movable(v) == held[v] > (IF Iterating(v) THEN 1 ELSE 0)

DropTerm(v) ==
  /\ Running
  /\ Movable(v)
  /\ refs' = Decref(refs, v)
  /\ held' = [held EXCEPT ![v] = @ - 1]
  /\ End("ok", FALSE)
  /\ UNCHANGED <<ctx, iter, build>>

----------------------------------------------------------------------------
(* NixAttrSet, NixList.                                                    *)

Get(s, i) ==
  /\ Has(s, "attrs")
  /\ i \in DOMAIN Elems[s]
  /\ Fetch(Elems[s][i])
  /\ UNCHANGED <<iter, build>>

\* Mutant: a missing attribute is no failure, and the error is left behind.
GetMissingOption(s) ==
  /\ Has(s, "attrs")
  /\ ctx' = "key"
  /\ End("ok", FALSE)
  /\ UNCHANGED <<refs, held, iter, build>>

\* There is no attribute of that name: KeyError.
GetMissing(s) ==
  /\ Has(s, "attrs")
  /\ ctx' = "key"
  /\ End("err", TRUE)
  /\ UNCHANGED <<refs, held, iter, build>>

\* len(), is_empty()
Length(c) ==
  /\ Has(c, "attrs") \/ Has(c, "list")
  /\ ctx' = "ok"
  /\ End("ok", FALSE)
  /\ UNCHANGED <<refs, held, iter, build>>

\* get_idx past its bound check; get_list_byidx is not followed by check_call,
\* and the null pointer of a failure panics.
FetchElem(v) ==
  \/ /\ v \notin Throws
     /\ Fetch(v)
  \/ /\ v \in Throws
     /\ ctx' = "nix"
     /\ End("panic", TRUE)
     /\ UNCHANGED <<refs, held>>

GetIdx(l, i) ==
  /\ Has(l, "list")
  /\ i \in DOMAIN Elems[l]
  /\ FetchElem(Elems[l][i])
  /\ UNCHANGED <<iter, build>>

\* idx > size - 1; on an empty list the subtraction of u32 overflows: a debug
\* build panics, and in a release build, where it wraps around, the check passes
\* and the list is read out of its bounds.
GetIdxOutside(l) ==
  /\ Has(l, "list")
  /\ ctx' = "ok"
  /\ \E out \in {"err", "panic", "undefined"} :
       /\ (out = "err") = (Len(Elems[l]) > 0)
       /\ End(out, TRUE)
  /\ UNCHANGED <<refs, held, iter, build>>

\* string_realise is not checked: its null result is read on failure.  The paths
\* and the text of the string are checked, in a context of their own.
Realise(s) ==
  /\ Has(s, "attrs")
  /\ \/ s \in Buildable /\ ctx' = "ok" /\ End("ok", FALSE)
     \/ s \in Buildable /\ ctx' = "ok" /\ End("err", TRUE)
     \/ ctx' = "nix" /\ End("undefined", TRUE)
  /\ UNCHANGED <<refs, held, iter, build>>

----------------------------------------------------------------------------
(* NixTerm: the operations of a term of any type.                          *)

\* build, names, items, iter, call_with and get of a term of another type.
TypeMismatch == Refuse

\* as_bool, as_int, as_float, as_string and as_path of a term of another type.
\* The error names the types only.
NotOfType == Refuse

\* get_attrs: the attrset on the way is dropped again.  A longer path goes on in
\* the same way, and one of a single name is Get.
GetAttrs(s, i) ==
  LET inner == Elems[s][i] IN
  /\ Has(s, "attrs")
  /\ i \in DOMAIN Elems[s]
  /\ \/ inner \in Failing /\ Fetch(inner)
     \/ /\ inner \notin Failing /\ Kind[inner] = "attrs"
        /\ \E j \in DOMAIN Elems[inner] : Fetch(Elems[inner][j])
     \/ /\ inner \notin Failing
        /\ ctx' = IF Kind[inner] = "attrs" THEN "key" ELSE "ok"
        /\ End("err", TRUE)
        /\ UNCHANGED <<refs, held>>
  /\ UNCHANGED <<iter, build>>

EmptyPath == Refuse

\* What iterating over a collection comes to at its item k.
Fails(c, k) == Elems[c][k] \in Failing
FirstToFail(c, k) == Fails(c, k) /\ \A j \in 1..k-1 : ~Fails(c, j)

\* The error in store.ctx after item k.
ErrorAfter(c, k) == IF Elems[c][k] \in Throws THEN "nix" ELSE "ok"

\* The terms of a collection that are held with each value.
Added(c) ==
  [v \in Values |-> IF Kind[v] = "scalar" \/ v \in Failing THEN 0
                    ELSE Cardinality({k \in DOMAIN Elems[c] : Elems[c][k] = v})]

ReceiveAll(c) ==
  /\ \A v \in Values : held[v] + Added(c)[v] <= MaxHeld
  /\ refs' = [v \in Values |-> refs[v] + Added(c)[v]]
  /\ held' = [v \in Values |-> held[v] + Added(c)[v]]

\* Iterating ends at the first item that fails: an element of a list that throws
\* panics, as in get_idx, and the items before it are dropped.
StopAtFailure(c) ==
  \E k \in DOMAIN Elems[c] :
    /\ FirstToFail(c, k)
    /\ ctx' = ErrorAfter(c, k)
    /\ End(IF Kind[c] = "list" /\ Elems[c][k] \in Throws THEN "panic" ELSE "err", TRUE)
    /\ UNCHANGED <<refs, held>>

NoneFails(c) ==
  /\ \A k \in DOMAIN Elems[c] : ~Fails(c, k)
  /\ ctx' = "ok"
  /\ End("ok", FALSE)

\* as_list collects the results of iter() into one result.
AsList(l) ==
  /\ Has(l, "list")
  /\ \/ StopAtFailure(l)
     \/ NoneFails(l) /\ ReceiveAll(l)
  /\ UNCHANGED <<iter, build>>

\* as_hashmap succeeds with the failed results of items() in the map: the error of
\* the last item stays in store.ctx, and nothing tells that something failed.
AsHashmap(s) ==
  /\ Has(s, "attrs")
  /\ ReceiveAll(s)
  /\ ctx' = IF Elems[s] = <<>> THEN "ok" ELSE ErrorAfter(s, Len(Elems[s]))
  /\ last' = [out |-> "ok", failed |-> FALSE]
  /\ failed' = (failed \/ \E k \in DOMAIN Elems[s] : Fails(s, k))
  /\ UNCHANGED <<iter, build>>

\* repr shows the collections within a collection as dots.
Repr(c) ==
  /\ Has(c, "attrs") \/ Has(c, "list")
  /\ \/ StopAtFailure(c)
     \/ NoneFails(c) /\ UNCHANGED <<refs, held>>
  /\ UNCHANGED <<iter, build>>

----------------------------------------------------------------------------
(* NixFunction::call_with takes its argument.                              *)

\* to_raw_value of a scalar calls the C API through store.ctx; of any other term
\* it calls nothing, and check_call sees whatever error is still there.
Stale(v) == Kind[v] # "scalar" /\ ctx # "ok"
Converted(v) == IF Kind[v] = "scalar" THEN "ok" ELSE ctx

\* References and terms without an argument that was moved into a call.
Without(r, v) == IF Kind[v] = "scalar" THEN r ELSE Decref(r, v)

Argument(v) == v \notin Failing /\ (Kind[v] = "scalar" \/ Movable(v))

CallWith(f, v) ==
  LET res == Apply[f][v]
  IN  /\ Has(f, "function")
      /\ Argument(v) /\ (f = v => held[f] > 1)
      /\ ~Stale(v)
      /\ ctx' = Converted(v)
      /\ \/ /\ res \notin Failing
            /\ held[res] < MaxHeld
            /\ refs' = Without(ToNix(Incref(refs, res), res), v)
            /\ held' = Without(Wrapped(held, res), v)
            /\ End("ok", FALSE)
         \/ /\ res \in Failing
            /\ refs' = Without(refs, v)
            /\ held' = Without(held, v)
            /\ End("err", TRUE)
      /\ UNCHANGED <<iter, build>>

\* expect("error transforming to raw value"): the argument is dropped.
CallPanics(f, v) ==
  /\ Has(f, "function")
  /\ Argument(v) /\ (f = v => held[f] > 1)
  /\ Stale(v)
  /\ refs' = Without(refs, v)
  /\ held' = Without(held, v)
  /\ End("panic", FALSE)
  /\ UNCHANGED <<ctx, iter, build>>

\* The argument is no nix term.
CallRefused(f) == Has(f, "function") /\ Refuse

----------------------------------------------------------------------------
(* Iterators.                                                              *)

\* iter(), names() and items() begin with len().
StartIter(c, kind) ==
  /\ iter.kind = "none"
  /\ \/ Has(c, "list") /\ kind = "list"
     \/ Has(c, "attrs") /\ kind \in {"names", "items"}
  /\ iter' = [kind |-> kind, on |-> c, len |-> Len(Elems[c]), idx |-> 0, yielded |-> <<>>]
  /\ ctx' = "ok"
  /\ End("ok", FALSE)
  /\ UNCHANGED <<refs, held, build>>

Polled(kind) == Running /\ iter.kind = kind /\ iter.idx # iter.len

\* The item at position idx is handed out, as a value or as an error.
Yield(out) ==
  iter' = [iter EXCEPT !.idx = @ + 1, !.yielded = Append(@, <<iter.idx + 1, out>>)]

Current == Elems[iter.on][iter.idx + 1]

\* NixItemsIterator::next: idx is counted up before check_call.
NextItem ==
  /\ Polled("items")
  /\ Fetch(Current)
  /\ Yield(last'.out)
  /\ UNCHANGED build

NextName ==
  /\ Polled("names")
  /\ ctx' = "ok"
  /\ Yield("ok")
  /\ End("ok", FALSE)
  /\ UNCHANGED <<refs, held, build>>

\* Mutant: idx is counted up before get_idx.
NextElemSkips ==
  /\ Polled("list")
  /\ FetchElem(Current)
  /\ IF last'.out = "panic" THEN iter' = [iter EXCEPT !.idx = @ + 1] ELSE Yield(last'.out)
  /\ UNCHANGED build

\* NixListIterator::next: idx is counted up after get_idx, if that returns.
NextElem ==
  /\ Polled("list")
  /\ FetchElem(Current)
  /\ IF last'.out = "panic" THEN UNCHANGED iter ELSE Yield(last'.out)
  /\ UNCHANGED build

\* next() returns None, or the caller drops the iterator.
EndIter ==
  /\ Running
  /\ iter.kind # "none"
  /\ iter' = NoIter
  /\ End("ok", FALSE)
  /\ UNCHANGED <<ctx, refs, held, build>>

----------------------------------------------------------------------------
(* from_iter_to_nix: the caller's iterator runs between two items.         *)

\* make_list_builder, make_bindings_builder
StartBuild(kind) ==
  /\ Running
  /\ build.kind = "none"
  /\ build' = [kind |-> kind, items |-> 0]
  /\ ctx' = "ok"
  /\ End("ok", FALSE)
  /\ UNCHANGED <<refs, held, iter>>

\* An iterator of results is collected before there is a builder.
CollectFails == Refuse

\* The builder takes the value, and the RawValue around it is dropped.
Insert(v) ==
  /\ Running
  /\ build.kind # "none"
  /\ build.items < MaxItems
  /\ Argument(v)
  /\ refs' = Without(refs, v)
  /\ held' = Without(held, v)
  /\ \/ /\ ~Stale(v)
        /\ build' = [build EXCEPT !.items = @ + 1]
        /\ ctx' = "ok"
        /\ End("ok", FALSE)
     \/ /\ Stale(v)
        /\ build' = NoBuild
        /\ End("panic", FALSE)
        /\ UNCHANGED ctx
  /\ UNCHANGED iter

\* An item of the caller's iterator is no nix term.
InsertFails ==
  /\ Running
  /\ build.kind # "none"
  /\ build' = NoBuild
  /\ End("err", TRUE)
  /\ UNCHANGED <<ctx, refs, held, iter>>

\* make_list goes through store.ctx, make_attrs has a context of its own.  The
\* new value leaves the model with its term.
FinishBuild ==
  /\ Running
  /\ build.kind # "none"
  /\ build' = NoBuild
  /\ ctx' = IF build.kind = "list" THEN "ok" ELSE ctx
  /\ End("ok", FALSE)
  /\ UNCHANGED <<refs, held, iter>>

----------------------------------------------------------------------------
Stopped == ~Running /\ UNCHANGED vars

Next ==
  \/ \E v \in Values : EvalString(v) \/ CloneTerm(v) \/ DropTerm(v)
  \/ \E s \in Values : (\E i \in DOMAIN Elems[s] : Get(s, i)) \/ GetMissing(s) \/ Realise(s)
  \/ \E l \in Values : (\E i \in DOMAIN Elems[l] : GetIdx(l, i)) \/ GetIdxOutside(l)
  \/ \E c \in Values : Length(c)
  \/ \E f \in Values, v \in Values : CallWith(f, v) \/ CallPanics(f, v)
  \/ \E f \in Values : CallRefused(f)
  \/ \E s \in Values : (\E i \in DOMAIN Elems[s] : GetAttrs(s, i)) \/ AsHashmap(s)
  \/ \E c \in Values : AsList(c) \/ Repr(c)
  \/ StoreCall \/ StoreStringInvalid
  \/ FileUnreadable \/ TypeMismatch \/ NotOfType \/ EmptyPath \/ CollectFails
  \/ \E c \in Values, kind \in {"list", "names", "items"} : StartIter(c, kind)
  \/ NextItem \/ NextName \/ NextElem \/ EndIter
  \/ \E kind \in {"list", "attrs"} : StartBuild(kind)
  \/ (\E v \in Values : Insert(v)) \/ InsertFails \/ FinishBuild
  \/ Stopped

Spec == Init /\ [][Next]_vars

----------------------------------------------------------------------------
(* Properties.                                                             *)

Iters == [kind : {"list", "names", "items"}, on : Values, len : Nat, idx : Nat,
          yielded : Seq(Nat \X {"ok", "err"})]

\* Every variable has its type, and whatever an iterator borrows is held.
TypeOK ==
  /\ ctx \in {"ok", "key", "nix"}
  /\ refs \in [Values -> 0..MaxHeld]
  /\ held \in [Values -> 0..MaxHeld]
  /\ \/ iter = NoIter
     \/ iter \in Iters /\ iter.idx <= iter.len /\ held[iter.on] > 0
  /\ build \in [kind : {"none", "list", "attrs"}, items : 0..MaxItems]
  /\ last \in [out : {"ok", "err", "panic", "undefined"}, failed : BOOLEAN]
  /\ failed \in BOOLEAN

\* Every reference taken from the C API belongs to one term that is still held:
\* however an operation ends, by a result, an error or a panic, no term is left
\* around a value that was given back, and no value is kept for nobody.
RefsMatchHandles == \A v \in Values : refs[v] = held[v]

\* A result or an error is the operation's own, whatever error an earlier
\* operation has left in store.ctx.
OutcomeIsOwn == last.out \in {"ok", "err"} => (last.out = "err") = last.failed

\* As long as no operation has failed, none panics, and none is undefined.
HealthyNeverPanics == last.out \in {"panic", "undefined"} => failed

\* An iterator yields every item once and in order, failing ones as errors,
\* whatever runs between its steps; a panic in a list skips nothing.
IterationFaithful ==
  iter.kind # "none" =>
    iter.yielded = [k \in 1..iter.idx |->
      <<k, IF iter.kind # "names" /\ Elems[iter.on][k] \in Failing THEN "err" ELSE "ok">>]

\* expect("error transforming to raw value"): to_raw_value gives up, like the
\* other operations, only over an error of its own.
PanicIsOwn == last.out = "panic" => last.failed

=============================================================================
