# A verification project for nix-forall

nix-forall is a Rust library around the C API of the nix evaluator
(`src/nix-for-rust`), with a cache for evaluated attributes, and a Python
module on top of it (`src/nix-for-py`). This directory holds TLA+ models of its
stateful parts, the TLC configurations that check them, and TLAPS proofs of the
properties that matter most.

## 1. The system: an inventory

| component | source | state it keeps | operations | what makes it correct |
|---|---|---|---|---|
| evaluation cache | `eval_cache/mod.rs`, `db.rs`, `migrations/` | an SQLite database shared by all processes of a user: one row per output, one row per input of an output | `eval_attr_from_file`: query, evaluate, insert | an answer is never stale or half recorded; a good row is found; errors have a reason; calls end |
| file tracer | `eval_cache/trace.rs`, `evaluate_traced` | read files, open descriptors; the kernel's ptrace state | `watch` over a forked child | every file that was read is found; the loop keeps in step with the child; nobody waits for ever |
| terms | `term.rs`, `eval.rs`, `NixContext` in `store.rs` | reference counts of values; the error in `store.ctx`; iterators; builders | `eval_string`, `eval_file`, `get`, `get_attrs`, `get_idx`, `call_with`, `realise`, the `as_*` getters, `as_list`, `as_hashmap`, `repr`, iterators, `collect_to_nix`, clone, drop | every reference is given back once; results and errors are the operation's own; iteration is complete |
| Python wrappers | `nix-for-py/src/*.rs` | a mutex per wrapper and its poison; the GIL; one `store.ctx` for all | methods of attribute sets, lists, their iterators, realised strings, stores, evaluators; `__call__`, which converts arguments and runs Python code meanwhile | mutexes are released; who waits is released; a panic has a cause |
| construction of evaluators | `settings.rs`, builders in `eval.rs`, `NixStore::new` | settings of the process, builder, store, state | `with_store` and the `with_*` methods | each evaluator has its settings; nothing is left behind by a failure |
| flakes | `flakes.rs` | native handles that own each other | `parse`, `lock_flake`, `outputs` | each handle is freed once, after its users |
| store | rest of `store.rs` | none of its own | single calls of the C API through `store.ctx` | an error is that of the call itself |
| derivation parser | `derivation.rs` | the parsers under way and where each list would end | `parse_derivation`, `to_nix` | what nix writes is accepted and means what nix meant; nothing is dropped in silence; every field is passed on |
| errors, callbacks | `error.rs`, `utils.rs` | none | `handle_nix_error`, `callback_get_result_string` | they fail or panic for what they are given only |
| bindings, example | `bindings.rs`, `build.rs`, `main.rs` | none | generated code | |

How they interact: `eval_attr_from_file` queries the database; on a miss it
forks, watches the child with the tracer, reads the child's answer from a pipe,
and inserts it. The child evaluates with the operations of the terms. All
operations on the terms of one evaluator share the error slot `store.ctx`. The
Python wrappers call these operations under the GIL and under a mutex of their
own.

What is hard: processes that share the database without transactions; files
that change while they are read; crashes between two statements; a child that
dies, or is stopped for a signal, at any point of a protocol that counts stops;
errors that outlive the operation that caused them; Python code that runs
inside `__call__` with a mutex held, and may change the list that is being converted;
a parser that backtracks out of a failed element and goes on. `PROJECT.json` lists each hazard at its line.

## 2. The modules

```
FreshEval  <--implements--  EvalCache    <-- MCEvalCache, EvalCacheProofs <-- FreshnessProofs
TracedRun  <--implements--  EvalCache
TracedRun  <--implements--  Tracer       <-- MCTracer, TracerProofs
                            Terms        <-- MCTerms, TermsProofs
                            PyBridge     <-- MCPyBridge, PyBridgeProofs
                            Evaluators   <-- MCEvaluators, EvaluatorsProofs <-- OwnershipProofs
                            Derivations  <-- MCDerivations, DerivationsProofs
```

### EvalCache

Each process runs `eval_attr_from_file`; `pc` says where it is:

| `pc` | code | actions |
|---|---|---|
| `idle` | not called | `Call`, `CallMissing` (`FileAttribute::new`) |
| `query` | before `fetch_all` | `Query`: a snapshot of the matching ids, in any order |
| `scan` | head of the loop over rows | `NextRow`, or `Miss`: pipe and fork |
| `hash` | inside `hash_files` of a query | `HashFile` per file, `SkipRow`, `Hit`, `Differ` |
| `eval` | the child runs | `ReadFile` per file, `EvalError`, `Finish` |
| `inshash` | inside `hash_files` of the insertion | `HashFile`, `HashError`, `InsertOutput`, `InsertConflict` |
| `inputs` | the loop of `INSERT INTO evaluation_input` | `InsertInput` per file, `Store` |

`DbError`, `ChildKilled` and `Crash` may strike at every statement, during the
child, and anywhere; `Edit` changes a file. What the evaluator does is external:
it reads the main file, then whatever the contents read so far import, and its
result is a function of what it has read. So the result *is* the view: which
file was read with which content. A digest is the concatenation of the contents
fed to the hasher, which is what `hash_files` computes up to collisions of
blake3 — concatenation, and not a list, because nothing separates the files.

`seen` is a history variable: the contents each file had during a call. `known`
in `call` records which rows were complete when the call began. No action reads
either.

`FreshEval` is what the cache promises: a call that succeeds returns a value for
contents that each file had at some time during that very call, as if there were
no cache at all. `EvalCache` implements it (`ImplementsFreshEval`), with
`busy` and `asked` computed from `pc` and `call`.

### Tracer

One traced child, the parent that watches it, and the kernel between them. The
child stops at entry and exit of every system call, and for signals; the parent
is where the code is: in `wait()` (`attach`, `wait`), in `waitpid` inside
`wait_till_syscall_exit` (`exitwait`), between them (`stopped`, `returned`), in
`read_line` (`pipe`), or finished. `read` is special, as in the code: it is
handled at its entry, resumed, and met again at its exit. `Hazards` says what
may happen once per behaviour: a kill, an unexpected signal, the exit of another
child, a panic in the child, an answer that does not fit into the pipe. The two
processes interleave freely. The kernel, ptrace and the
evaluator's choice of system calls are external.

### TracedRun

Where the cache and the tracer meet: what a traced evaluation hands to the cache that
runs it. A run forks, reads paths, and answers with input files or stops. The input
files are the tracked paths that were read; more of them only if the child has read
from something without a path. `Tracer` implements it system call by system call
(`ImplementsTracedRun`), for any interleaving with the parent and any hazard.
`EvalCache` takes an evaluation for a sequence of `ReadFile` and a `Finish`, and those
are traced runs too (`ImplementsTracedRuns`), of children that read from files alone.
So the `view` of the cache stands for what the tracer really delivers, with one
difference, which the refinement made visible: `close` is not followed, and a socket
that reuses the descriptor of a closed file is recorded as that file. An input too many
makes the cache evaluate again when an unrelated file changes; it never makes an answer
stale.

### Terms

One evaluator and its caller, in one thread: an operation is a step.
`refs[v]` counts the references taken from the C API, `held[v]` the terms the
caller holds; scalars are copied and leave no reference. `ctx` is the error in
`store.ctx`: every call that is given it clears it first and leaves its own error
there, and `check_call` reads it without clearing it. Operations that use a
context of their own (`call_with`'s `value_call`, `make_attrs`) leave it alone.
`iter` and `build` are one lazy iterator and one builder in use, between whose
steps everything else may happen. `last` says how the last operation ended and
whether its own work failed. The program under evaluation is a constant: what
the values contain, what functions return, which values throw, which strings are
not UTF-8. `ReceiveAll` is an operation that walks a collection (`as_list`,
`as_hashmap`, `repr`): `StopAtFailure` for those that end at the first item that fails,
while `as_hashmap` returns the failed ones among its items. An operation that fails
before it calls nix (`TypeMismatch`, `EmptyPath`, `FileUnreadable`, `Refuse`) leaves
`ctx` as it was. `StoreCall` stands for the operations of the store, which use the same
`ctx`. Undefined behaviour (`realise` of what does not build, `get_idx`
beyond an empty list in a release build) is the outcome `undefined`, after which
the model stops.

### PyBridge

Python threads, the GIL, and a mutex per wrapper. No method releases the GIL, so
a method is one step, except `__call__` of a function, which locks the function
and converts its arguments one item at a time; an item with `__index__` or
`__float__` runs Python code (`callback`), where the GIL may go to another
thread, and where the same thread may use other wrappers, so that calls nest
(`stack`). A thread that waits for a mutex keeps the GIL: the wait cannot end,
and the interpreter hangs (`Hung`). A panic drops the guards it passes and
poisons their mutexes; the next `lock().expect(...)` panics in turn, while
`__call__` turns the poison into an error. An exception that carries a panic
continues as a panic when the conversion fetches it (pyo3, external). The guard of a wrapper that is only
cloned is taken and dropped in one step. Wrappers exist from the start;
`Pointer` says which of them share a pointer of nix.

An argument is one item, or a list or dict of items (`ItemsOf`), which are converted one
by one into a builder. `filled` counts them: a callback may take an item off a list that
is being converted (`Shorten`), and the builder then has a slot that was never filled;
the items of a dict are collected before the first is converted. An operation
`Succeeds`, or `FailsWith` an error of nix, whose conversion to a Rust error
(`handle_nix_error`) panics itself on a message that is not UTF-8 or an unknown code.
`failed`, `panicked`, `resized` and `unfilled` are history variables.

### Evaluators

`with_store` and what flakes do with native handles. A *handle* is one object of the
C API; a Rust object owns a sequence of them, its *glue*: the order in which they
are freed when it is dropped, its own `Drop` first and then its fields. A move takes
the object from its old place (`Replace`), an early return runs the glue of the locals
and then that of `self` (`FailGlue`), and the derived `Clone` copies the glue. `drops`
is glue that is being run, one handle a step. `with_store` is a sequence of steps,
`pc`, that may each fail; between them other threads write the settings of the
process (`options`), and `FlakeSettings::new` writes one of them too. An evaluator
gets the settings that `eval_state_builder_load` finds (`loaded`). Handles and
objects are per thread, as none of the types is `Send`. `raced` is a history
variable: the settings that another thread wrote last since this construction began.
Strings without a terminating zero are read as they are or as `Garbage`. A
handle that is freed twice or used after it was freed makes the state `corrupt`,
where the model stops. `FetchersSettings` are made and dropped with the `FlakeSettings`
they are for.

### Derivations

`NixStore::parse_derivation` on one file, and `Derivation::to_nix` on what it returns.
The text is a sequence of tokens: tags and quoted strings, whose escapes are `Content`.
The parser is a stack of frames, one for the derivation and one for each list that is
open; a frame has the steps that are left of its element, the parts so far, and where
the list would end (`saved`) if the element failed, which is what `separated_list0`
makes of a failure (`Unwind`). `MakeOutput` is `DerivationOutput::new`, which asks the
store for a path and leaves its error in `ctx`. `Rendering` is what nix writes
(`Derivation::unparse`, external), and `Derivation` what the parts mean: in the maps, the
last of two equal keys wins. Escapes inside of a string and the names of hash methods
are abstracted: a literal is good or `Broken`, a method known or not.

## 3. The checks

| run | asks | result |
|---|---|---|
| `cache_fresh` | two processes, crashes, database errors, kills: is every answer fresh, is no partial row served, is every miss and every refused insertion justified, is `FreshEval` implemented? | holds |
| `cache_sequential` | one process, two attributes, broken and missing files at any time: are misses and errors justified, does every call end, is `TracedRun` implemented? | holds |
| `cache_edit_race` | does the digest of a complete row always belong to the contents of its output? | violated |
| `tracer` | are all reads found, are stops never miscounted, are descriptors right, does the call end, is `TracedRun` implemented? | holds |
| `tracer_killed` | is a killed child reported? | violated |
| `terms` | references, own outcomes, no panic in health, faithful iteration? | holds |
| `terms_stale` | does `to_raw_value` panic only over its own error? | violated |
| `py_bridge` | are locks released, poisoned mutexes shut, panics caused, arguments whole, do calls end? | holds |
| `py_pointers` | does the mutex keep all other threads off the pointer? | violated |
| `evaluators` | does each handle have one owner, is it freed once and after its users, do settings arrive? | holds |
| `evaluators_shared` | does a default evaluator have default settings? | violated |
| `derivations` | is what nix writes accepted with its meaning, is nothing dropped, do outputs that the store refuses fail the parser, does a panic need a malformed file, does `to_nix` keep the fields? | holds |

Every property of a passing run has a mutant in `PROJECT.json`: a variant of one
definition that TLC finds to violate it (an inverted test, no sort, a missing
follow-up of imports, a derived `Clone`, a forgotten guard...). The mutants stand
in the modules before the definitions they vary.

### Bounds

- `MaxCalls = 3`, `MaxEdits = 2`, two processes: one call fills the cache, one
  finds or misses it, and one runs beside them; two edits change a file and
  change it back. Two paths: the main file and one import, so that a row is
  partial after its first input. Three in the runs with one process: the third
  is in the nix store, which is not tracked.
- `cache_fresh` lets the import change only while nobody is in `eval` or
  `inshash` (`Volatile`). Without this `FreshResult` is false:
  `cache_edit_race` shows the first half of it. The main file changes always.
- `MaxCalls = 4` system calls besides the answer, two descriptors, three paths:
  a descriptor is opened, closed, reused for another path and read.
- `MaxHeld = 2`, one item per builder: a term and its clone; a builder between
  two steps of everything else. The values are an attribute set with a list, a
  throwing value, a string that is not UTF-8, an empty list and a function.
- `MaxOps = 3`, `MaxDepth = 2`: two threads, one with a call in a callback of a call,
  or both with a call and an operation beside them; three operations make a failure, a
  panic over it and an operation that meets the poison. Two wrappers of one function,
  two stores, one of each other kind; arguments with a callback before and after other
  items, in lists and dicts, wrappers of every fate, and a list of two arguments.
- The texts of `derivations` are the renderings of six derivations, one for every kind
  of output, with inputs, escapes and a dynamic one, and everything that one removed,
  inserted or replaced token and a truncation at any place make of them: each branch of
  the parser fails at each place of the grammar at least once.
- `Bounds` bounds what is created; the other operations consume it. In one part of
  the instance a thread makes flake settings, a clone, lock flags and an evaluator,
  which is what it takes to lock a flake; in the other two threads build an
  evaluator each, and one of them flake settings as well. Two settings and the stack
  limit, asked for or left alone.
- `CollisionFree` is assumed in the instances of the cache (an `ASSUME` that TLC
  evaluates): contents are single symbols, so that concatenations differ when
  lists do, other than by a different number of files. Collisions between
  lists of contents are a hazard that is listed, not checked.

### Fairness

- EvalCache (`FairSpec`): a process that is not stopped runs its own code, weak
  fairness on the disjunction of its steps. Edits, crashes and new calls are
  never promised.
- Tracer: the kernel runs the child and the parent; no signal or death is
  promised. `CallEnds` holds of behaviours in which no hazard struck, and deadlock
  is not checked in these two runs because the call really may hang: after a
  kill, a second child's exit or an oversized answer.
- PyBridge: a thread that holds the GIL in Rust code runs on (weak fairness);
  the interpreter hands the GIL round, and callbacks return (strong fairness, as
  both are enabled only while the GIL is where it must be). That callbacks return
  is an assumption about the user's Python code.

## 4. The proofs

`tlapm` proves the following for every value of the constants. The assumptions are the
named `ASSUME`s of the modules, which type the constants, and the hypotheses that a
theorem states itself. Some of the `ASSUME`s say more than a type. `NamelessAreNotPaths`:
what has no path is not a path. `ObjectsAreNotLeaves`: a wrapper is not a scalar.
`NoAlgorithmIsEmpty` and `BrokenHaveNoContent`: the empty string is no algorithm and no
store path, and a literal is not both good and broken. `OutputsAreKnown`: of each kind of
output nix writes the path, the algorithm and the hash that libstore does. `EnvAgrees`:
`derivationStrict` copies the attributes of a derivation into its environment, so that the
name, the builder and the system are there as they are in the derivation, or not at all;
the arguments never are. The last two are about nix, and are external.

Every theorem that is not about types rests on an inductive invariant that says more than
the property, because the property alone does not survive a step.

| theorem | property | in one sentence |
|---|---|---|
| EvalCacheProofs.TypeCorrect | `TypeOK` | |
| EvalCacheProofs.PartialRowsStayHidden | `PartialRowNeverServed` | under `CollisionFree` |
| FreshnessProofs.AnswersAreFresh | `FreshResult` | under `Quiet` |
| FreshnessProofs.MissesAreJustified | `MissIsJustified` | under `Quiet` |
| FreshnessProofs.ConflictsAreJustified | `ConflictIsJustified` | under `Quiet` |
| FreshnessProofs.CacheIsTransparent | `ImplementsFreshEval` | under `Quiet`, a refinement |
| FreshnessProofs.EvaluationsAreTracedRuns | `ImplementsTracedRuns` | a refinement |
| TracerProofs.TypeCorrect | `TypeOK` | |
| TracerProofs.StopsAreCounted | `SyscallParity` | entries and exits are told apart |
| TracerProofs.DescriptorsFollow | `DescriptorsAccurate` | |
| TracerProofs.ReadsAreRecorded | `ReadsRecorded` | |
| TracerProofs.RunIsTraced | `ImplementsTracedRun` | a refinement |
| TermsProofs.TypeCorrect | `TypeOK` | |
| TermsProofs.ReferencesMatch | `RefsMatchHandles` | no reference leaks |
| TermsProofs.OutcomesAreOwn | `OutcomeIsOwn` | an action property |
| TermsProofs.HealthyPanicsNever | `HealthyNeverPanics` | |
| TermsProofs.IterationIsFaithful | `IterationFaithful` | |
| PyBridgeProofs.TypeCorrect | `TypeOK` | |
| PyBridgeProofs.PanicsAreCaused | `PanicsNeedFailure` | |
| PyBridgeProofs.LocksFollowCalls | `LocksAreCalls` | |
| PyBridgeProofs.PoisonedIsShut | `PoisonKeepsOut` | |
| PyBridgeProofs.ArgumentsArrive | `ArgumentsWhole` | |
| EvaluatorsProofs.SettingsReachTheEvaluator | `OwnUnlessRaced` | |
| OwnershipProofs.TypeCorrect | `TypeOK` | |
| OwnershipProofs.OwnersAreUnique | `OneOwner` | |
| OwnershipProofs.UsersGoFirst | `UsersFreedFirst` | |
| OwnershipProofs.ClonesAlone | `OnlyClonesCorrupt` | |
| DerivationsProofs.TypeCorrect | `TypeOK` | |
| DerivationsProofs.ResultsAreClean | `DoneIsClean` | |
| DerivationsProofs.PanicsAreMalformed | `PanicIsMalformed` | |
| DerivationsProofs.NothingIsLost | `NothingLost` | for any text |
| DerivationsProofs.GrammarIsAccepted | `GrammarAccepted` | for any derivation and any text behind it |
| DerivationsProofs.FieldsAreKept | `RebuildKeepsFields` | for any derivation |

### The arguments

**EvalCacheProofs.** `PartialRowNeverServed` is not inductive: that a row whose inputs are
incomplete never hashes to its digest depends on how the digest came about. `TInv` is the
typing invariant. `Honest` strengthens it: a row records only inputs of its own output,
and its digest is one of a list of contents as long as the output has tracked inputs
(`RowHonest`); what the hasher of a query has read and what it still will read are
together as many as some set of recorded inputs, and an insertion hashes all tracked
inputs of its view (`HasherHonest`). A partial row has fewer recorded inputs, so its hash
is one of a shorter list, and by `CollisionFree` another one.

**FreshnessProofs.** `Quiet` is what freshness needs: `CollisionFree`; what is edited is a
file the tracer tracks; what is edited while evaluations run (`Volatile`) is one file at most, and it is
the main file of all of them; and there is a rank on contents that every edit of it raises,
so that contents do not come back. Between evaluations any tracked file may change, in any
way. The instance of `cache_fresh` satisfies it, and
`cache_edit_race` shows a stale answer when an evaluator reads a second file that is
edited. `FInv` has two halves. Every row is faithful (`RowFaithful`): its digest is the
one of the contents its output was computed from, in the order in which they are hashed.
Every process is in good order with respect to its own call (`Alone`): what it has read it
has seen during this call (`Viewed`, `Witnessed`), a query that is selected is one of rows
that exist (`Selected`, `Querying`), a row that was complete when the call began still is
(`Known`), a row it has given up on had an input that changed (`Rejected`), and an
insertion hashes the view (`Inserting`). A hit then means that the hashed contents,
which were all there during this call, are those of the row, because the digests are equal.
For the main file, which may have been edited between its reading and its hashing, the rank
says that a call which finds the same hash has lived through the content that was read
(`Shared`). So the row's output is the view of an evaluation during this call.
`CacheIsTransparent` turns this into a refinement: each return of a call is a step of
`FreshEval`, every other action stutters.

**TracerProofs.** `IInv` relates the three parties. `PlacesMatch` says for every place of
the parent where the child may be: the parent counts entries and exits, and the child's
stops are all that it counts. `CallsMatch` says that the registers show the call the child
is in, `StatusMatches` that a status that was collected is that of the stop, `AnswerIsLast`
that the pipe is written when nothing is left to read. `DescriptorsKnown` and `AllRecorded` carry the two
properties across the calls that the parent has not handled yet, and `NothingElseRecorded`
is the other direction, which only the refinement needs.

**TermsProofs.** The invariant is `Honest /\ Located /\ IterationFaithful`: `refs = held`;
an error in `store.ctx` is there only if something has failed; an iterator is within the
bounds it found when it began. `EndKeeps` reduces each operation to how it ends and how it
counts. `TypeCorrect` adds that what an iterator borrows is held, so that the bound on
held terms bounds the references too.

**PyBridgeProofs.** For `PanicsAreCaused` the invariant adds that an error in `store.ctx`
comes from a failed call: a panic comes from a call that fails there and then, from such an
error, from an earlier panic, or from poison. The other three theorems share an invariant
about stacks: a thread that waits has the GIL and waits at the top of its stack (`StacksOK`);
a call that does not wait holds the mutex of its function, no two calls hold the same one,
and what is held belongs to a call, or to a store in a hung interpreter (`LocksOK`); and
the builder of a frame is filled as far as its argument has been converted, unless the list
was shortened (`Filling`).

**EvaluatorsProofs** and **OwnershipProofs.** `OwnUnlessRaced` speaks of what was loaded;
the invariant says of every place before that which settings already have their value
(`StackSet`, `OptionsSet`), and `OthersKeep` shows that a write of another thread ends up
in `raced`. For the ownership, `OInv` follows every handle through every place of
`with_store`: `Sound` says of all glue there is (objects, values on their way, glue that is
being run) that a live handle is in exactly one of them and once, and that a user of a
store comes before it; `Held` and `Pending` say which handles the locals own at each place,
`Building` what kinds they are, and `Spent` is the builder that is
freed only after its state has been handed on. `Caused` says that only a clone breaks this.

**DerivationsProofs.** The stack of frames is what an induction over the grammar would
provide: `Kept` says that a frame is the parser of a list that the frame below it has
opened, at a step that parser has, and that the places where lists would end do not
decrease towards the top; `Begun` that the frame of an output whose first literal has not
matched can still end its list cleanly. `Clean` is the consequence for `ctx`: an error is
there only after the parser has given up, or while an output that was refused unwinds; the
failure of a list that has begun is never turned into its end. `Dynamics` says how a
dynamic file begins and where the parser of one stands.

The other three theorems are about what a text says. What nix writes is a fold over parts
of any number, so they need an induction over the natural numbers, which the library has
only with an operator as a parameter. `Induction` derives it for subsets of `Nat`, from
`WFMin` and `NatLessThanWellFounded`: a least number that is missing has a predecessor. From there the
lemmas go in one direction, from the fold to the text. `JoinSteps` and `JoinMore` say how the fold
continues; `JoinCuts`, that where joined parts lie in a text (`Span`) the parts lie one
after the other with commas between them (`Cuts`); and `StepAt`, where the tokens of each
step of the grammar lie.

- `Accounted`: each parser under way has taken, in order, the tokens of its steps so far
  and of its items (`Parsed`), and the parsers follow one another from behind the version
  to `pos` (`Chain`). A list that ends before a failed element drops a frame that accounted
  for nothing else than that element, so the chain holds of what is left. Of the last frame
  it says `NothingLost`.
- `Tracked`: on a derivation that nix wrote, the parser is *on track*. Each frame yields
  what nix meant of its list if the frame above yields what it should (`Line`), and the
  innermost stands at the token that its next step takes (`Heading`). There is one
  exception: an empty list is parsed by trying an element, which fails at the bracket
  (`Failing`). In particular an output of a known kind is never refused: `OutputKinds` has
  that kind and no other.
- `Converted`: the version is that of the header, and the arguments are those of the
  derivation that was parsed. With `GrammarAccepted` that is `RebuildKeepsFields` for
  traditional derivations; a dynamic one that nix wrote never gets there (`Dynamics`).

`Over` of the model is `@@` of the module TLC, written out, because the provers know
nothing of that module.

### Only model-checked

- Liveness (`CallTerminates`, both `CallEnds`): fairness and `ENABLED` are beyond the
  prover.
- `ErrorIsJustified`: it is true of the instances, but not of all. A digest names no
  paths, so when the contents of two files are swapped, or a main file changes twice
  and imports something else each time, the contents hashed for a new evaluation may be
  the list of an older row; the UNIQUE constraint then refuses an insertion although the
  inputs differ. `Quiet` does not exclude this, and a hypothesis that does would leave
  nothing to justify.

## 5. Not modelled

- The internals of nix, SQLite, blake3, ptrace, pyo3 and the kernel are external: they
  appear as the outcomes the code distinguishes.
- Layout and wording (`Display` of errors, the text that `repr` makes), the `From` impls,
  `read_into_hashmap`.
- Forcing a thunk (`term.rs`, lines 275-289): the values that the C API returns to this
  code are forced, and no step reaches it. External values are a `todo!()`.
- Panics inside the conversion of an error are in `PyBridge`, where they poison mutexes,
  and not in `Terms`, where an error of nix is always returned.
- The modes of lock flags, input overrides, the base directory and the outputs of a
  flake are single calls on one handle with a context of their own; nothing in this code
  depends on their order. That `write_as_needed` sets the mode that only checks
  (`flakes.rs:150`) is listed as a hazard.
- `NixContext` has no `Drop`: that contexts are never freed is left out of the ownership
  of handles, and so are builders that a failed conversion leaves behind, and the store
  paths of a realised string.
- System calls that the tracer does not know (`mmap`, `pread`, `stat`) are outside the
  model, and so is what a file system does between two reads of one file.
- Generated bindings, build scripts and the example program.

## 6. Plan

1. *Terms*: an abstract specification of a collection, which the iterators implement.
