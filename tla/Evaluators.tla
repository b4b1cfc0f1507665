----------------------------- MODULE Evaluators -----------------------------
(***************************************************************************)
(* Construction and release of evaluators and of flakes (settings.rs,      *)
(* eval.rs, store.rs, flakes.rs).                                          *)
(*                                                                         *)
(* A handle stands for one object of the C API.  Rust objects own handles: *)
(* the glue of an object is the sequence in which its handles are freed    *)
(* when it is dropped, its own Drop first and then its fields in the order *)
(* of their declaration.  A move takes an object away from its old place;  *)
(* a clone of FlakeSettings has the same glue as its original.             *)
(*                                                                         *)
(* None of these types may be sent to another thread, so that each thread  *)
(* has handles and objects of its own.  What threads share are the         *)
(* settings of the process, which setting_set writes and which an          *)
(* evaluator takes when its builder loads them, and the stack limit, which *)
(* is the setting Stack here.  What a handle uses after the call that made *)
(* it is external: a builder and a state use their store and the flake     *)
(* settings that were added.  Contexts of the C API are never freed, and   *)
(* are left out.                                                           *)
(***************************************************************************)
EXTENDS Integers, FiniteSets, Sequences, SequencesExt

CONSTANTS
  Threads,
  Keys,       \* settings, with Stack and Features among them
  Stack,      \* the stack limit of the process
  Features,   \* experimental-features
  Values,     \* values of settings
  Default,    \* what a setting is before anybody writes it
  Flakes,     \* the value that enables flakes
  Garbage,    \* a value with the bytes that follow it in memory
  Capped,     \* Capped[v]: the stack limit v, or the hard limit if that is less
  Asks,       \* the settings that evaluators are built with
  Bounds      \* bounds on what each thread creates, one of which is kept

ASSUME KeysType == {Stack, Features} \subseteq Keys /\ Stack # Features
ASSUME ValuesType == {Default, Flakes, Garbage} \subseteq Values /\ Capped \in [Values -> Values]
ASSUME AsksType ==
  \A asked \in Asks : \E K \in SUBSET Keys : Stack \in K /\ asked \in [K -> Values]
\* The operations that are bounded; the others consume what these create.
Creations == {"flakes", "clone", "lockflags", "evaluator"}

ASSUME BoundsType == Bounds \subseteq [Threads -> [Creations -> Nat]]

VARIABLES
  options,  \* the settings of the process
  pc,       \* pc[t]: where with_store is, or "idle"
  config,   \* config[t]: the NixSettings that with_store consumes
  todo,     \* todo[t]: the settings that are still to be set
  loaded,   \* loaded[t]: the settings that the builder has loaded
  local,    \* local[t]: glue of the local variables of with_store
  heap,     \* heap[t]: the handles that t has ever got
  objs,     \* objs[t]: the Rust objects that t holds
  drops,    \* drops[t]: glue that is being run
  ops,      \* ops[t]: number of creations by t
  corrupt,  \* a handle was freed twice or used after it was freed
  cloned,   \* history: cloned[t] are the handles with a second owner
  raced     \* history: raced[t] are the settings that others wrote last, until
            \* the builder of t has loaded them

shared == <<options, raced>>
building == <<pc, config, todo, loaded, local>>
owned == <<heap, objs, drops>>
vars == <<shared, building, owned, ops, corrupt, cloned>>

NoSettings == [k \in Keys |-> Default]
NoConfig == [asked |-> <<>>, flakes |-> <<>>]

Init ==
  /\ options = NoSettings
  /\ pc = [t \in Threads |-> "idle"]
  /\ config = [t \in Threads |-> NoConfig]
  /\ todo = [t \in Threads |-> {}]
  /\ loaded = [t \in Threads |-> NoSettings]
  /\ local = [t \in Threads |-> <<>>]
  /\ heap = [t \in Threads |-> <<>>]
  /\ objs = [t \in Threads |-> <<>>]
  /\ drops = [t \in Threads |-> <<>>]
  /\ ops = [t \in Threads |-> [c \in Creations |-> 0]]
  /\ corrupt = FALSE
  /\ cloned = [t \in Threads |-> {}]
  /\ raced = [t \in Threads |-> {}]

----------------------------------------------------------------------------
(* Handles and objects.                                                    *)

Running(t) == ~corrupt /\ drops[t] = <<>>
At(t, place) == Running(t) /\ pc[t] = place

Fresh(t) == Len(heap[t]) + 1
Live(t, h) == heap[t][h].live
AllLive(t, glue) == \A i \in DOMAIN glue : Live(t, glue[i])

Handle(kind, uses) == [kind |-> kind, uses |-> uses, live |-> TRUE]
Alloc(t, handles) == heap' = [heap EXCEPT ![t] = @ \o handles]

\* An object: its glue, the glue of the FlakeSettings in it, if any, and the
\* state that it borrows, if any.
Object(kind, glue, flakes, borrows) ==
  [kind |-> kind, glue |-> glue, flakes |-> flakes, borrows |-> borrows]

FlakeObject(flakes) == Object("flakes", flakes, flakes, 0)

Is(t, i, kind) == objs[t][i].kind = kind

\* The objects of t without the one, or the two, that are moved away.
Without(t, i) == RemoveAt(objs[t], i)

WithoutBoth(t, i, j) ==
  IF i < j THEN RemoveAt(Without(t, j), i) ELSE RemoveAt(Without(t, i), j)

Replace(t, rest, new) == objs' = [objs EXCEPT ![t] = rest \o new]

Run(t, glue) == drops' = [drops EXCEPT ![t] = glue]

Count(t, c) ==
  /\ ops' = [ops EXCEPT ![t][c] = @ + 1]
  /\ \E bound \in Bounds : \A u \in Threads, d \in Creations : ops'[u][d] <= bound[u][d]

\* An operation of the caller, between calls of with_store.
Operation(t) ==
  /\ At(t, "idle")
  /\ UNCHANGED <<building, corrupt>>

BeforeLoad(t) == pc[t] \in {"stack", "store", "builder", "flakes", "options"}

\* t writes a setting of the process.
Write(t, k, v) ==
  /\ options' = [options EXCEPT ![k] = v]
  /\ raced' = [u \in Threads |-> IF u = t THEN raced[u] \ {k}
                                ELSE IF BeforeLoad(u) THEN raced[u] \cup {k} ELSE raced[u]]

\* The strings that setting_set gets do not end in a zero.
Read(v) == {v, Garbage}

----------------------------------------------------------------------------
(* flakes.rs                                                               *)

\* FetchersSettings::new, FlakeSettings::new.  If one of the first two handles
\* cannot be had, whatever was had is freed, as by DropObject.
NewFlakes(t) ==
  /\ Operation(t)
  /\ Count(t, "flakes")
  /\ Alloc(t, <<Handle("fetchers", {}), Handle("settings", {})>>)
  /\ Replace(t, objs[t], <<FlakeObject(<<Fresh(t) + 1, Fresh(t)>>)>>)
  /\ \E v \in Read(Flakes) : Write(t, Features, v)
  /\ UNCHANGED <<drops, cloned>>

\* setting_set fails: the fetchers are dropped, and nobody owns the settings.
NewFlakesFails(t) ==
  /\ Operation(t)
  /\ Count(t, "flakes")
  /\ Alloc(t, <<Handle("fetchers", {}), Handle("settings", {})>>)
  /\ Run(t, <<Fresh(t)>>)
  /\ UNCHANGED <<shared, objs, cloned>>

\* The derived clone, of any FlakeSettings in reach: both own the handles.
CloneFlakes(t, i) ==
  /\ Operation(t)
  /\ Count(t, "clone")
  /\ objs[t][i].flakes # <<>>
  /\ Replace(t, objs[t], <<FlakeObject(objs[t][i].flakes)>>)
  /\ cloned' = [cloned EXCEPT ![t] = @ \cup ToSet(objs[t][i].flakes)]
  /\ UNCHANGED <<shared, heap, drops>>

\* FlakeRefSettings has no Drop: nobody owns the parse flags.  If it cannot be
\* made, its argument is dropped, as by DropObject.
RefSettings(t, i, rest) ==
  /\ Operation(t)
  /\ Is(t, i, "flakes")
  /\ AllLive(t, objs[t][i].flakes)
  /\ Alloc(t, <<Handle("parseflags", {})>>)
  /\ Replace(t, rest, <<[objs[t][i] EXCEPT !.kind = "refsettings"]>>)
  /\ UNCHANGED <<ops, shared, drops, cloned>>

\* Mutant: the settings are copied, and not moved.
NewRefSettingsCopies(t, i) == RefSettings(t, i, objs[t])

NewRefSettings(t, i) == RefSettings(t, i, Without(t, i))

\* FlakeRefSettings::parse
Parse(t, i) ==
  /\ Operation(t)
  /\ Is(t, i, "refsettings")
  /\ AllLive(t, objs[t][i].flakes)
  /\ Alloc(t, <<Handle("ref", {})>>)
  /\ LET flakes == objs[t][i].flakes
     IN  Replace(t, Without(t, i), <<Object("ref", <<Fresh(t)>> \o flakes, flakes, 0)>>)
  /\ UNCHANGED <<ops, shared, drops, cloned>>

\* There is no reference, or there is one but no fragment: then nobody owns it.
ParseFails(t, i) ==
  /\ Operation(t)
  /\ Is(t, i, "refsettings")
  /\ AllLive(t, objs[t][i].flakes)
  /\ \/ UNCHANGED heap
     \/ Alloc(t, <<Handle("ref", {})>>)
  /\ Replace(t, Without(t, i), <<>>)
  /\ Run(t, objs[t][i].glue)
  /\ UNCHANGED <<ops, shared, cloned>>

\* FlakeLockFlags::new, which borrows the settings for the call only.
NewLockFlags(t, i) ==
  /\ Operation(t)
  /\ Count(t, "lockflags")
  /\ objs[t][i].flakes # <<>>
  /\ AllLive(t, objs[t][i].flakes)
  /\ Alloc(t, <<Handle("lockflags", {})>>)
  /\ Replace(t, objs[t], <<Object("lockflags", <<Fresh(t)>>, <<>>, 0)>>)
  /\ UNCHANGED <<shared, drops, cloned>>

LockArguments(t, e, f, r) ==
  /\ Is(t, e, "evaluator")
  /\ Is(t, f, "lockflags")
  /\ Is(t, r, "ref")
  /\ AllLive(t, objs[t][r].flakes)

\* NixEvalState::lock_flake moves the reference and the flags into its result,
\* which borrows the evaluator.
Lock(t, e, f, r) ==
  /\ Operation(t)
  /\ LockArguments(t, e, f, r)
  /\ Alloc(t, <<Handle("locked", {})>>)
  /\ LET glue == <<Fresh(t)>> \o objs[t][f].glue \o objs[t][r].glue
     IN  Replace(t, WithoutBoth(t, f, r),
           <<Object("locked", glue, objs[t][r].flakes, Head(objs[t][e].glue))>>)
  /\ UNCHANGED <<ops, shared, drops, cloned>>

\* The parameters are dropped, the last one first.
LockFails(t, e, f, r) ==
  /\ Operation(t)
  /\ LockArguments(t, e, f, r)
  /\ Replace(t, WithoutBoth(t, f, r), <<>>)
  /\ Run(t, objs[t][f].glue \o objs[t][r].glue)
  /\ UNCHANGED <<ops, shared, heap, cloned>>

Borrowed(t, i) ==
  /\ Is(t, i, "evaluator")
  /\ \E j \in DOMAIN objs[t] : objs[t][j].borrows = Head(objs[t][i].glue)

\* An object goes out of scope; the compiler knows who borrows it.
DropObject(t, i) ==
  /\ At(t, "idle")
  /\ ~Borrowed(t, i)
  /\ Replace(t, Without(t, i), <<>>)
  /\ Run(t, objs[t][i].glue)
  /\ UNCHANGED <<shared, building, heap, ops, corrupt, cloned>>

\* The next handle of the glue is freed.
Free(t) ==
  /\ ~corrupt
  /\ drops[t] # <<>>
  /\ Live(t, Head(drops[t]))
  /\ heap' = [heap EXCEPT ![t][Head(drops[t])] = [@ EXCEPT !.live = FALSE, !.uses = {}]]
  /\ Run(t, Tail(drops[t]))
  /\ UNCHANGED <<shared, building, objs, ops, corrupt, cloned>>

FreeAgain(t) ==
  /\ ~corrupt
  /\ drops[t] # <<>>
  /\ ~Live(t, Head(drops[t]))
  /\ corrupt' = TRUE
  /\ UNCHANGED <<shared, building, owned, ops, cloned>>

\* A flake is parsed, locked or evaluated with settings that were freed.
UseFreed(t, i) ==
  /\ At(t, "idle")
  /\ ~AllLive(t, objs[t][i].flakes)
  /\ corrupt' = TRUE
  /\ UNCHANGED <<shared, building, owned, ops, cloned>>

----------------------------------------------------------------------------
(* NixSettings::with_store                                                 *)

\* A step of with_store to its next place.
Goto(t, place, next) ==
  /\ At(t, place)
  /\ pc' = [pc EXCEPT ![t] = next]
  /\ UNCHANGED <<ops, corrupt, cloned>>

\* with_store is called, and consumes the settings, with flakes or without.
Start(t, asked, flakes, rest) ==
  /\ At(t, "idle")
  /\ Count(t, "evaluator")
  /\ pc' = [pc EXCEPT ![t] = "stack"]
  /\ config' = [config EXCEPT ![t] = [asked |-> asked, flakes |-> flakes]]
  /\ Replace(t, rest, <<>>)
  /\ UNCHANGED <<shared, todo, loaded, local, heap, drops, corrupt, cloned>>

StartPlain(t, asked) == Start(t, asked, <<>>, objs[t])

StartWithFlakes(t, asked, i) ==
  /\ Is(t, i, "flakes")
  /\ Start(t, asked, objs[t][i].flakes, Without(t, i))

\* set_stack_size, and the initialisation of the libraries.
SetStack(t) ==
  /\ Goto(t, "stack", "store")
  /\ Write(t, Stack, Capped[config[t].asked[Stack]])
  /\ UNCHANGED <<config, todo, loaded, local, owned>>

\* NixStore::new
OpenStore(t) ==
  /\ Goto(t, "store", "builder")
  /\ Alloc(t, <<Handle("store", {})>>)
  /\ local' = [local EXCEPT ![t] = <<Fresh(t)>>]
  /\ UNCHANGED <<shared, config, todo, loaded, objs, drops>>

\* NixEvalStateBuilder::new
NewBuilder(t) ==
  /\ Goto(t, "builder", "flakes")
  /\ Alloc(t, <<Handle("builder", ToSet(local[t]))>>)
  /\ local' = [local EXCEPT ![t] = <<Fresh(t)>> \o @]
  /\ UNCHANGED <<shared, config, todo, loaded, objs, drops>>

\* What the settings of NixSettings are set after: all but the stack limit.
Settable(t) == DOMAIN config[t].asked \ {Stack}

\* The builder keeps the flake settings, if there are any.
AddFlakes(t) ==
  /\ Goto(t, "flakes", "options")
  /\ AllLive(t, config[t].flakes)
  /\ heap' = [heap EXCEPT ![t][Head(local[t])].uses = @ \cup ToSet(config[t].flakes)]
  /\ todo' = [todo EXCEPT ![t] = Settable(t)]
  /\ UNCHANGED <<shared, config, loaded, local, objs, drops>>

AddFreedFlakes(t) ==
  /\ At(t, "flakes")
  /\ ~AllLive(t, config[t].flakes)
  /\ corrupt' = TRUE
  /\ UNCHANGED <<shared, building, owned, ops, cloned>>

\* The settings come out of a HashMap, in any order.
SetOption(t, k) ==
  /\ At(t, "options")
  /\ k \in todo[t]
  /\ \E v \in Read(config[t].asked[k]) : Write(t, k, v)
  /\ todo' = [todo EXCEPT ![t] = @ \ {k}]
  /\ UNCHANGED <<pc, config, loaded, local, owned, ops, corrupt, cloned>>

\* Mutant: the builder loads the settings before all of them are set.
LoadSettingsEarly(t) ==
  /\ Goto(t, "options", "path")
  /\ loaded' = [loaded EXCEPT ![t] = options]
  /\ todo' = [todo EXCEPT ![t] = {}]
  /\ UNCHANGED <<shared, config, local, owned>>

\* NixEvalStateBuilder::load_settings
LoadSettings(t) ==
  /\ Goto(t, "options", "path")
  /\ todo[t] = {}
  /\ loaded' = [loaded EXCEPT ![t] = options]
  /\ UNCHANGED <<shared, config, todo, local, owned>>

\* NixEvalStateBuilder::set_lookup_path
SetLookupPath(t) ==
  /\ Goto(t, "path", "build")
  /\ UNCHANGED <<shared, config, todo, loaded, local, owned>>

\* Mutant: the fields of NixEvalState, and then its state.
FieldsFirst(state, store, flakes) == <<store>> \o flakes \o <<state>>

\* NixEvalState: its own Drop, then store, then settings.
EvaluatorGlue(state, store, flakes) == <<state, store>> \o flakes

\* Mutant: what was moved out of the local variables is still theirs.
LeaveCopied(t) ==
  /\ config' = [config EXCEPT ![t] = NoConfig]
  /\ todo' = [todo EXCEPT ![t] = {}]
  /\ loaded' = [loaded EXCEPT ![t] = NoSettings]
  /\ raced' = [raced EXCEPT ![t] = {}]
  /\ UNCHANGED local

\* with_store returns: its variables have been moved or are dropped.
Leave(t) ==
  /\ config' = [config EXCEPT ![t] = NoConfig]
  /\ todo' = [todo EXCEPT ![t] = {}]
  /\ local' = [local EXCEPT ![t] = <<>>]
  /\ loaded' = [loaded EXCEPT ![t] = NoSettings]
  /\ raced' = [raced EXCEPT ![t] = {}]

\* build consumes the builder, which is freed when build returns.
Build(t) ==
  /\ Goto(t, "build", "idle")
  /\ LET builder == local[t][1]
         store == local[t][2]
         flakes == config[t].flakes
     IN  /\ Alloc(t, <<Handle("state", heap[t][builder].uses)>>)
         /\ Replace(t, objs[t],
              <<Object("evaluator", EvaluatorGlue(Fresh(t), store, flakes), flakes, 0)>>)
         /\ Run(t, <<builder>>)
  /\ Leave(t)
  /\ UNCHANGED options

\* Mutant: the builder is forgotten when a later step fails.
FailForgets(t) == SelectSeq(local[t], LAMBDA h : heap[t][h].kind # "builder") \o config[t].flakes

\* What an early return drops: the local variables, the last one first, and
\* then self.  A failure of build finds the settings moved, and drops them
\* before the store.
FailGlue(t) ==
  IF pc[t] = "build" THEN <<local[t][1]>> \o config[t].flakes \o <<local[t][2]>>
  ELSE local[t] \o config[t].flakes

\* A step fails: with ?, or with a panic, which drops the same.
Fail(t) ==
  /\ Running(t)
  /\ pc[t] # "idle"
  /\ pc' = [pc EXCEPT ![t] = "idle"]
  /\ Run(t, FailGlue(t))
  /\ Leave(t)
  /\ UNCHANGED <<options, heap, objs, ops, corrupt, cloned>>

----------------------------------------------------------------------------
\* Nothing more happens: after corruption, or when all calls have returned.
Rest ==
  /\ corrupt \/ \A t \in Threads : At(t, "idle")
  /\ UNCHANGED vars

FlakeStep(t) ==
  \/ NewFlakes(t) \/ NewFlakesFails(t)
  \/ \E i \in DOMAIN objs[t] :
       \/ CloneFlakes(t, i) \/ NewRefSettings(t, i) \/ Parse(t, i) \/ ParseFails(t, i)
       \/ NewLockFlags(t, i) \/ DropObject(t, i) \/ UseFreed(t, i)
  \/ \E e, f, r \in DOMAIN objs[t] : Lock(t, e, f, r) \/ LockFails(t, e, f, r)

BuildStep(t) ==
  \/ \E asked \in Asks :
       \/ StartPlain(t, asked)
       \/ \E i \in DOMAIN objs[t] : StartWithFlakes(t, asked, i)
  \/ SetStack(t) \/ OpenStore(t) \/ NewBuilder(t) \/ AddFlakes(t) \/ AddFreedFlakes(t)
  \/ \E k \in Keys : SetOption(t, k)
  \/ LoadSettings(t) \/ SetLookupPath(t) \/ Build(t) \/ Fail(t)

Next ==
  \/ \E t \in Threads : FlakeStep(t) \/ BuildStep(t) \/ Free(t) \/ FreeAgain(t)
  \/ Rest

Spec == Init /\ [][Next]_vars

----------------------------------------------------------------------------
(* Properties.                                                             *)

Settings == [Keys -> Values]

Handles(t) == DOMAIN heap[t]

\* Every variable has its type; the local variables of with_store are those
\* that its place in the code has in scope.
TypeOK ==
  /\ options \in Settings
  /\ \A t \in Threads :
       /\ pc[t] \in {"idle", "stack", "store", "builder", "flakes", "options", "path", "build"}
       /\ config[t].asked \in Asks \cup {<<>>}
       /\ config[t].flakes \in Seq(Handles(t))
       /\ todo[t] \subseteq Keys
       /\ loaded[t] \in Settings
       /\ Len(local[t]) = CASE pc[t] \in {"idle", "stack", "store"} -> 0
                            [] pc[t] = "builder" -> 1
                            [] OTHER -> 2
       /\ \A h \in Handles(t) : heap[t][h].uses \subseteq Handles(t)
       /\ \A i \in DOMAIN objs[t] : objs[t][i].glue \in Seq(Handles(t))
       /\ drops[t] \in Seq(Handles(t))
       /\ raced[t] \subseteq Keys
  /\ ops \in [Threads -> [Creations -> Nat]]

\* All sequences of handles that will be freed, by objects or by code.
Owners(t) ==
  <<drops[t], local[t], config[t].flakes>> \o [i \in DOMAIN objs[t] |-> objs[t][i].glue]

Owns(glue, h) == Cardinality({i \in DOMAIN glue : glue[i] = h})

\* Every live handle has one owner, through every construction that fails
\* half-way and every move; only what flakes.rs leaves without a Drop or
\* loses in a failing constructor may have none.
OneOwner ==
  ~corrupt => \A t \in Threads : \A h \in Handles(t) \ cloned[t] : Live(t, h) =>
    LET owners == {i \in DOMAIN Owners(t) : Owns(Owners(t)[i], h) > 0}
    IN  /\ \A i \in owners : Owns(Owners(t)[i], h) = 1
        /\ Cardinality(owners) <= 1
        /\ heap[t][h].kind \notin {"parseflags", "settings", "ref"} => owners # {}

\* A builder or a state is freed before the store and the flake settings that
\* it was made with, in every order in which objects and locals are dropped.
UsersFreedFirst ==
  \A t \in Threads : \A h \in Handles(t) : Live(t, h) =>
    \A used \in heap[t][h].uses \ cloned[t] : Live(t, used)

\* Only a clone of flake settings makes a handle be freed twice, or used after
\* it was freed.
OnlyClonesCorrupt == corrupt => \E t \in Threads : cloned[t] # {}

Intended(asked, k) == IF k = Stack THEN Capped[asked[k]] ELSE asked[k]

HasLoaded(t) == pc[t] \in {"path", "build"}

\* An evaluator gets the settings that it was asked for, unless another thread
\* has set them after it: neither the order of the map nor an earlier
\* construction takes one away.
OwnUnlessRaced ==
  \A t \in Threads : HasLoaded(t) =>
    \A k \in DOMAIN config[t].asked \ raced[t] :
      loaded[t][k] \in {Intended(config[t].asked, k), Garbage}

\* README.org: settings are per evaluator, and the default is an empty one.  So
\* an evaluator has the defaults but for what it was asked for.
PerEvaluatorSettings ==
  \A t \in Threads : HasLoaded(t) =>
    \A k \in Keys \ DOMAIN config[t].asked : loaded[t][k] = Default
=============================================================================
