-------------------------- MODULE EvaluatorsProofs --------------------------
(* That settings are not lost on the way from NixSettings to the builder:  *)
(* whatever the caller asked for is what the builder loads, or somebody    *)
(* else has set it meanwhile, for any threads, settings and flakes.        *)
EXTENDS Evaluators, TLAPS

Places == {"idle", "stack", "store", "builder", "flakes", "options", "path", "build"}

\* The types of what settings pass through, as far as the proof needs them.
TInv ==
  /\ options \in Settings
  /\ pc \in [Threads -> Places]
  /\ config = [t \in Threads |-> config[t]]
  /\ todo \in [Threads -> SUBSET Keys]
  /\ loaded \in [Threads -> Settings]
  /\ raced \in [Threads -> SUBSET Keys]
  /\ \A t \in Threads : pc[t] # "idle" => config[t].asked \in Asks

\* The stack limit is set first, and stays unless others set it.
StackSet(t) ==
  pc[t] \in {"store", "builder", "flakes", "options"} /\ Stack \notin raced[t] =>
    options[Stack] = Capped[config[t].asked[Stack]]

\* Of the other settings, those that are no longer to be set have been set.
OptionsSet(t) ==
  pc[t] = "options" =>
    /\ todo[t] \subseteq Settable(t)
    /\ \A k \in Settable(t) \ (todo[t] \cup raced[t]) :
         options[k] \in {config[t].asked[k], Garbage}

Taken(t) ==
  HasLoaded(t) =>
    \A k \in DOMAIN config[t].asked \ raced[t] :
      loaded[t][k] \in {Intended(config[t].asked, k), Garbage}

SettingsKept(t) == StackSet(t) /\ OptionsSet(t) /\ Taken(t)

IInv == TInv /\ \A t \in Threads : SettingsKept(t)

\* What an evaluator is asked for has the stack limit and known settings.
LEMMA AskedSettings ==
  ASSUME NEW asked \in Asks
  PROVE  /\ Stack \in DOMAIN asked
         /\ DOMAIN asked \subseteq Keys
         /\ \A k \in DOMAIN asked : asked[k] \in Values
<1> PICK K \in SUBSET Keys : Stack \in K /\ asked \in [K -> Values]
  BY AsksType
<1> QED
  OBVIOUS

\* At the start nothing is asked for, set or loaded.
LEMMA SettingsStart == Init => IInv
<1> SUFFICES ASSUME Init PROVE IInv
  OBVIOUS
<1>1. NoSettings \in Settings
  BY ValuesType DEF NoSettings, Settings
<1>2. TInv
  BY <1>1 DEF Init, TInv, Places, Settings
<1>3. ASSUME NEW t \in Threads PROVE SettingsKept(t)
  BY DEF Init, SettingsKept, StackSet, OptionsSet, Taken, HasLoaded
<1> QED
  BY <1>2, <1>3 DEF IInv

\* Steps that leave the settings and with_store alone.
LEMMA SettingsStutter == IInv /\ UNCHANGED <<shared, building>> => IInv'
  BY DEF IInv, TInv, SettingsKept, StackSet, OptionsSet, Taken, HasLoaded, Settable,
         Intended, shared, building

\* What a write does to the settings of a thread that is building: it takes
\* part in the write, or it sees a race.
LEMMA WriteKeeps ==
  ASSUME TInv, NEW t \in Threads, NEW k \in Keys, NEW v \in Values, Write(t, k, v)
  PROVE  /\ options' \in Settings
         /\ raced' \in [Threads -> SUBSET Keys]
         /\ options'[k] = v
         /\ \A j \in Keys \ {k} : options'[j] = options[j]
         /\ raced'[t] = raced[t] \ {k}
         /\ \A u \in Threads \ {t} : raced[u] \subseteq raced'[u]
         /\ \A u \in Threads \ {t} : BeforeLoad(u) => k \in raced'[u]
         /\ \A u \in Threads : ~BeforeLoad(u) /\ u # t => raced'[u] = raced[u]
         /\ \A u \in Threads \ {t} : BeforeLoad(u) => raced'[u] = raced[u] \cup {k}
  BY DEF TInv, Write, Settings

\* A thread that is not writing, and whose own variables do not change, keeps
\* its settings through a write of another thread.
LEMMA OthersKeep ==
  ASSUME TInv, NEW t \in Threads, NEW u \in Threads, u # t, SettingsKept(u),
         NEW k \in Keys, NEW v \in Values, Write(t, k, v),
         pc'[u] = pc[u], config'[u] = config[u], todo'[u] = todo[u], loaded'[u] = loaded[u]
  PROVE  SettingsKept(u)'
<1> USE WriteKeeps DEF TInv
<1>1. StackSet(u)'
  BY KeysType DEF SettingsKept, StackSet, BeforeLoad
<1>2. OptionsSet(u)'
  <2> SUFFICES ASSUME pc[u] = "options",
                      NEW j \in Settable(u) \ (todo[u] \cup raced'[u])
               PROVE  options'[j] \in {config[u].asked[j], Garbage}
    BY DEF SettingsKept, OptionsSet, Settable
  <2>1. j \in Keys /\ j # k
    BY AskedSettings DEF Settable, BeforeLoad
  <2> QED
    BY <2>1 DEF SettingsKept, OptionsSet, BeforeLoad
<1>3. Taken(u)'
  <2>1. HasLoaded(u)' = HasLoaded(u)
    BY DEF HasLoaded
  <2>2. HasLoaded(u) => raced'[u] = raced[u]
    BY DEF HasLoaded, BeforeLoad
  <2> QED
    BY <2>1, <2>2 DEF SettingsKept, Taken
<1> QED
  BY <1>1, <1>2, <1>3 DEF SettingsKept

\* A thread whose own variables and whose settings do not change.
LEMMA RestKeep ==
  ASSUME NEW u \in Threads, SettingsKept(u), options' = options, raced'[u] = raced[u],
         pc'[u] = pc[u], config'[u] = config[u], todo'[u] = todo[u], loaded'[u] = loaded[u]
  PROVE  SettingsKept(u)'
  BY DEF SettingsKept, StackSet, OptionsSet, Taken, HasLoaded, Settable, Intended

----------------------------------------------------------------------------
(* The steps that write settings.                                          *)

\* What is read as a setting is a setting, cut off or not.
LEMMA ReadValues == \A v \in Values : Read(v) \subseteq Values
  BY ValuesType DEF Read

\* FlakeSettings::new writes the features for every thread.
LEMMA NewFlakesKeeps ==
  ASSUME IInv, NEW t \in Threads, NewFlakes(t) PROVE IInv'
<1> USE DEF IInv
<1>1. PICK v \in Values : Write(t, Features, v)
  BY ReadValues, ValuesType DEF NewFlakes
<1>2. UNCHANGED building /\ pc[t] = "idle"
  BY DEF NewFlakes, Operation, At
<1>3. TInv'
  BY <1>1, <1>2, WriteKeeps, KeysType DEF TInv, building
<1>4. ASSUME NEW u \in Threads, u # t PROVE SettingsKept(u)'
  BY <1>1, <1>2, <1>4, OthersKeep, KeysType DEF building
<1>5. SettingsKept(t)'
  BY <1>2 DEF building, SettingsKept, StackSet, OptionsSet, Taken, HasLoaded
<1> QED
  BY <1>3, <1>4, <1>5

\* with_store sets the stack limit, which another thread may have to do with.
LEMMA SetStackKeeps ==
  ASSUME IInv, NEW t \in Threads, SetStack(t) PROVE IInv'
<1> USE DEF IInv
<1> DEFINE v == Capped[config[t].asked[Stack]]
<1>1. pc[t] = "stack" /\ config[t].asked \in Asks
  BY DEF SetStack, Goto, At, TInv
<1>2. v \in Values /\ Stack \in Keys
  BY <1>1, AskedSettings, ValuesType, KeysType
<1>3. Write(t, Stack, v) /\ pc' = [pc EXCEPT ![t] = "store"] /\ UNCHANGED <<config, todo, loaded>>
  BY DEF SetStack, Goto
<1> HIDE DEF v
<1>4. TInv'
  BY <1>1, <1>2, <1>3, WriteKeeps DEF TInv, Places
<1>5. ASSUME NEW u \in Threads, u # t PROVE SettingsKept(u)'
  BY <1>2, <1>3, <1>5, OthersKeep DEF TInv
<1>6. SettingsKept(t)'
  <2>1. pc'[t] = "store" /\ options'[Stack] = v
    BY <1>2, <1>3, WriteKeeps DEF TInv
  <2> QED
    BY <1>3, <2>1 DEF SettingsKept, StackSet, OptionsSet, Taken, HasLoaded, v
<1> QED
  BY <1>4, <1>5, <1>6

\* with_store sets one option; the others keep theirs or see a race.
LEMMA SetOptionKeeps ==
  ASSUME IInv, NEW t \in Threads, NEW k \in Keys, SetOption(t, k) PROVE IInv'
<1> USE DEF IInv
<1>1. /\ pc[t] = "options" /\ config[t].asked \in Asks
      /\ k \in todo[t]
      /\ todo' = [todo EXCEPT ![t] = @ \ {k}]
      /\ UNCHANGED <<pc, config, loaded>>
  BY DEF SetOption, At, TInv
<1>2. k \in Settable(t)
  BY <1>1 DEF SettingsKept, OptionsSet
<1>3. k # Stack /\ config[t].asked[k] \in Values
  BY <1>1, <1>2, AskedSettings DEF Settable
<1>4. PICK v \in Read(config[t].asked[k]) : Write(t, k, v)
  BY DEF SetOption
<1>5. v \in Values /\ v \in {config[t].asked[k], Garbage}
  BY <1>3, <1>4, ReadValues DEF Read
<1>6. TInv'
  BY <1>1, <1>4, <1>5, WriteKeeps DEF TInv
<1>7. ASSUME NEW u \in Threads, u # t PROVE SettingsKept(u)'
  BY <1>1, <1>4, <1>5, <1>7, OthersKeep DEF TInv
<1>8. SettingsKept(t)'
  <2>1. /\ options'[k] = v
        /\ \A j \in Keys \ {k} : options'[j] = options[j]
        /\ raced'[t] = raced[t] \ {k}
        /\ todo'[t] = todo[t] \ {k}
    BY <1>1, <1>4, <1>5, WriteKeeps DEF TInv
  <2>2. StackSet(t)'
    BY <1>1, <1>3, <2>1, KeysType DEF SettingsKept, StackSet
  <2>3. OptionsSet(t)'
    <3>1. Settable(t)' = Settable(t) /\ todo'[t] \subseteq Settable(t)
      BY <1>1, <2>1 DEF Settable, SettingsKept, OptionsSet
    <3>2. ASSUME NEW j \in Settable(t) \ (todo'[t] \cup raced'[t])
          PROVE  options'[j] \in {config[t].asked[j], Garbage}
      <4>1. CASE j = k
        BY <4>1, <2>1, <1>5
      <4>2. CASE j # k
        <5>1. j \in Keys
          BY <1>1, AskedSettings DEF Settable
        <5> QED
          BY <4>2, <5>1, <1>1, <2>1 DEF SettingsKept, OptionsSet
      <4> QED
        BY <4>1, <4>2
    <3> QED
      BY <1>1, <3>1, <3>2 DEF OptionsSet
  <2>4. Taken(t)'
    BY <1>1 DEF Taken, HasLoaded
  <2> QED
    BY <2>2, <2>3, <2>4 DEF SettingsKept
<1> QED
  BY <1>6, <1>7, <1>8

----------------------------------------------------------------------------
(* The steps that write no setting.                                        *)

\* A step of t that leaves what other threads have.
OthersAlone(t) ==
  /\ options' = options
  /\ \A u \in Threads \ {t} :
       /\ raced'[u] = raced[u]
       /\ pc'[u] = pc[u]
       /\ config'[u] = config[u]
       /\ todo'[u] = todo[u]
       /\ loaded'[u] = loaded[u]

\* A step of one thread that writes no setting only has its own to answer for.
LEMMA OwnStepKeeps ==
  ASSUME IInv, NEW t \in Threads, TInv', SettingsKept(t)', OthersAlone(t) PROVE IInv'
<1>1. ASSUME NEW u \in Threads, u # t PROVE SettingsKept(u)'
  BY <1>1, RestKeep DEF IInv, OthersAlone
<1> QED
  BY <1>1 DEF IInv

\* with_store begins.
LEMMA StartKeeps ==
  ASSUME IInv, NEW t \in Threads, NEW asked \in Asks, NEW flakes, NEW I,
         Start(t, asked, flakes, I)
  PROVE  IInv'
<1>1. TInv' /\ OthersAlone(t)
  BY DEF Start, IInv, TInv, OthersAlone, Places, shared
<1>2. SettingsKept(t)'
  BY DEF Start, IInv, TInv, SettingsKept, StackSet, OptionsSet, Taken, HasLoaded
<1> QED
  BY <1>1, <1>2, OwnStepKeeps

\* The store is opened, or not.
LEMMA OpenStoreKeeps ==
  ASSUME IInv, NEW t \in Threads, OpenStore(t) PROVE IInv'
<1>1. TInv' /\ OthersAlone(t)
  BY DEF OpenStore, Goto, At, IInv, TInv, OthersAlone, Places, shared
<1>2. SettingsKept(t)'
  BY DEF OpenStore, Goto, At, IInv, TInv, shared, SettingsKept, StackSet, OptionsSet, Taken, HasLoaded
<1> QED
  BY <1>1, <1>2, OwnStepKeeps

\* The builder is made, or not.
LEMMA NewBuilderKeeps ==
  ASSUME IInv, NEW t \in Threads, NewBuilder(t) PROVE IInv'
<1>1. TInv' /\ OthersAlone(t)
  BY DEF NewBuilder, Goto, At, IInv, TInv, OthersAlone, Places, shared
<1>2. SettingsKept(t)'
  BY DEF NewBuilder, Goto, At, IInv, TInv, shared, SettingsKept, StackSet, OptionsSet, Taken, HasLoaded
<1> QED
  BY <1>1, <1>2, OwnStepKeeps

\* Flake settings are added to the builder; the options are to be set next.
LEMMA AddFlakesKeeps ==
  ASSUME IInv, NEW t \in Threads, AddFlakes(t) PROVE IInv'
<1>1. /\ pc[t] = "flakes" /\ pc' = [pc EXCEPT ![t] = "options"]
      /\ todo' = [todo EXCEPT ![t] = Settable(t)]
      /\ UNCHANGED <<options, raced, config, loaded>>
      /\ config[t].asked \in Asks
  BY DEF AddFlakes, Goto, At, IInv, TInv, shared
<1>2. Settable(t) \subseteq Keys
  BY <1>1, AskedSettings DEF Settable
<1>3. TInv' /\ OthersAlone(t)
  BY <1>1, <1>2 DEF IInv, TInv, OthersAlone, Places
<1>4. SettingsKept(t)'
  BY <1>1 DEF IInv, TInv, Settable, SettingsKept, StackSet, OptionsSet, Taken, HasLoaded
<1> QED
  BY <1>3, <1>4, OwnStepKeeps

\* The builder loads the settings of the process as they are.
LEMMA LoadSettingsKeeps ==
  ASSUME IInv, NEW t \in Threads, LoadSettings(t) PROVE IInv'
<1>1. /\ pc[t] = "options" /\ pc' = [pc EXCEPT ![t] = "path"]
      /\ todo[t] = {}
      /\ loaded' = [loaded EXCEPT ![t] = options]
      /\ UNCHANGED <<options, raced, config, todo>>
  BY DEF LoadSettings, Goto, At, shared
<1>2. TInv' /\ OthersAlone(t)
  BY <1>1 DEF IInv, TInv, OthersAlone, Places
<1>3. ASSUME NEW k \in DOMAIN config[t].asked \ raced[t]
      PROVE  options[k] \in {Intended(config[t].asked, k), Garbage}
  <2>1. CASE k = Stack
    BY <1>1, <2>1 DEF IInv, SettingsKept, StackSet, Intended
  <2>2. CASE k # Stack
    BY <1>1, <2>2 DEF IInv, SettingsKept, OptionsSet, Settable, Intended
  <2> QED
    BY <2>1, <2>2
<1>4. SettingsKept(t)'
  <2>1. loaded'[t] = options /\ pc'[t] = "path"
    BY <1>1 DEF IInv, TInv
  <2> QED
    BY <1>1, <1>3, <2>1 DEF SettingsKept, StackSet, OptionsSet, Taken, Intended
<1> QED
  BY <1>2, <1>4, OwnStepKeeps

\* The lookup path is set, or not.
LEMMA SetLookupPathKeeps ==
  ASSUME IInv, NEW t \in Threads, SetLookupPath(t) PROVE IInv'
<1>1. TInv' /\ OthersAlone(t)
  BY DEF SetLookupPath, Goto, At, IInv, TInv, OthersAlone, Places, shared
<1>2. SettingsKept(t)'
  BY DEF SetLookupPath, Goto, At, IInv, TInv, shared, SettingsKept, StackSet, OptionsSet,
         Taken, HasLoaded, Intended
<1> QED
  BY <1>1, <1>2, OwnStepKeeps

\* with_store returns, with an evaluator or with an error.
LEMMA LeaveKeeps ==
  ASSUME IInv, NEW t \in Threads, Leave(t), options' = options,
         pc' = [pc EXCEPT ![t] = "idle"]
  PROVE  IInv'
<1>1. NoSettings \in Settings
  BY ValuesType DEF NoSettings, Settings
<1>2. TInv' /\ OthersAlone(t)
  BY <1>1 DEF Leave, IInv, TInv, OthersAlone, Places
<1>3. SettingsKept(t)'
  BY DEF IInv, TInv, SettingsKept, StackSet, OptionsSet, Taken, HasLoaded
<1> QED
  BY <1>2, <1>3, OwnStepKeeps

----------------------------------------------------------------------------
\* What else is done with flakes writes no setting.
LEMMA FlakeStepKeeps ==
  ASSUME IInv, NEW t \in Threads, FlakeStep(t) PROVE IInv'
<1>1. CASE NewFlakes(t)
  BY <1>1, NewFlakesKeeps
<1>2. CASE ~NewFlakes(t)
  <2>1. UNCHANGED <<shared, building>>
    BY <1>2 DEF FlakeStep, NewFlakesFails, CloneFlakes, NewRefSettings, RefSettings, Parse,
                ParseFails, NewLockFlags, DropObject, UseFreed, Lock, LockFails, Operation
  <2> QED
    BY <2>1, SettingsStutter
<1> QED
  BY <1>1, <1>2

\* The steps of with_store, one by one.
LEMMA BuildStepKeeps ==
  ASSUME IInv, NEW t \in Threads, BuildStep(t) PROVE IInv'
<1>1. ASSUME NEW asked \in Asks, StartPlain(t, asked) PROVE IInv'
  BY <1>1, StartKeeps DEF StartPlain
<1>2. ASSUME NEW asked \in Asks, NEW i \in DOMAIN objs[t], StartWithFlakes(t, asked, i)
      PROVE  IInv'
  BY <1>2, StartKeeps DEF StartWithFlakes
<1>3. CASE AddFreedFlakes(t)
  BY <1>3, SettingsStutter DEF AddFreedFlakes
<1>4. CASE Build(t)
  BY <1>4, LeaveKeeps DEF Build, Goto
<1>5. CASE Fail(t)
  BY <1>5, LeaveKeeps DEF Fail
<1> QED
  BY <1>1, <1>2, <1>3, <1>4, <1>5, SetStackKeeps, OpenStoreKeeps, NewBuilderKeeps,
     AddFlakesKeeps, SetOptionKeeps, LoadSettingsKeeps, SetLookupPathKeeps DEF BuildStep

\* Every step of every thread keeps the settings in order.
LEMMA SettingsStep == IInv /\ [Next]_vars => IInv'
<1> SUFFICES ASSUME IInv, [Next]_vars PROVE IInv'
  OBVIOUS
<1>1. ASSUME NEW t \in Threads, FlakeStep(t) PROVE IInv'
  BY <1>1, FlakeStepKeeps
<1>2. ASSUME NEW t \in Threads, BuildStep(t) PROVE IInv'
  BY <1>2, BuildStepKeeps
<1>3. ASSUME NEW t \in Threads, Free(t) \/ FreeAgain(t) PROVE IInv'
  BY <1>3, SettingsStutter DEF Free, FreeAgain
<1>4. CASE Rest \/ UNCHANGED vars
  BY <1>4, SettingsStutter DEF Rest, vars
<1> QED
  BY <1>1, <1>2, <1>3, <1>4 DEF Next

\* What with_store was asked to set is what its builder loads: for any number
\* of threads that set and load side by side, a setting differs from the one
\* asked for only if another thread wrote it after this one, or if the bytes
\* behind its string were taken for a part of it.
THEOREM SettingsReachTheEvaluator == Spec => []OwnUnlessRaced
<1>1. Init => IInv
  BY SettingsStart
<1>2. IInv /\ [Next]_vars => IInv'
  BY SettingsStep
<1>3. IInv => OwnUnlessRaced
  BY DEF IInv, SettingsKept, Taken, OwnUnlessRaced
<1> QED
  BY <1>1, <1>2, <1>3, PTL DEF Spec
=============================================================================
