---------------------------- MODULE TracerProofs ----------------------------
(***************************************************************************)
(* Theorems about Tracer, for any paths, descriptors, number of system     *)
(* calls and hazards.                                                      *)
(***************************************************************************)
EXTENDS Tracer, TLAPS

----------------------------------------------------------------------------
(* The inductive invariant.                                                *)

\* What the registers of a call say: a descriptor that is read or closed is one
\* of the child's; an open has no descriptor before it has run, and its path in
\* the table afterwards.
CallsMatch ==
  /\ syscall.nr \in {"read", "getdents", "close"} => syscall.fd \in Fds
  /\ syscall.nr \in {"read", "getdents"} => table[syscall.fd] # Closed
  /\ syscall.nr = "open" => syscall.path \in Paths
  /\ syscall.nr = "open" /\ child \in {"entry", "kernel"} => syscall.fd = Failed
  /\ syscall.nr = "open" /\ syscall.fd \in Fds => table[syscall.fd] = syscall.path

\* Where the child may be while the parent is at each of its places.
PlacesMatch ==
  /\ pc = "attach" => child \in {"start", "trapped", "dead"}
  /\ pc \in {"wait", "pipe", "done"} =>
       child \in {"user", "entry", "signal", "dead"}
         \/ (child \in {"kernel", "exit"} /\ syscall.nr = "read")
  /\ pc = "stopped" =>
       child \in {"entry", "signal", "dead"} \/ (child = "exit" /\ syscall.nr = "read")
  /\ pc = "exitwait" => child \in {"kernel", "exit", "dead"} /\ syscall.nr # "read"
  /\ pc = "returned" => child \in {"exit", "dead"} /\ syscall.nr # "read"
  /\ pc = "err" => child \in {"start", "trapped", "dead"}
  /\ pc = "panic" => child \in {"entry", "exit", "signal", "dead"}

\* Which status each stop of the child leaves to collect.
StatusMatches ==
  status # "none" =>
    \/ child = "trapped" /\ status = "sigstop"
    \/ child \in {"entry", "exit"} /\ status = "syscall"
    \/ child = "signal" /\ status \in {"forwarded", "unexpected"}
    \/ child = "dead" /\ status \in {"exited", "killed"}

\* After its line, which the parent may have read, the child has only to exit.
AnswerIsLast ==
  /\ pipe = "line" => syscall.nr \in {"write", "exit"}
  /\ pc = "done" => pipe = "line"

\* DescriptorsAccurate, of the dead too: an open whose exit was not handled is
\* either in flight or has ended the loop with an error.
OpenPending(fd) ==
  /\ syscall.nr = "open" /\ syscall.fd = fd
  /\ pc \in {"exitwait", "returned"}
Known(fd) == fd \in DOMAIN fds /\ fds[fd] = table[fd]
DescriptorsKnown ==
  \A fd \in Fds : table[fd] \in Paths =>
    Known(fd) \/ OpenPending(fd) \/ (pc = "err" /\ child = "dead")

\* What has been read is recorded, but for a getdents whose exit is not handled;
\* a read is recorded before the kernel runs it.
AllRecorded ==
  /\ \A path \in didRead \cap Tracked :
       \/ path \in read_files
       \/ /\ syscall.nr = "getdents"
          /\ table[syscall.fd] = path
          /\ pc \in {"exitwait", "returned"}
       \/ pc \in {"err", "panic"}
  /\ child = "kernel" /\ syscall.nr = "read" /\ table[syscall.fd] \in Tracked =>
       table[syscall.fd] \in read_files
  /\ child = "exit" /\ syscall.nr \in {"read", "getdents"} =>
       table[syscall.fd] \in didRead

\* Nothing else is recorded, but for a read that the kernel has still to run or
\* a call in which the child was killed, unless the child has read a socket.
NothingElseRecorded ==
  \/ Sock \in didRead
  \/ read_files \subseteq didRead
  \/ child = "dead" /\ pipe = "empty"
  \/ /\ child = "kernel" /\ syscall.nr = "read"
     /\ table[syscall.fd] = Sock \/ read_files \subseteq didRead \cup {table[syscall.fd]}

IInv ==
  /\ TypeOK
  /\ CallsMatch
  /\ PlacesMatch
  /\ StatusMatches
  /\ AnswerIsLast
  /\ DescriptorsKnown
  /\ AllRecorded
  /\ NothingElseRecorded

----------------------------------------------------------------------------
(* The steps, grouped by what they touch.                                  *)

\* Steps that leave the calls, the tables and the answer alone: the child is
\* resumed, stopped or killed, or the parent goes on.
Moves ==
  \/ TraceMe \/ Exit \/ Kill \/ UnexpectedSignal \/ ForwardedSignal
  \/ Attach \/ Wait \/ WaitForeign \/ Forward \/ StoppedAtOther \/ StoppedDead
  \/ ExitWait \/ ReadLine

\* Steps that no conjunct but TypeOK can see.
Stutters == ForeignExit \/ Oversized \/ UNCHANGED vars

\* What is left has a case of its own in each proof.
LEMMA StepCases ==
  ASSUME [Next]_vars
  PROVE  \/ Enter \/ ChildPanics \/ Execute
         \/ StoppedAtRead \/ Returned \/ ReturnedDead
         \/ Moves \/ Stutters
  BY DEF Next, ChildNext, ParentNext, Environment, Over, Moves, Stutters

\* The variables that the invariant is about.
seen == <<child, syscall, table, didRead, pipe, status, pc, fds, read_files>>

\* A step that only the types can see changes nothing the rest speaks of.
LEMMA StuttersKeep == ASSUME Stutters PROVE UNCHANGED seen
  BY DEF Stutters, ForeignExit, Oversized, childVars, tracerVars, vars, seen

\* What a move leaves alone.
LEMMA MovesKeep ==
  ASSUME Moves
  PROVE  UNCHANGED <<syscall, table, didRead, pipe, fds, read_files>>
  BY DEF Moves, TraceMe, Exit, Kill, UnexpectedSignal, ForwardedSignal, Attach, Wait,
         WaitForeign, Forward, StoppedAtOther, StoppedDead, ExitWait, ReadLine, childVars,
         tracerVars

\* Every step keeps the types.
LEMMA TypeStep ==
  ASSUME TypeOK, CallsMatch, PlacesMatch, StatusMatches, [Next]_vars
  PROVE  TypeOK'
<1>1. CASE Enter
  BY <1>1, MaxCallsType DEF Enter, TypeOK, States, Statuses, StopAt, Call, tracerVars,
                            EvaluatorCalls
<1>2. CASE ChildPanics
  BY <1>2 DEF ChildPanics, TypeOK, States, Statuses, StopAt, Call, tracerVars
<1>3. CASE Execute
  BY <1>3 DEF Execute, TypeOK, States, Statuses, CallsMatch, StopAt, tracerVars,
              OpenOutcomes, Free
<1>4. CASE StoppedAtRead
  BY <1>4 DEF StoppedAtRead, TypeOK, States, Places, Statuses, Resume, Resumed, Record,
              UnknownFd, tracerVars
<1>5. CASE Returned
  BY <1>5 DEF Returned, TypeOK, States, Places, Statuses, CallsMatch, Resume, Resumed,
              Stopped, Record, UnknownFd, HandleOpen, tracerVars
<1>6. CASE ReturnedDead
  BY <1>6 DEF ReturnedDead, TypeOK, States, Places, Statuses, CallsMatch, PlacesMatch, Record,
              UnknownFd, HandleOpen, Failed, Call, childVars, tracerVars
<1>7. CASE Moves
  BY <1>7, MaxCallsType
  DEF Moves, TraceMe, Exit, Kill, UnexpectedSignal, ForwardedSignal, Attach, Wait, WaitForeign,
      Forward, StoppedAtOther, StoppedDead, ExitWait, ReadLine, TypeOK, States, Places, Statuses,
      PlacesMatch, StatusMatches, Strike, StopAt, Resume, Resumed, Stopped, childVars, tracerVars
<1>8. CASE Stutters
  BY <1>8 DEF Stutters, ForeignExit, Oversized, Strike, TypeOK, childVars, tracerVars, vars
<1> QED
  BY <1>1, <1>2, <1>3, <1>4, <1>5, <1>6, <1>7, <1>8, StepCases

\* The registers of a call stay those of the table.
LEMMA CallsMatchStep ==
  ASSUME IInv, TypeOK', [Next]_vars
  PROVE  CallsMatch'
<1>1. CASE Enter
  BY <1>1, FdsAreNumbers DEF Enter, CallsMatch, Call, Failed, EvaluatorCalls
<1>2. CASE ChildPanics
  BY <1>2 DEF ChildPanics, CallsMatch, Call
<1>3. CASE Execute
  BY <1>3 DEF Execute, TypeOK, IInv, CallsMatch, StopAt
<1>4. CASE StoppedAtRead
  BY <1>4 DEF StoppedAtRead, IInv, CallsMatch
<1>5. CASE Returned
  BY <1>5 DEF Returned, IInv, CallsMatch, PlacesMatch, Resume, Resumed
<1>6. CASE ReturnedDead
  BY <1>6 DEF ReturnedDead, IInv, CallsMatch, childVars
<1>7. CASE Moves
  BY <1>7 DEF Moves, TraceMe, Exit, Kill, UnexpectedSignal, ForwardedSignal, Attach, Wait,
              WaitForeign, Forward, StoppedAtOther, StoppedDead, ExitWait, ReadLine, IInv,
              CallsMatch, StopAt, Resume, Resumed, Stopped, childVars
<1>8. CASE Stutters
  BY <1>8, StuttersKeep DEF seen, IInv, CallsMatch
<1> QED
  BY <1>1, <1>2, <1>3, <1>4, <1>5, <1>6, <1>7, <1>8, StepCases

\* Child and parent stay in step.
LEMMA PlacesMatchStep ==
  ASSUME IInv, TypeOK', [Next]_vars
  PROVE  PlacesMatch'
<1>1. CASE Enter
  BY <1>1 DEF Enter, IInv, PlacesMatch, StopAt
<1>2. CASE ChildPanics
  BY <1>2 DEF ChildPanics, IInv, PlacesMatch, StopAt
<1>3. CASE Execute
  BY <1>3 DEF Execute, TypeOK, IInv, PlacesMatch, StopAt
<1>4. CASE StoppedAtRead
  BY <1>4 DEF StoppedAtRead, PlacesMatch, Resume, Resumed, UnknownFd
<1>5. CASE Returned
  BY <1>5 DEF Returned, IInv, PlacesMatch, Resume, Resumed, UnknownFd
<1>6. CASE ReturnedDead
  BY <1>6 DEF ReturnedDead, PlacesMatch, childVars
<1>7. CASE Moves
  BY <1>7 DEF Moves, TraceMe, Exit, Kill, UnexpectedSignal, ForwardedSignal, Attach, Wait,
              WaitForeign, Forward, StoppedAtOther, StoppedDead, ExitWait, ReadLine, IInv,
              PlacesMatch, StatusMatches, StopAt, Resume, Resumed, Stopped, childVars
<1>8. CASE Stutters
  BY <1>8, StuttersKeep DEF seen, IInv, PlacesMatch
<1> QED
  BY <1>1, <1>2, <1>3, <1>4, <1>5, <1>6, <1>7, <1>8, StepCases

\* A status stays that of the stop it was left by.
LEMMA StatusMatchesStep ==
  ASSUME IInv, TypeOK', [Next]_vars
  PROVE  StatusMatches'
<1>1. CASE Enter
  BY <1>1 DEF Enter, StatusMatches, StopAt
<1>2. CASE ChildPanics
  BY <1>2 DEF ChildPanics, StatusMatches, StopAt
<1>3. CASE Execute
  BY <1>3 DEF Execute, StatusMatches, StopAt
<1>4. CASE StoppedAtRead
  BY <1>4 DEF StoppedAtRead, IInv, StatusMatches, Resume, UnknownFd
<1>5. CASE Returned
  BY <1>5 DEF Returned, IInv, StatusMatches, Resume, UnknownFd
<1>6. CASE ReturnedDead
  BY <1>6 DEF ReturnedDead, IInv, StatusMatches, childVars
<1>7. CASE Moves
  BY <1>7 DEF Moves, TraceMe, Exit, Kill, UnexpectedSignal, ForwardedSignal, Attach, Wait,
              WaitForeign, Forward, StoppedAtOther, StoppedDead, ExitWait, ReadLine, IInv,
              StatusMatches, StopAt, Resume, childVars
<1>8. CASE Stutters
  BY <1>8, StuttersKeep DEF seen, IInv, StatusMatches
<1> QED
  BY <1>1, <1>2, <1>3, <1>4, <1>5, <1>6, <1>7, <1>8, StepCases

\* Nothing but exit follows the answer.
LEMMA AnswerIsLastStep ==
  ASSUME IInv, TypeOK', [Next]_vars
  PROVE  AnswerIsLast'
<1>1. CASE Enter
  BY <1>1 DEF Enter, IInv, AnswerIsLast, Call
<1>2. CASE ChildPanics
  BY <1>2 DEF ChildPanics, IInv, AnswerIsLast
<1>3. CASE Execute
  BY <1>3 DEF Execute, IInv, AnswerIsLast
<1>4. CASE StoppedAtRead
  BY <1>4 DEF StoppedAtRead, IInv, AnswerIsLast, Resume, UnknownFd
<1>5. CASE Returned
  BY <1>5 DEF Returned, IInv, AnswerIsLast, Resume, UnknownFd
<1>6. CASE ReturnedDead
  BY <1>6 DEF ReturnedDead, IInv, AnswerIsLast, UnknownFd, childVars
<1>7. CASE Moves
  BY <1>7, MovesKeep DEF Moves, TraceMe, Exit, Kill, UnexpectedSignal, ForwardedSignal,
                         Attach, Wait, WaitForeign, Forward, StoppedAtOther, StoppedDead,
                         ExitWait, ReadLine, IInv, PlacesMatch, StatusMatches, AnswerIsLast,
                         Resume
<1>8. CASE Stutters
  BY <1>8, StuttersKeep DEF seen, IInv, AnswerIsLast
<1> QED
  BY <1>1, <1>2, <1>3, <1>4, <1>5, <1>6, <1>7, <1>8, StepCases

\* The descriptor of a read or of getdents, where it is recorded: if it is that of
\* a file, file_descriptors has its path.
LEMMA DescriptorRead ==
  ASSUME IInv, syscall.nr \in {"read", "getdents"}, pc \in {"stopped", "returned"}
  PROVE  table[syscall.fd] = Sock \/ Known(syscall.fd)
<1>1. syscall.fd \in Fds /\ table[syscall.fd] \in Paths \cup {Sock}
  BY DEF IInv, TypeOK, CallsMatch
<1> QED
  BY <1>1 DEF IInv, DescriptorsKnown, OpenPending

\* What a system call does to the table and to what the child has read, and where
\* the parent is meanwhile.
LEMMA ExecuteEffect ==
  ASSUME IInv, Execute
  PROVE  /\ child = "kernel" /\ child' = "exit"
         /\ pc = IF syscall.nr = "read" THEN pc ELSE "exitwait"
         /\ pc \in {"wait", "pipe", "done", "exitwait"} /\ UNCHANGED <<pc, fds, read_files>>
         /\ \/ /\ syscall.nr \in {"read", "getdents"}
               /\ didRead' = didRead \cup {table[syscall.fd]}
               /\ UNCHANGED <<syscall, table, pipe>>
            \/ /\ syscall.nr \notin {"read", "getdents"}
               /\ syscall'.nr = syscall.nr
               /\ UNCHANGED didRead
<1>1. child = "kernel" /\ child' = "exit" /\ UNCHANGED <<pc, fds, read_files>>
  BY DEF Execute, StopAt, tracerVars
<1>2. \/ pc \in {"wait", "pipe", "done"} /\ syscall.nr = "read"
      \/ pc = "exitwait" /\ syscall.nr # "read"
  BY <1>1 DEF IInv, TypeOK, Places, PlacesMatch
<1>3. CASE syscall.nr \in {"open", "socket"}
  BY <1>1, <1>2, <1>3 DEF Execute, IInv, TypeOK
<1>4. CASE syscall.nr \notin {"open", "socket"}
  BY <1>1, <1>2, <1>4 DEF Execute
<1> QED
  BY <1>3, <1>4

\* The table changes at one descriptor: that of a close, or the one an open gets.
LEMMA ExecuteTable ==
  ASSUME IInv, Execute, NEW fd \in Fds
  PROVE  \/ table'[fd] = table[fd]
         \/ table'[fd] \notin Paths
         \/ syscall'.nr = "open" /\ syscall'.fd = fd
<1>1. CASE syscall.nr \in {"open", "socket"}
  <2>1. PICK new \in OpenOutcomes :
           /\ syscall' = [syscall EXCEPT !.fd = new]
           /\ table' = IF new = Failed THEN table
                       ELSE [table EXCEPT ![new] = IF syscall.nr = "open"
                                                   THEN syscall.path ELSE Sock]
    BY <1>1 DEF Execute
  <2>2. syscall'.nr = syscall.nr /\ syscall'.fd = new
    BY <2>1 DEF IInv, TypeOK
  <2>3. Sock \notin Paths
    BY NamelessAreNotPaths
  <2> QED
    BY <1>1, <2>1, <2>2, <2>3 DEF IInv, TypeOK
<1>2. CASE syscall.nr \notin {"open", "socket"}
  BY <1>2, NamelessAreNotPaths DEF Execute, IInv, TypeOK
<1> QED
  BY <1>1, <1>2

\* The map of descriptors follows the table.
LEMMA DescriptorsKnownStep ==
  ASSUME IInv, TypeOK', [Next]_vars
  PROVE  DescriptorsKnown'
<1>1. CASE Enter
  BY <1>1 DEF Enter, IInv, PlacesMatch, DescriptorsKnown, OpenPending, Known, tracerVars
<1>2. CASE ChildPanics
  BY <1>2 DEF ChildPanics, IInv, TypeOK, PlacesMatch, DescriptorsKnown, AllRecorded,
              NothingElseRecorded, OpenPending, Known, Strike, StopAt, Call, tracerVars
<1>3. CASE Execute
  <2>1. SUFFICES ASSUME NEW fd \in Fds, table'[fd] \in Paths
                 PROVE  Known(fd)' \/ OpenPending(fd)'
    BY DEF DescriptorsKnown
  <2>2. UNCHANGED <<pc, fds>> /\ pc \in {"wait", "pipe", "done", "exitwait"}
        /\ child = "kernel" /\ (syscall.nr # "read" => pc = "exitwait")
    BY <1>3, ExecuteEffect
  <2>3. CASE syscall'.nr = "open" /\ syscall'.fd = fd
    <3>1. syscall'.nr = syscall.nr
      BY <1>3, ExecuteEffect
    <3> QED
      BY <2>2, <2>3, <3>1 DEF OpenPending
  <2>4. CASE table'[fd] = table[fd]
    <3>1. ~OpenPending(fd)
      BY <2>2, FdsAreNumbers DEF OpenPending, IInv, CallsMatch, Failed
    <3> QED
      BY <2>1, <2>2, <2>4, <3>1 DEF IInv, DescriptorsKnown, Known
  <2> QED
    BY <1>3, <2>1, <2>3, <2>4, ExecuteTable
<1>4. CASE StoppedAtRead
  BY <1>4 DEF StoppedAtRead, IInv, DescriptorsKnown, OpenPending, Known, Record, UnknownFd,
              tracerVars
<1>5. CASE Returned
  BY <1>5 DEF Returned, IInv, CallsMatch, DescriptorsKnown, OpenPending, Known, Record,
              UnknownFd, HandleOpen, tracerVars
<1>6. CASE ReturnedDead
  BY <1>6 DEF ReturnedDead, IInv, DescriptorsKnown, OpenPending, Known, Record, UnknownFd,
              childVars, tracerVars
<1>7. CASE Moves
  BY <1>7, MovesKeep DEF Moves, TraceMe, Exit, Kill, UnexpectedSignal, ForwardedSignal,
                         Attach, Wait, WaitForeign, Forward, StoppedAtOther, StoppedDead,
                         ExitWait, ReadLine, IInv, PlacesMatch, StatusMatches,
                         DescriptorsKnown, OpenPending, Known
<1>8. CASE Stutters
  BY <1>8, StuttersKeep DEF seen, IInv, DescriptorsKnown, OpenPending, Known
<1> QED
  BY <1>1, <1>2, <1>3, <1>4, <1>5, <1>6, <1>7, <1>8, StepCases

\* No read is lost.
LEMMA AllRecordedStep ==
  ASSUME IInv, TypeOK', [Next]_vars
  PROVE  AllRecorded'
<1>1. CASE Enter
  BY <1>1 DEF Enter, IInv, PlacesMatch, AllRecorded, StopAt, tracerVars
<1>2. CASE ChildPanics
  BY <1>2 DEF ChildPanics, IInv, PlacesMatch, AllRecorded, Call, tracerVars
<1>3. CASE Execute
  <2>1. UNCHANGED <<pc, read_files>> /\ pc \in {"wait", "pipe", "done", "exitwait"}
        /\ child = "kernel" /\ child' = "exit" /\ (syscall.nr # "read" => pc = "exitwait")
    BY <1>3, ExecuteEffect
  <2>2. CASE /\ syscall.nr \in {"read", "getdents"}
             /\ didRead' = didRead \cup {table[syscall.fd]}
             /\ UNCHANGED <<syscall, table>>
    BY <2>1, <2>2 DEF IInv, AllRecorded
  <2>3. CASE /\ syscall.nr \notin {"read", "getdents"}
             /\ syscall'.nr = syscall.nr
             /\ UNCHANGED didRead
    BY <2>1, <2>3 DEF IInv, AllRecorded
  <2> QED
    BY <1>3, <2>2, <2>3, ExecuteEffect
<1>4. CASE StoppedAtRead
  <2>1. UNCHANGED <<syscall, table, didRead>> /\ syscall.nr = "read" /\ pc = "stopped"
        /\ child \in {"entry", "exit"}
    BY <1>4 DEF StoppedAtRead
  <2>2. CASE Record(syscall.fd) /\ Resume("wait")
    <3>1. table[syscall.fd] \in Tracked => table[syscall.fd] \in read_files'
      BY <2>1, <2>2, DescriptorRead, TrackedArePaths, NamelessAreNotPaths DEF Record, Known
    <3>2. read_files \subseteq read_files' /\ child' \in {"kernel", "user"}
      BY <2>1, <2>2 DEF Record, Resume, Resumed
    <3> QED
      BY <2>1, <3>1, <3>2 DEF IInv, AllRecorded
  <2>3. CASE UnknownFd(syscall.fd)
    BY <2>1, <2>3 DEF IInv, AllRecorded, UnknownFd, tracerVars
  <2> QED
    BY <1>4, <2>2, <2>3 DEF StoppedAtRead
<1>5. CASE Returned
  BY <1>5, TrackedArePaths DEF Returned, IInv, CallsMatch, PlacesMatch, DescriptorsKnown,
                               AllRecorded, OpenPending, Known, Record, UnknownFd,
                               HandleOpen, tracerVars
<1>6. CASE ReturnedDead
  BY <1>6, TrackedArePaths
  DEF ReturnedDead, TypeOK, IInv, CallsMatch, PlacesMatch, StatusMatches, DescriptorsKnown,
      AllRecorded, OpenPending, Known, Record, UnknownFd, HandleOpen, childVars, tracerVars,
      Failed
<1>7. CASE Moves
  BY <1>7 DEF Moves, TraceMe, Exit, Kill, UnexpectedSignal, ForwardedSignal, Attach, Wait,
              WaitForeign, Forward, StoppedAtOther, StoppedDead, ExitWait, ReadLine, IInv,
              PlacesMatch, AllRecorded, StopAt, Resume, Resumed, Stopped, childVars,
              tracerVars
<1>8. CASE Stutters
  BY <1>8, StuttersKeep DEF seen, IInv, AllRecorded
<1> QED
  BY <1>1, <1>2, <1>3, <1>4, <1>5, <1>6, <1>7, <1>8, StepCases

\* Nothing is recorded that is not read.
LEMMA NothingElseRecordedStep ==
  ASSUME IInv, TypeOK', [Next]_vars
  PROVE  NothingElseRecorded'
<1>1. CASE Enter
  BY <1>1 DEF Enter, IInv, NothingElseRecorded, tracerVars
<1>2. CASE ChildPanics
  BY <1>2 DEF ChildPanics, IInv, NothingElseRecorded, tracerVars
<1>3. CASE Execute
  BY <1>3 DEF Execute, IInv, NothingElseRecorded, tracerVars
<1>4. CASE StoppedAtRead
  <2>1. UNCHANGED <<syscall, table, didRead, pipe>> /\ syscall.nr = "read" /\ pc = "stopped"
        /\ child \in {"entry", "exit"}
    BY <1>4 DEF StoppedAtRead
  <2>2. Sock \in didRead \/ read_files \subseteq didRead
    BY <2>1 DEF IInv, NothingElseRecorded
  <2>3. CASE Record(syscall.fd) /\ Resume("wait")
    <3>1. table[syscall.fd] = Sock \/ read_files' \subseteq read_files \cup {table[syscall.fd]}
      BY <2>1, <2>3, DescriptorRead DEF Record, Known
    <3>2. CASE child = "entry"
      BY <2>1, <2>2, <2>3, <3>1, <3>2 DEF NothingElseRecorded, Resume, Resumed
    <3>3. CASE child = "exit"
      BY <2>1, <3>1, <3>3 DEF NothingElseRecorded, IInv, AllRecorded
    <3> QED
      BY <2>1, <3>2, <3>3
  <2>4. CASE UnknownFd(syscall.fd)
    BY <2>1, <2>2, <2>4 DEF NothingElseRecorded, UnknownFd, tracerVars
  <2> QED
    BY <1>4, <2>3, <2>4 DEF StoppedAtRead
<1>5. CASE Returned
  BY <1>5 DEF Returned, TypeOK, IInv, CallsMatch, PlacesMatch, DescriptorsKnown,
              AllRecorded, NothingElseRecorded, OpenPending, Known, Record, UnknownFd,
              HandleOpen, tracerVars
<1>6. CASE ReturnedDead
  BY <1>6 DEF ReturnedDead, TypeOK, IInv, AnswerIsLast, NothingElseRecorded, childVars,
              tracerVars
<1>7. CASE Moves
  BY <1>7 DEF Moves, TraceMe, Exit, Kill, UnexpectedSignal, ForwardedSignal, Attach, Wait,
              WaitForeign, Forward, StoppedAtOther, StoppedDead, ExitWait, ReadLine, IInv,
              TypeOK, AnswerIsLast, NothingElseRecorded, StopAt, Resume, Resumed, Stopped,
              childVars, tracerVars
<1>8. CASE Stutters
  BY <1>8, StuttersKeep DEF seen, IInv, NothingElseRecorded
<1> QED
  BY <1>1, <1>2, <1>3, <1>4, <1>5, <1>6, <1>7, <1>8, StepCases

----------------------------------------------------------------------------
(* The theorems.                                                           *)

\* The invariant holds when nothing has been forked.
LEMMA InitInv == Init => IInv
<1> SUFFICES ASSUME Init PROVE IInv
  OBVIOUS
<1>1. TypeOK
  BY MaxCallsType DEF Init, TypeOK, States, Places, Statuses, Call
<1>2. CallsMatch /\ PlacesMatch /\ StatusMatches /\ AnswerIsLast
  BY DEF Init, CallsMatch, PlacesMatch, StatusMatches, AnswerIsLast, Call
<1>3. DescriptorsKnown /\ AllRecorded /\ NothingElseRecorded
  BY NamelessAreNotPaths DEF Init, DescriptorsKnown, AllRecorded, NothingElseRecorded
<1> QED
  BY <1>1, <1>2, <1>3 DEF IInv

\* Every step of the child, of the parent and of the world around keeps the invariant.
LEMMA InvStep == IInv /\ [Next]_vars => IInv'
<1> SUFFICES ASSUME IInv, [Next]_vars PROVE IInv'
  OBVIOUS
<1>1. TypeOK'
  BY TypeStep DEF IInv
<1> QED
  BY <1>1, CallsMatchStep, PlacesMatchStep, StatusMatchesStep, AnswerIsLastStep,
     DescriptorsKnownStep, AllRecordedStep, NothingElseRecordedStep DEF IInv

\* The inductive invariant holds throughout: the places of watch, the stops of the
\* child, its table of descriptors and the map of the tracer agree with each other.
THEOREM Invariance == Spec => []IInv
  BY InitInv, InvStep, PTL DEF Spec

\* The variables of the tracer, its child and the kernel keep their types: a
\* path in the map is a path, and only tracked paths are recorded.
THEOREM TypeCorrect == Spec => []TypeOK
<1>1. IInv => TypeOK
  BY DEF IInv
<1> QED
  BY <1>1, Invariance, PTL

\* The loop never takes the entry of a call for an exit, or an exit for an entry
\* of another call than read, whatever signals and deaths come between.
THEOREM StopsAreCounted == Spec => []SyscallParity
<1>1. IInv => SyscallParity
  BY DEF IInv, PlacesMatch, SyscallParity
<1> QED
  BY <1>1, Invariance, PTL

\* file_descriptors has the path of every file that the living child has open,
\* after any number of calls, descriptors and reuses.
THEOREM DescriptorsFollow == Spec => []DescriptorsAccurate
<1>1. IInv => DescriptorsAccurate
  BY DEF IInv, DescriptorsKnown, DescriptorsAccurate, Known, OpenPending
<1> QED
  BY <1>1, Invariance, PTL

\* When watch returns its set, every tracked path that reached the child is in it.
THEOREM ReadsAreRecorded == Spec => []ReadsRecorded
<1>1. IInv => ReadsRecorded
  BY DEF IInv, AllRecorded, ReadsRecorded
<1> QED
  BY <1>1, Invariance, PTL

----------------------------------------------------------------------------
(* The refinement of TracedRun.                                            *)

\* A step that the cache does not see.
LEMMA Unseen ==
  ASSUME UNCHANGED <<RunPhase, RunRead, RunInputs>>
  PROVE  UNCHANGED Run!vars
  BY DEF Run!vars

\* The one run in terms of the functions that TracedRun is about.
LEMMA RunBecomes ==
  ASSUME NEW next, NEW paths, NEW recorded,
         RunPhase' = next, RunRead' = paths, RunInputs' = recorded
  PROVE  Run!Become("run", next, paths, recorded)
  BY DEF Run!Become

\* The loop fails.
LEMMA Stops ==
  ASSUME pc' \in {"err", "panic"}
  PROVE  Run!Next
<1>1. RunPhase' = "off" /\ RunRead' = {} /\ RunInputs' = {}
  BY DEF RunPhase, RunRead, RunInputs
<1> QED
  BY <1>1, RunBecomes DEF Run!Next, Run!Stop

\* The line has been read.
LEMMA Answers ==
  ASSUME IInv, ReadLine
  PROVE  Run!Next
<1>1. pc = "pipe" /\ pc' = "done" /\ pipe = "line" /\ UNCHANGED <<didRead, read_files>>
  BY DEF ReadLine, childVars, tracerVars
<1>2. didRead \cap Tracked \subseteq read_files /\ read_files \in SUBSET Tracked
  BY <1>1 DEF IInv, AllRecorded, TypeOK
<1>3. Sock \in didRead \/ read_files \subseteq didRead
  BY <1>1 DEF IInv, NothingElseRecorded, AnswerIsLast
<1>4. RunPhase = "running" /\ RunRead = didRead
  BY <1>1 DEF RunPhase, RunRead
<1>5. Run!Become("run", "answered", didRead, read_files)
  BY <1>1, RunBecomes DEF RunPhase, RunRead, RunInputs
<1> QED
  BY <1>2, <1>3, <1>4, <1>5 DEF Run!Next, Run!Answer

\* The kernel runs a read or a getdents.
LEMMA Reads ==
  ASSUME IInv, Execute
  PROVE  Run!Next \/ UNCHANGED Run!vars
<1>1. UNCHANGED <<pc, read_files>> /\ pc \in {"wait", "pipe", "done", "exitwait"}
      /\ (syscall.nr # "read" => pc = "exitwait")
  BY ExecuteEffect
<1>2. CASE UNCHANGED didRead
  BY <1>1, <1>2, Unseen DEF RunPhase, RunRead, RunInputs
<1>3. CASE syscall.nr \in {"read", "getdents"} /\ didRead' = didRead \cup {table[syscall.fd]}
  <2>1. PICK f \in Paths \cup {Sock} : didRead' = didRead \cup {f}
    BY <1>3 DEF IInv, TypeOK, CallsMatch
  <2>2. CASE pc = "done"
    BY <1>3, <2>2 DEF IInv, AnswerIsLast
  <2>3. CASE pc # "done"
    <3>1. RunPhase = "running" /\ RunRead = didRead
          /\ RunPhase' = "running" /\ RunRead' = didRead \cup {f} /\ RunInputs' = {}
      BY <1>1, <2>1, <2>3 DEF RunPhase, RunRead, RunInputs
    <3> QED
      BY <3>1, RunBecomes DEF Run!Next, Run!Read
  <2> QED
    BY <2>2, <2>3
<1> QED
  BY <1>2, <1>3, ExecuteEffect

\* Every step of the tracer is a step of a traced run, or changes nothing of it.
LEMMA RefinementStep == IInv /\ [Next]_vars => [Run!Next]_(Run!vars)
<1> SUFFICES ASSUME IInv, [Next]_vars PROVE Run!Next \/ UNCHANGED Run!vars
  OBVIOUS
<1>1. CASE Execute
  BY <1>1, Reads
<1>2. CASE ReadLine
  BY <1>2, Answers
<1>3. CASE pc' \in {"err", "panic"}
  BY <1>3, Stops
<1>4. CASE UNCHANGED <<pc, didRead, read_files>>
  BY <1>4, Unseen DEF RunPhase, RunRead, RunInputs
<1>5. CASE pc \notin {"done", "err", "panic"} /\ pc' \notin {"done", "err", "panic"}
           /\ UNCHANGED didRead
  BY <1>5, Unseen DEF RunPhase, RunRead, RunInputs
<1>6. CASE Enter \/ ChildPanics
  BY <1>4, <1>6 DEF Enter, ChildPanics, tracerVars
<1>7. CASE StoppedAtRead \/ Returned \/ ReturnedDead
  BY <1>3, <1>5, <1>7 DEF StoppedAtRead, Returned, ReturnedDead, Resume, UnknownFd,
                          childVars
<1>8. CASE Moves
  <2>1. \/ UNCHANGED pc
        \/ pc' \in {"err", "panic"}
        \/ ReadLine
        \/ pc \notin {"done", "err", "panic"} /\ pc' \notin {"done", "err", "panic"}
    BY <1>8 DEF Moves, TraceMe, Exit, Kill, UnexpectedSignal, ForwardedSignal, Attach, Wait,
                WaitForeign, Forward, StoppedAtOther, StoppedDead, ExitWait, Resume, IInv,
                PlacesMatch, StatusMatches
  <2> QED
    BY <1>2, <1>3, <1>4, <1>5, <1>8, <2>1, MovesKeep
<1>9. CASE Stutters
  BY <1>4, <1>9, StuttersKeep DEF seen
<1> QED
  BY <1>1, <1>6, <1>7, <1>8, <1>9, StepCases

\* Every child and loop, however they interleave and whatever strikes, are a traced
\* run: a caller who gets an answer gets the tracked paths that were read, and
\* no more unless the child has read from a socket.
THEOREM RunIsTraced == Spec => ImplementsTracedRun
<1>1. Init => Run!Init
  BY DEF Init, Run!Init, RunPhase, RunRead, RunInputs
<1> QED
  BY <1>1, RefinementStep, Invariance, PTL DEF Spec, ImplementsTracedRun, Run!Spec
=============================================================================
