------------------------------- MODULE Tracer -------------------------------
(***************************************************************************)
(* The ptrace loop that finds out which files an evaluation reads:         *)
(* FileTracer of eval_cache/trace.rs, the child of evaluate_traced that it *)
(* watches, and the pipe over which eval_attr_from_file then reads the     *)
(* child's answer.                                                         *)
(*                                                                         *)
(* The kernel's side of ptrace and wait is external: a traced child stops  *)
(* at the entry and at the exit of every system call and at every signal,  *)
(* and each stop is a status that wait() returns once.                     *)
(***************************************************************************)
EXTENDS Integers, FiniteSets

CONSTANTS
  Paths,      \* paths of files and directories
  Tracked,    \* the paths for which should_track_file holds
  Fds,        \* descriptors that the kernel hands out, as numbers
  Syscalls,   \* system calls besides write and exit that the child makes
  MaxCalls,   \* bound on their number
  Hazards     \* what may go wrong: a subset of {"kill", "signal", "foreign",
              \* "panic", "oversized"}

ASSUME TrackedArePaths == Tracked \subseteq Paths
ASSUME FdsAreNumbers == Fds \subseteq Nat /\ IsFiniteSet(Fds)
ASSUME MaxCallsType == MaxCalls \in Nat

VARIABLES
  child,       \* where the child is: see States
  syscall,     \* its current or last system call: number, path, descriptor
  table,       \* its open descriptors: what each one refers to
  left,        \* system calls that it may still make before it answers
  didRead,     \* history: the paths whose content or entries it has got
  status,      \* its wait status that nobody has collected
  other,       \* another child of the same parent: "running", "zombie", "reaped"
  pipe,        \* the pipe: "empty" or "line"
  pc,          \* where the parent is: see Places
  fds,         \* file_descriptors
  read_files,  \* read_files
  struck       \* history: the hazards that have occurred

childVars == <<child, syscall, table, left, didRead, pipe>>
tracerVars == <<fds, read_files>>
vars == <<child, syscall, table, left, didRead, status, other, pipe, pc, fds,
          read_files, struck>>

States == {"start", "trapped", "user", "entry", "kernel", "exit", "signal", "dead"}
Places == {"attach", "wait", "stopped", "exitwait", "returned", "pipe", "done",
           "err", "panic"}
Statuses == {"none", "sigstop", "syscall", "forwarded", "unexpected", "exited",
             "killed"}

Closed == "closed"
Sock == "socket"
ASSUME NamelessAreNotPaths == {Closed, Sock} \cap Paths = {}

Call(nr, path, fd) == [nr |-> nr, path |-> path, fd |-> fd]
Failed == -1

Init ==
  /\ child = "start"
  /\ syscall = Call("none", Closed, Failed)
  /\ table = [fd \in Fds |-> Closed]
  /\ left = MaxCalls
  /\ didRead = {}
  /\ status = "none"
  /\ other = "running"
  /\ pipe = "empty"
  /\ pc = "attach"
  /\ fds = [fd \in {} |-> Closed]
  /\ read_files = {}
  /\ struck = {}

----------------------------------------------------------------------------
(* The child, and the kernel on its behalf.                                *)

\* The child stops, and the parent has a status to collect.
StopAt(place, s) ==
  /\ child' = place
  /\ status' = s

\* ptrace::traceme, raise(SIGSTOP)
TraceMe ==
  /\ child = "start"
  /\ StopAt("trapped", "sigstop")
  /\ UNCHANGED <<syscall, table, left, didRead, other, pipe, pc, tracerVars, struck>>

\* The system calls of the evaluator: it reads what it has open.
EvaluatorCalls ==
  {Call("open", path, Failed) : path \in Paths}
    \cup {Call("socket", Closed, Failed)}
    \cup UNION {{Call(nr, Closed, fd) : nr \in {"read", "getdents", "close"}} :
                  fd \in {fd \in Fds : table[fd] # Closed}}

\* While it may, the child makes system calls of the evaluator; then it writes
\* its line and exits.  It reads no descriptor that it has not opened.
Enter ==
  /\ child = "user"
  /\ \/ /\ left > 0
        /\ pipe = "empty"
        /\ left' = left - 1
        /\ syscall' \in {c \in EvaluatorCalls : c.nr \in Syscalls}
     \/ /\ pipe = "empty"
        /\ left' = 0
        /\ syscall' = Call("write", Closed, Failed)
     \/ /\ pipe = "line"
        /\ syscall' = Call("exit", Closed, Failed)
        /\ UNCHANGED left
  /\ StopAt("entry", "syscall")
  /\ UNCHANGED <<table, didRead, other, pipe, pc, tracerVars, struck>>

\* A panic in the child (an unwrap) ends it before it has written anything.
ChildPanics ==
  /\ "panic" \in Hazards
  /\ child = "user"
  /\ pipe = "empty"
  /\ syscall' = Call("exit", Closed, Failed)
  /\ struck' = struck \cup {"panic"}
  /\ StopAt("entry", "syscall")
  /\ UNCHANGED <<table, left, didRead, other, pipe, pc, tracerVars>>

Free == {fd \in Fds : table[fd] = Closed}

\* The lowest free descriptor, or failure: the path names nothing.
OpenOutcomes ==
  {Failed} \cup {fd \in Free : \A fd2 \in Free : fd <= fd2}

\* A system call runs and stops at its exit.
Execute ==
  /\ child = "kernel"
  /\ CASE syscall.nr \in {"open", "socket"} ->
            \E fd \in OpenOutcomes :
              /\ syscall' = [syscall EXCEPT !.fd = fd]
              /\ table' = IF fd = Failed THEN table
                          ELSE [table EXCEPT ![fd] = IF syscall.nr = "open"
                                                     THEN syscall.path ELSE Sock]
              /\ UNCHANGED <<didRead, pipe>>
       [] syscall.nr = "close" ->
            /\ table' = [table EXCEPT ![syscall.fd] = Closed]
            /\ UNCHANGED <<syscall, didRead, pipe>>
       [] syscall.nr \in {"read", "getdents"} ->
            /\ didRead' = didRead \cup {table[syscall.fd]}
            /\ UNCHANGED <<syscall, table, pipe>>
       [] syscall.nr = "write" ->
            /\ "oversized" \notin struck
            /\ pipe' = "line"
            /\ UNCHANGED <<syscall, table, didRead>>
       [] OTHER -> FALSE
  /\ StopAt("exit", "syscall")
  /\ UNCHANGED <<left, other, pc, tracerVars, struck>>

\* exit_group does not return.
Exit ==
  /\ child = "kernel"
  /\ syscall.nr = "exit"
  /\ StopAt("dead", "exited")
  /\ UNCHANGED <<syscall, table, left, didRead, other, pipe, pc, tracerVars, struck>>

----------------------------------------------------------------------------
(* What may go wrong around the child.                                     *)

Strike(h) ==
  /\ h \in Hazards \ struck
  /\ struck' = struck \cup {h}

Kill ==
  /\ Strike("kill")
  /\ child \notin {"start", "dead"}
  /\ StopAt("dead", "killed")
  /\ UNCHANGED <<syscall, table, left, didRead, other, pipe, pc, tracerVars>>

\* Some other signal than the two the tracer forwards.
UnexpectedSignal ==
  /\ Strike("signal")
  /\ child = "user"
  /\ StopAt("signal", "unexpected")
  /\ UNCHANGED <<syscall, table, left, didRead, other, pipe, pc, tracerVars>>

\* SIGCHLD, SIGWINCH; bounded like a system call.
ForwardedSignal ==
  /\ child = "user"
  /\ left > 0
  /\ left' = left - 1
  /\ StopAt("signal", "forwarded")
  /\ UNCHANGED <<syscall, table, didRead, other, pipe, pc, tracerVars, struck>>

\* Another child of the calling process exits.
ForeignExit ==
  /\ Strike("foreign")
  /\ other' = "zombie"
  /\ UNCHANGED <<childVars, status, pc, tracerVars>>

\* The answer is longer than the pipe holds, and nobody reads the pipe yet.
Oversized ==
  /\ Strike("oversized")
  /\ pipe = "empty"
  /\ UNCHANGED <<childVars, status, other, pc, tracerVars>>

----------------------------------------------------------------------------
(* The parent: FileTracer::watch.                                          *)

\* ptrace::syscall: a stopped child runs to its next stop; a dead one is ESRCH.
Resumed == [trapped |-> "user", entry |-> "kernel", exit |-> "user", signal |-> "user"]
Stopped == child \in DOMAIN Resumed
Resume(next) ==
  /\ Stopped
  /\ child' = Resumed[child]
  /\ status' = "none"
  /\ pc' = next

\* The first wait takes whichever status is there.
Attach ==
  /\ pc = "attach"
  /\ \/ /\ status # "none"
        /\ UNCHANGED other
     \/ /\ other = "zombie"
        /\ other' = "reaped"
  /\ \/ Resume("wait")
     \/ /\ ~Stopped
        /\ pc' = "err"
        /\ UNCHANGED <<child, status>>
  /\ UNCHANGED <<syscall, table, left, didRead, pipe, tracerVars, struck>>

\* wait() returns a status of the child.
Wait ==
  /\ pc = "wait"
  /\ status # "none"
  /\ status' = "none"
  /\ pc' = CASE status = "exited" -> "pipe"
             [] status = "killed" -> "err"
             [] status = "unexpected" -> "panic"
             [] status \in {"syscall", "forwarded"} -> "stopped"
  /\ UNCHANGED <<childVars, other, tracerVars, struck>>

\* wait() returns another child's exit, which ends the loop as well.
WaitForeign ==
  /\ pc = "wait"
  /\ other = "zombie"
  /\ other' = "reaped"
  /\ pc' = "pipe"
  /\ UNCHANGED <<childVars, status, tracerVars, struck>>

\* The child stopped for a signal, which is passed on to it.
Forward ==
  /\ pc = "stopped"
  /\ child = "signal"
  /\ Resume("wait")
  /\ UNCHANGED <<syscall, table, left, didRead, other, pipe, tracerVars, struck>>

\* Mutant: every file is recorded.
RecordAny(fd) ==
  /\ fd \in DOMAIN fds
  /\ read_files' = read_files \cup {fds[fd]}
  /\ UNCHANGED fds

\* handle_access for FileRead and ListDir
Record(fd) ==
  /\ fd \in DOMAIN fds
  /\ read_files' = read_files \cup ({fds[fd]} \cap Tracked)
  /\ UNCHANGED fds

UnknownFd(fd) ==
  /\ fd \notin DOMAIN fds
  /\ pc' = "panic"
  /\ UNCHANGED <<child, status, tracerVars>>

\* read is handled at its entry, and again at its exit.
StoppedAtRead ==
  /\ pc = "stopped"
  /\ child \in {"entry", "exit"}
  /\ syscall.nr = "read"
  /\ \/ Record(syscall.fd) /\ Resume("wait")
     \/ UnknownFd(syscall.fd)
  /\ UNCHANGED <<syscall, table, left, didRead, other, pipe, struck>>

\* Mutant: the exit of the call is not waited for.
StoppedAtOtherAsync ==
  /\ pc = "stopped"
  /\ child \in {"entry", "exit"}
  /\ syscall.nr # "read"
  /\ Resume("wait")
  /\ UNCHANGED <<syscall, table, left, didRead, other, pipe, tracerVars, struck>>

\* Every other call runs to its exit first: wait_till_syscall_exit.
StoppedAtOther ==
  /\ pc = "stopped"
  /\ child \in {"entry", "exit"}
  /\ syscall.nr # "read"
  /\ Resume("exitwait")
  /\ UNCHANGED <<syscall, table, left, didRead, other, pipe, tracerVars, struck>>

\* The child died after wait() had returned: getregs or ptrace::syscall fails.
StoppedDead ==
  /\ pc = "stopped"
  /\ child = "dead"
  /\ pc' = "err"
  /\ UNCHANGED <<childVars, status, other, tracerVars, struck>>

\* waitpid(pid): whatever the status is, it is taken for the exit of the call.
ExitWait ==
  /\ pc = "exitwait"
  /\ status # "none"
  /\ status' = "none"
  /\ pc' = "returned"
  /\ UNCHANGED <<childVars, other, tracerVars, struck>>

\* Mutants: a descriptor that is used again keeps its first path, or every
\* open replaces the map.
HandleOpenOnce ==
  /\ fds' = [fd \in DOMAIN fds \cup {syscall.fd} |->
               IF fd \in DOMAIN fds THEN fds[fd] ELSE syscall.path]
  /\ UNCHANGED read_files

HandleOpenLast ==
  /\ fds' = [fd \in {syscall.fd} |-> syscall.path]
  /\ UNCHANGED read_files

\* Mutant: what is opened is taken for an input.
HandleOpenRecords ==
  /\ fds' = [fd \in DOMAIN fds \cup {syscall.fd} |->
               IF fd = syscall.fd THEN syscall.path ELSE fds[fd]]
  /\ read_files' = read_files \cup ({syscall.path} \cap Tracked)

\* A failed open returns an error number, which is recorded like a descriptor.
HandleOpen ==
  /\ fds' = [fd \in DOMAIN fds \cup {syscall.fd} |->
               IF fd = syscall.fd THEN syscall.path ELSE fds[fd]]
  /\ UNCHANGED read_files

Returned ==
  /\ pc = "returned"
  /\ child # "dead"
  /\ \/ syscall.nr = "open" /\ HandleOpen /\ Resume("wait")
     \/ syscall.nr = "getdents" /\ Record(syscall.fd) /\ Resume("wait")
     \/ syscall.nr = "getdents" /\ UnknownFd(syscall.fd)
     \/ /\ syscall.nr \notin {"open", "getdents"}
        /\ Resume("wait")
        /\ UNCHANGED tracerVars
  /\ UNCHANGED <<syscall, table, left, didRead, other, pipe, struck>>

\* The child is gone: only open looks at its registers again; the others find
\* out when they resume it, and that error ends the loop like an exit.
ReturnedDead ==
  /\ pc = "returned"
  /\ child = "dead"
  /\ \/ /\ syscall.nr = "open"
        /\ pc' = "err"
        /\ UNCHANGED tracerVars
     \/ /\ syscall.nr = "getdents"
        /\ Record(syscall.fd)
        /\ pc' = "pipe"
     \/ /\ syscall.nr = "getdents"
        /\ UnknownFd(syscall.fd)
     \/ /\ syscall.nr \notin {"open", "getdents"}
        /\ pc' = "pipe"
        /\ UNCHANGED tracerVars
  /\ UNCHANGED <<childVars, status, other, struck>>

\* Mutant: read_to_string, which waits for an end of file.
ReadToEnd ==
  /\ pc = "pipe"
  /\ pipe = "end of file"
  /\ pc' = "done"
  /\ UNCHANGED <<childVars, status, other, tracerVars, struck>>

\* read_line: the parent holds the write end too, so there is no end of file.
ReadLine ==
  /\ pc = "pipe"
  /\ pipe = "line"
  /\ pc' = "done"
  /\ UNCHANGED <<childVars, status, other, tracerVars, struck>>

----------------------------------------------------------------------------
Ended == pc \in {"done", "err", "panic"}

\* The call is over.
Over == Ended /\ UNCHANGED vars

ChildNext == TraceMe \/ Enter \/ Execute \/ Exit

ParentNext ==
  \/ Attach \/ Wait \/ WaitForeign \/ Forward \/ StoppedAtRead \/ StoppedAtOther
  \/ StoppedDead \/ ExitWait \/ Returned \/ ReturnedDead \/ ReadLine

Environment ==
  ChildPanics \/ Kill \/ UnexpectedSignal \/ ForwardedSignal \/ ForeignExit \/ Oversized

Next == ChildNext \/ ParentNext \/ Environment \/ Over

Spec == Init /\ [][Next]_vars

\* The kernel runs both processes; no signal, death or exit is ever promised.
FairSpec == Spec /\ WF_vars(ChildNext) /\ WF_vars(ParentNext)

----------------------------------------------------------------------------
(* Properties.                                                             *)

TypeOK ==
  /\ child \in States
  /\ syscall \in [nr : {"none", "open", "socket", "read", "getdents", "close",
                        "write", "exit"},
                  path : Paths \cup {Closed}, fd : Fds \cup {Failed}]
  /\ table \in [Fds -> Paths \cup {Closed, Sock}]
  /\ left \in 0..MaxCalls
  /\ didRead \subseteq Paths \cup {Sock}
  /\ status \in Statuses
  /\ other \in {"running", "zombie", "reaped"}
  /\ pipe \in {"empty", "line"}
  /\ pc \in Places
  /\ DOMAIN fds \subseteq Fds \cup {Failed} /\ \A fd \in DOMAIN fds : fds[fd] \in Paths
  /\ read_files \subseteq Tracked
  /\ struck \subseteq Hazards

\* When the loop has ended, the set it returns has every tracked path whose
\* content or entries reached the child: no input is missing from the cache.
ReadsRecorded ==
  pc \in {"pipe", "done"} => didRead \cap Tracked \subseteq read_files

\* The loop never loses count of the stops: where it takes a stop for the entry
\* of a call it is one, or the exit of a read; where it waits for the exit of
\* a call, the child is inside that call.
SyscallParity ==
  /\ pc = "stopped" /\ child = "exit" => syscall.nr = "read"
  /\ pc = "exitwait" => child \in {"kernel", "exit", "dead"} /\ syscall.nr # "read"

\* Whatever the living child has open as a file, file_descriptors knows under the same
\* path, however often descriptors were closed and reused: only an open whose
\* exit is not yet handled is missing.
DescriptorsAccurate ==
  \A fd \in Fds : child # "dead" /\ table[fd] \in Paths =>
    \/ fd \in DOMAIN fds /\ fds[fd] = table[fd]
    \/ syscall.nr = "open" /\ syscall.fd = fd /\ pc \in {"exitwait", "returned"}

\* Unless something struck, the loop ends and the line is read: parent and child
\* never wait for each other.
CallEnds == []<>(Ended \/ struck # {})

\* "Evaluation process was killed." is what a caller learns of a killed child.
KilledIsReported == "kill" \in struck ~> pc = "err" \/ pipe = "line"

\* The run that this child is for the cache.
RunPhase ==
  CASE pc = "done" -> "answered"
    [] pc \in {"err", "panic"} -> "off"
    [] OTHER -> "running"
RunRead == IF pc \in {"err", "panic"} THEN {} ELSE didRead
RunInputs == IF pc = "done" THEN read_files ELSE {}

\* Every step of the child and of the loop is a step of a traced run: what a
\* caller gets who gets an answer is the tracked paths that were read.  close is
\* not followed, so that a socket with the descriptor of a file that was closed
\* is taken for that file: the only inputs that were not read.
Run == INSTANCE TracedRun WITH
  Procs <- {"run"},
  Files <- Paths,
  Nameless <- {Sock},
  Watched <- Tracked,
  phase <- [p \in {"run"} |-> RunPhase],
  read <- [p \in {"run"} |-> RunRead],
  inputs <- [p \in {"run"} |-> RunInputs]

ImplementsTracedRun == Run!Spec
=============================================================================
