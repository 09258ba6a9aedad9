------------------------------ MODULE DebugLog ------------------------------
(***************************************************************************)
(* The debug-log client that is linked into the daemon's tools (utils.c)   *)
(* and into every interposed process (bluecoat.c holds a copy of it).      *)
(* Threads of one process call __debug_print(); the first opens the log    *)
(* lazily under a mutex and publishes its descriptor in __debug_log_fd,    *)
(* which every later call reads without the mutex.  The rest of the        *)
(* process opens and closes descriptors as it likes ("the application may  *)
(* close all files"), and the log server comes and goes.                   *)
(*                                                                         *)
(* One action is one access to __debug_log_fd or one system call on it;    *)
(* adjacent reads of the variable are taken together.  logerr() and        *)
(* syslog() are left out: they change nothing the log depends on.          *)
(***************************************************************************)
EXTENDS Integers, FiniteSets, Sequences, FiniteSetsExt, Functions

CONSTANTS
    Top,          \* the descriptor table is 2..Top
    Processes     \* what the process may be like: a set of records

\* threads     its threads that print
\* media       the values DEBUG_LOG_MEDIA may have in it
\* placed      has the constructor found a number for the log?  bluecoat.c may
\*             find one; nothing does in a tool that is linked with utils.c
\* appActs     does the application open and close descriptors?
\* mediumActs  may the server (or the log directory) come and go?
Media == {"process", "merged", "stderr"}

ASSUME TopAssumption == Top \in Nat /\ Top > 2
ASSUME ProcessesAssumption ==
    \A s \in Processes : /\ s.media \subseteq Media
                         /\ s.placed \subseteq BOOLEAN
                         /\ s.appActs \in BOOLEAN /\ s.mediumActs \in BOOLEAN

Threads == UNION {s.threads : s \in Processes}

Default == 2                      \* DEFAULT_LOG_FD, the number of stderr
Fds == Default .. Top

\* What a descriptor number refers to: nothing, a file of the application,
\* or one of the log's open files (numbers above AppFile).
Nothing == 0
AppFile == 1
LogFiles == 2 .. (Top + 1)

\* findUnusedFD(): the number it has found, or -1.
FoundFd(found) == IF found THEN Top ELSE -1
Places == {-1, Top}

VARIABLES
    process,    \* the process, which stays what it is
    medium,     \* DEBUG_LOG_MEDIA
    toUse,      \* __debug_log_fd_to_use
    fd,         \* __debug_log_fd
    fds,        \* the descriptor table of the process
    joined,     \* log files that accept data: connected, or plain files
    up,         \* the server is bound, or the log directory is writable
    lock,       \* the holders of init_log_lock
    pc,         \* where each thread is
    err,        \* the local variable err of __debug_print()
    spare,      \* the local variable fd of the init functions
    out,        \* history: where the message of the current call has gone
    calm        \* history: the current call has found the medium up all along

shared == <<fd, fds, joined, lock>>
locals == <<pc, err, spare>>
vars == <<process, medium, toUse, fd, fds, joined, up, lock, pc, err, spare, out, calm>>

Labels == {"idle", "test", "lock", "locked", "create", "place", "misplaced",
           "moved", "closeLow", "settle", "cloexec", "connect", "drop",
           "disable", "unlock", "check", "write", "reset", "reopen"}

-----------------------------------------------------------------------------
(* The descriptor table. *)

IsOpen(f) == f \in Fds /\ fds[f] # Nothing
FreeFds == {f \in Fds : fds[f] = Nothing}
LowestFree == IF FreeFds = {} THEN -1 ELSE Min(FreeFds)
Used == {fds[f] : f \in Fds}
NewFile == Min(LogFiles \ Used)
LogFds == {f \in Fds : fds[f] \in LogFiles}

\* close(f), which does nothing when f is not open.
Closed(f) == IF IsOpen(f) THEN [fds EXCEPT ![f] = Nothing] ELSE fds

\* Files that no descriptor refers to are gone.
Live(table, S) == {x \in S : \E f \in Fds : table[f] = x}

Goto(t, l) == pc' = [pc EXCEPT ![t] = l]

-----------------------------------------------------------------------------
Init == /\ process \in Processes
        /\ medium \in process.media
        /\ toUse \in {FoundFd(found) : found \in process.placed}
        /\ fd = Default
        /\ \E e \in {Nothing, AppFile} :
              fds = [f \in Fds |-> IF f = Default THEN e ELSE Nothing]
        /\ joined = {}
        /\ up = TRUE
        /\ lock = {}
        /\ pc = [t \in Threads |-> "idle"]
        /\ err = [t \in Threads |-> 0]
        /\ spare = [t \in Threads |-> -1]
        /\ out = [t \in Threads |-> <<>>]
        /\ calm = [t \in Threads |-> FALSE]

\* __debug_print() is called.
Call(t) ==
    /\ pc[t] = "idle"
    /\ Goto(t, IF medium = "stderr" THEN "write" ELSE "test")
    /\ err' = [err EXCEPT ![t] = 0]
    /\ out' = [out EXCEPT ![t] = <<>>]
    /\ calm' = [calm EXCEPT ![t] = up /\ fd # -1]
    /\ UNCHANGED <<process, medium, toUse, shared, up, spare>>

env == <<process, medium, toUse, up, out, calm>>

\* RETRY: the unlocked test of __debug_log_fd.
Test(t) ==
    /\ pc[t] = "test"
    /\ Goto(t, IF fd = Default THEN "lock" ELSE "check")
    /\ UNCHANGED <<env, shared, err, spare>>

Lock(t) ==
    /\ pc[t] = "lock"
    /\ lock = {}
    /\ lock' = {t}
    /\ Goto(t, "locked")
    /\ UNCHANGED <<env, fd, fds, joined, err, spare>>

\* Mutant of Recheck: no second test.
RecheckNot(t) ==
    /\ pc[t] = "locked"
    /\ Goto(t, "create")
    /\ UNCHANGED <<env, shared, err, spare>>

\* Mutant of Recheck: returns without unlocking.
RecheckReturns(t) ==
    /\ pc[t] = "locked"
    /\ Goto(t, IF fd # Default THEN "check" ELSE "create")
    /\ UNCHANGED <<env, shared, err, spare>>

\* The second test, under the mutex.
Recheck(t) ==
    /\ pc[t] = "locked"
    /\ Goto(t, IF fd # Default THEN "unlock" ELSE "create")
    /\ UNCHANGED <<env, shared, err, spare>>

\* open() or socket(); the descriptor is visible to other threads at once.
Opens == LowestFree # -1 /\ (medium = "process" => up)
Create(t) ==
    /\ pc[t] = "create"
    /\ \/ /\ Opens
          /\ fd' = LowestFree
          /\ fds' = [fds EXCEPT ![LowestFree] = NewFile]
          /\ joined' = IF medium = "process" THEN joined \union {NewFile} ELSE joined
          /\ Goto(t, "place")
       \/ /\ ~Opens
          /\ fd' = -1
          /\ Goto(t, "unlock")
          /\ UNCHANGED <<fds, joined>>
    /\ UNCHANGED <<env, lock, err, spare>>

\* Mutant of Place: the log stays where it was opened.
PlaceStays(t) ==
    /\ pc[t] = "place"
    /\ Goto(t, "cloexec")
    /\ UNCHANGED <<env, shared, err, spare>>

\* Move the log away from where it was opened: to the chosen number, or off
\* the number of stderr.
Place(t) ==
    /\ pc[t] = "place"
    /\ \/ /\ toUse >= 0
          /\ IsOpen(fd)
          /\ fds' = [fds EXCEPT ![toUse] = fds[fd]]
          /\ joined' = Live(fds', joined)
          /\ Goto(t, "moved")
          /\ UNCHANGED spare
       \/ /\ toUse >= 0
          /\ ~IsOpen(fd)
          /\ Goto(t, "misplaced")
          /\ UNCHANGED <<fds, joined, spare>>
       \/ /\ toUse < 0
          /\ fd = Default
          /\ spare' = [spare EXCEPT ![t] = IF IsOpen(fd) THEN LowestFree ELSE -1]
          /\ fds' = IF IsOpen(fd) /\ LowestFree # -1
                    THEN [fds EXCEPT ![LowestFree] = fds[fd]] ELSE fds
          /\ Goto(t, "closeLow")
          /\ UNCHANGED joined
       \/ /\ toUse < 0
          /\ fd # Default
          /\ Goto(t, "cloexec")
          /\ UNCHANGED <<fds, joined, spare>>
    /\ UNCHANGED <<env, fd, lock, err>>

\* libc_close (__debug_log_fd) on three paths, which read the variable again.
CloseLog(t, from, to) ==
    /\ pc[t] = from
    /\ fds' = Closed(fd)
    /\ joined' = Live(fds', joined)
    /\ Goto(t, to)
    /\ UNCHANGED <<env, fd, lock, err, spare>>

\* __debug_log_fd = n.
Publish(t, from, n, to) ==
    /\ pc[t] = from
    /\ fd' = n
    /\ Goto(t, to)
    /\ UNCHANGED <<env, fds, joined, lock, err, spare>>

Move(t) == Publish(t, "moved", toUse, "cloexec")
Settle(t) == Publish(t, "settle", spare[t], IF spare[t] < 0 THEN "unlock" ELSE "cloexec")
Disable(t) == Publish(t, "disable", -1, "unlock")

\* fcntl (F_SETFD, FD_CLOEXEC); a plain file is ready then.
CloseOnExec(t) ==
    /\ pc[t] = "cloexec"
    /\ Goto(t, IF ~IsOpen(fd) THEN "drop"
               ELSE IF medium = "merged" THEN "connect" ELSE "unlock")
    /\ UNCHANGED <<env, shared, err, spare>>

Connects == up /\ IsOpen(fd) /\ fds[fd] \in LogFiles
Connect(t) ==
    /\ pc[t] = "connect"
    /\ \/ Connects /\ joined' = joined \union {fds[fd]} /\ Goto(t, "unlock")
       \/ ~Connects /\ Goto(t, "drop") /\ UNCHANGED joined
    /\ UNCHANGED <<env, fd, fds, lock, err, spare>>

Unlock(t) ==
    /\ pc[t] = "unlock"
    /\ lock' = lock \ {t}
    /\ Goto(t, "check")
    /\ UNCHANGED <<env, fd, fds, joined, err, spare>>

\* if (__debug_log_fd < 0) return;
Check(t) ==
    /\ pc[t] = "check"
    /\ Goto(t, IF fd < 0 THEN "idle" ELSE "write")
    /\ UNCHANGED <<env, shared, err, spare>>

\* A file or a connected socket takes what is written to it.
Accepts(f) == IsOpen(f) /\ (fds[f] = AppFile \/ fds[f] \in joined)
\* Mutant of Write: off by one in the number of errors.
WriteRetriesTwice(t) ==
    /\ pc[t] = "write"
    /\ ~Accepts(fd)
    /\ Goto(t, IF err[t] > 1 THEN "idle" ELSE "reset")
    /\ UNCHANGED <<process, medium, toUse, up, calm, out, shared, err, spare>>

\* The write loop; a message is written whole.  A second error gives up.
Write(t) ==
    /\ pc[t] = "write"
    /\ \/ /\ Accepts(fd)
          /\ out' = [out EXCEPT ![t] = Append(@, IF fds[fd] = AppFile THEN "app" ELSE "log")]
          /\ Goto(t, "idle")
       \/ /\ ~Accepts(fd)
          /\ Goto(t, IF err[t] > 0 THEN "idle" ELSE "reset")
          /\ UNCHANGED out
    /\ UNCHANGED <<process, medium, toUse, up, calm, shared, err, spare>>

\* Mutant of Reset: writes again without reopening.
ResetKeepsFd(t) ==
    /\ pc[t] = "reset"
    /\ err' = [err EXCEPT ![t] = @ + 1]
    /\ Goto(t, "write")
    /\ UNCHANGED <<env, shared, spare>>

\* The first error: forget the descriptor and try once more.
Reset(t) ==
    /\ pc[t] = "reset"
    /\ fd' = Default
    /\ err' = [err EXCEPT ![t] = @ + 1]
    /\ Goto(t, IF medium = "stderr" THEN "write" ELSE "test")
    /\ UNCHANGED <<env, fds, joined, lock, spare>>

\* reinit_debug_log(): close a per-process log, so that it is opened anew.  Part
\* of the client's interface; nothing in the repository calls it.
Reinit(t) ==
    /\ process.appActs
    /\ pc[t] = "idle"
    /\ medium = "process"
    /\ fd # Default
    /\ fd >= 0
    /\ CloseLog(t, "idle", "reopen")
Reopen(t) == Publish(t, "reopen", Default, "idle")

-----------------------------------------------------------------------------
(* The rest of the process, in a thread that is not printing.  The number  *)
(* Top stands for one above 523, out of an application's reach.            *)

AppOpen ==
    /\ LowestFree # -1
    /\ LowestFree < Top
    /\ fds' = [fds EXCEPT ![LowestFree] = AppFile]
    /\ UNCHANGED joined

AppCloseAll ==
    \E S \in {Fds, Fds \ {Default}} :
        /\ fds' = [f \in Fds |-> IF f \in S THEN Nothing ELSE fds[f]]
        /\ joined' = Live(fds', joined)

App == /\ process.appActs
       /\ \E t \in process.threads : pc[t] = "idle"
       /\ AppOpen \/ AppCloseAll
       /\ UNCHANGED <<process, medium, toUse, fd, up, lock, locals, out, calm>>

\* The server stops: its peers are refused from now on.  It starts again.
MediumFlips ==
    /\ process.mediumActs
    /\ up' = ~up
    /\ joined' = IF medium = "merged" THEN {} ELSE joined
    /\ calm' = [t \in Threads |-> calm[t] /\ up']
    /\ UNCHANGED <<process, medium, toUse, fd, fds, lock, locals, out>>

Init_file_log(t) ==
    \/ Lock(t) \/ Recheck(t) \/ Create(t) \/ Place(t) \/ Move(t)
    \/ CloseLog(t, "misplaced", "unlock")
    \/ CloseLog(t, "closeLow", "settle") \/ Settle(t)
    \/ CloseOnExec(t) \/ Connect(t)
    \/ CloseLog(t, "drop", "disable") \/ Disable(t)
    \/ Unlock(t)

Step(t) == Test(t) \/ Init_file_log(t) \/ Check(t) \/ Write(t) \/ Reset(t) \/ Reopen(t)

Next == \/ \E t \in Threads : t \in process.threads /\ (Call(t) \/ Step(t) \/ Reinit(t))
        \/ App
        \/ MediumFlips

\* A thread that is in the middle of a call is scheduled again.
Spec == Init /\ [][Next]_vars /\ \A t \in Threads : WF_vars(Step(t))

-----------------------------------------------------------------------------
TypeOK ==
    /\ process \in Processes
    /\ medium \in Media
    /\ toUse \in Places
    /\ fd \in Fds \union {-1}
    /\ fds \in [Fds -> {Nothing, AppFile} \union LogFiles]
    /\ joined \subseteq LogFiles
    /\ up \in BOOLEAN
    /\ lock \subseteq Threads
    /\ pc \in [Threads -> Labels]
    /\ err \in [Threads -> 0 .. 1]
    /\ spare \in [Threads -> Fds \union {-1}]
    /\ out \in [Threads -> Seq({"app", "log"})]
    /\ calm \in [Threads -> BOOLEAN]

\* The init section of the log, in which a thread holds the mutex.
Section == {"locked", "create", "place", "misplaced", "moved", "closeLow",
            "settle", "cloexec", "connect", "drop", "disable", "unlock"}

\* init_log_lock is held by the one thread that is between lock and unlock, on
\* every path through the init functions.
LockHeld == /\ lock = {t \in Threads : pc[t] \in Section}
            /\ \A t, u \in lock : t = u

\* No message of the log is written into a file of the application.
NothingAstray == medium # "stderr" => \A t \in process.threads : "app" \notin Range(out[t])

\* One thread prints.  The other threads of a process can read the descriptor
\* before it has been moved and connected.
OneThread == \A t, u \in process.threads : t = u

\* In a process with one printing thread: with a number of its own, out of the
\* application's reach (findUnusedFD() in bluecoat.c finds one if it can), the
\* log never takes one of the application's files for its own after "close
\* all".  Without one, which is always so in utils.c, it may: NothingAstray.
OnlyToLog == OneThread /\ toUse >= 0 => NothingAstray

\* In a process with one printing thread, __debug_print() closes and replaces
\* no file of the application, whether the log has a number of its own or not;
\* reinit_debug_log() closes one only if the log has none, and the application
\* has taken the log's number for its own file.
KeepsOff ==
    [][ OneThread /\ pc' # pc =>
          \A f \in Fds :
            fds[f] = AppFile => \/ fds'[f] = AppFile
                                \/ /\ toUse < 0 /\ f = fd
                                   /\ \E t \in process.threads : pc'[t] = "reopen" ]_vars

\* "Retry will open it again".  In a process with one printing thread, a call
\* that finds the server up from beginning to end, the log not given up, and
\* descriptors free (one besides that of stderr, if the log has no number of its
\* own) writes its message, once.  If the log has a number of its own, or the
\* application leaves its descriptors alone, it writes it to the log; if neither,
\* it may write it into the application's file that has the log's number now.
RetryDelivers ==
    [][ \A t \in process.threads :
          (/\ OneThread
           /\ pc[t] \in {"check", "write"}
           /\ pc'[t] = "idle"
           /\ medium # "stderr"
           /\ calm[t]
           /\ FreeFds \ (IF toUse >= 0 THEN {} ELSE {Default}) # {})
          => /\ out'[t] \in {<<"log">>, <<"app">>}
             /\ toUse >= 0 \/ ~process.appActs => out'[t] = <<"log">> ]_vars

\* While the application leaves its descriptors alone, the threads open one log
\* file between them, whichever of them finds the log unopened: the purpose of
\* the second test under the mutex.
OneLogFile == (medium = "process" /\ ~process.appActs)
                 => Cardinality(Used \cap LogFiles) <= 1

\* The comment at the retry reads: an error means that the application has
\* closed the log, and retrying opens it again.  So as long as the server is up
\* and descriptors are free, the log is not given up.
NotGivenUp == fd # -1

\* Again and again some thread is out of __debug_print(): the mutex is released
\* on every path, and a call retries at most once.
SomeThreadReturns == []<>(\E t \in Threads : pc[t] = "idle")
=============================================================================
