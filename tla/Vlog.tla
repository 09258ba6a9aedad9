-------------------------------- MODULE Vlog --------------------------------
(***************************************************************************)
(* The log daemon (vlog.c).  Interposed processes send datagrams to its    *)
(* socket.  The main thread receives a message, checks the size of the log *)
(* file once in a while, builds an INSERT with the next event id, executes *)
(* it when the message is of interest, and echoes the message to           *)
(* descriptor 2.  Two listener threads serve an operator: one truncates    *)
(* the log file, one removes /etc/ld.so.preload.  The daemon may end at    *)
(* any time (Ctrl+C, a write error) and be started again.                  *)
(*                                                                         *)
(* A message is its number; what the daemon looks at in it is whether it   *)
(* is to be kept.  It is written in Parts parts.  Descriptor numbers are   *)
(* those that are free once the sockets of the daemon are open.            *)
(***************************************************************************)
EXTENDS Integers, Sequences, FiniteSets, FiniteSetsExt, SequencesExt

CONSTANTS
    Loads,        \* what the daemon may have to do: records of
                  \*   msgs: messages that are ever sent, runs: times it is started,
                  \*   requests: connections an operator makes to each listener,
                  \*   redirected: it runs with 2>> /tmp/vpath.log
    QueueSize,    \* datagrams the socket holds before senders wait
    Parts,        \* parts in which write() may take a message
    Period,       \* messages between two checks of the size (1024)
    MaxLogSize    \* LOG_SIZE

ASSUME BoundsAssumption ==
    /\ Loads \subseteq [msgs : Nat, runs : Nat, requests : Nat, redirected : BOOLEAN]
    /\ \E l \in Loads : \A k \in Loads : k.msgs <= l.msgs
    /\ {QueueSize, Parts, Period, MaxLogSize} \subseteq Nat \ {0}

MaxMsgs == Max({l.msgs : l \in Loads})
Msgs == 1 .. MaxMsgs
NoMsg == 0
Listeners == {"truncate", "recover"}
Fds == 0 .. 3                      \* one for the log, two connections, one to spare
NoFd == -1

VARIABLES
    kept,       \* the messages that name a .log file or are a close
    sent,       \* how many messages have been sent
    load,       \* what this daemon has to do
    runs,       \* how often the daemon has been started
    pc,         \* the main thread
    queue,      \* datagrams in the socket
    buf,        \* the message in buf
    pos, left,  \* p and n of the write loop, in parts
    count,      \* messages since the last check of the size
    event_count,
    check_logfile,
    session,    \* the session with Cassandra is connected
    rows,       \* the table: id -> message
    logfd,
    fds,        \* descriptor -> "log", a listener (its connection), or "none"
    opened,     \* what open() has returned and init_logfd() not yet stored
    size,       \* of the log file
    preload,    \* /etc/ld.so.preload exists
    lpc, conn,  \* the listener threads and their connections
    requests,   \* connections an operator may still make
    got,        \* history: the messages received in this run
    echo,       \* history: the parts written in this run
    failed,     \* history: the ids whose INSERT failed in this run
    unanswered  \* history: connections closed without a reply

mainVars == <<pc, buf, pos, left, count, event_count, check_logfile, session>>
fileVars == <<logfd, fds, opened, size>>
listenVars == <<lpc, conn, requests, preload, unanswered>>
history == <<got, echo, failed>>
world == <<kept, sent, load, runs, queue, rows>>
vars == <<mainVars, fileVars, listenVars, history, world>>

-----------------------------------------------------------------------------
(* Descriptors and the log file. *)

FreeFds == {f \in Fds : fds[f] = "none"}
LowestFree == IF FreeFds = {} THEN NoFd ELSE Min(FreeFds)
Closed(f) == IF f \in Fds THEN [fds EXCEPT ![f] = "none"] ELSE fds
IsLog(f) == f \in Fds /\ fds[f] = "log"

\* open (LOG_FILE, O_RDWR | O_CREAT | O_TRUNC), for the thread who.
Open(who) ==
    /\ opened' = [opened EXCEPT ![who] = LowestFree]
    /\ fds' = IF LowestFree \in Fds THEN [fds EXCEPT ![LowestFree] = "log"] ELSE fds
    /\ size' = IF LowestFree \in Fds THEN 0 ELSE size
    /\ UNCHANGED logfd

Publish(who) == logfd' = opened[who] /\ UNCHANGED <<fds, opened, size>>
CloseLogfd == fds' = Closed(logfd) /\ UNCHANGED <<logfd, opened, size>>

-----------------------------------------------------------------------------
Init == /\ load \in Loads
        /\ kept \in SUBSET (1 .. load.msgs)
        /\ sent = 0 /\ runs = 0 /\ pc = "off" /\ queue = <<>>
        /\ buf = NoMsg /\ pos = 1 /\ left = 0 /\ count = 0
        /\ event_count = 0 /\ check_logfile = FALSE /\ session = FALSE
        /\ rows = [id \in 0 .. MaxMsgs |-> NoMsg]
        /\ logfd = NoFd /\ fds = [f \in Fds |-> "none"] /\ size = 0
        /\ opened = [who \in {"main", "truncate"} |-> NoFd]
        /\ preload = TRUE
        /\ lpc = [l \in Listeners |-> "off"]
        /\ conn = [l \in Listeners |-> NoFd]
        /\ requests = [l \in Listeners |-> load.requests]
        /\ got = <<>> /\ echo = <<>> /\ failed = {} /\ unanswered = 0

\* An interposed process sends its next message; it waits when the queue is
\* full, and is refused when no daemon is there.
Send == /\ pc # "off"
        /\ sent < load.msgs
        /\ Len(queue) < QueueSize
        /\ sent' = sent + 1
        /\ queue' = Append(queue, sent + 1)
        /\ UNCHANGED <<mainVars, fileVars, listenVars, history, kept, load, runs, rows>>

\* main() up to the loop: bind the socket, ...
Start == /\ pc = "off"
         /\ runs < load.runs
         /\ runs' = runs + 1
         /\ pc' = "bound"
         /\ UNCHANGED <<buf, pos, left, count, event_count, check_logfile, session,
                        fileVars, listenVars, history, kept, sent, load, queue, rows>>

\* ... init_logfd(), init_listener() twice, ...
StartListeners ==
    /\ pc = "bound"
    /\ fds' = [fds EXCEPT ![LowestFree] = "log"]
    /\ logfd' = LowestFree
    /\ size' = 0
    /\ lpc' = [l \in Listeners |-> "accept"]
    /\ pc' = "setup"
    /\ UNCHANGED <<buf, pos, left, count, event_count, check_logfile, session,
                   opened, conn, requests, preload, unanswered, history, world>>

\* ... setup_cassandra_driver(), which only reports a failure.
SetupCassandra ==
    /\ pc = "setup"
    /\ session' \in BOOLEAN
    /\ pc' = "recv"
    /\ UNCHANGED <<buf, pos, left, count, event_count, check_logfile,
                   fileVars, listenVars, history, world>>

\* Mutant of Receive: p is not set back to the start of the buffer.
ReceiveKeepsP ==
    /\ pc = "recv"
    /\ queue # <<>>
    /\ buf' = Head(queue)
    /\ queue' = Tail(queue)
    /\ left' = Parts
    /\ count' = count + 1
    /\ pc' = IF count + 1 >= Period THEN "size" ELSE "query"
    /\ got' = Append(got, Head(queue))
    /\ UNCHANGED <<pos, event_count, check_logfile, session, fileVars, listenVars,
                   echo, failed, kept, sent, load, runs, rows>>

\* Mutant of Receive: off by one in the period.
ReceiveChecksLate ==
    /\ pc = "recv"
    /\ queue # <<>>
    /\ buf' = Head(queue)
    /\ queue' = Tail(queue)
    /\ pos' = 1
    /\ left' = Parts
    /\ count' = count + 1
    /\ pc' = IF count > Period THEN "size" ELSE "query"
    /\ got' = Append(got, Head(queue))
    /\ UNCHANGED <<event_count, check_logfile, session, fileVars, listenVars,
                   echo, failed, kept, sent, load, runs, rows>>

\* read() from the socket; n and p are set for the write loop.
Receive ==
    /\ pc = "recv"
    /\ queue # <<>>
    /\ buf' = Head(queue)
    /\ queue' = Tail(queue)
    /\ pos' = 1
    /\ left' = Parts
    /\ count' = count + 1
    /\ pc' = IF count + 1 >= Period THEN "size" ELSE "query"
    /\ got' = Append(got, Head(queue))
    /\ UNCHANGED <<event_count, check_logfile, session, fileVars, listenVars,
                   echo, failed, kept, sent, load, runs, rows>>

\* lseek (logfd, 0, SEEK_END), which is -1 for anything but an open file.
LogSize == IF IsLog(logfd) THEN size ELSE -1

\* Mutant of CheckSize: measures from the start of the file.
CheckSizeZero ==
    /\ pc = "size"
    /\ pc' = "query" /\ count' = 0
    /\ UNCHANGED <<buf, pos, left, event_count, check_logfile, session,
                   fileVars, listenVars, history, world>>

\* Once in Period messages; count goes on when a rotation follows.
CheckSize ==
    /\ pc = "size"
    /\ IF LogSize >= MaxLogSize
       THEN pc' = "rotate" /\ UNCHANGED count
       ELSE pc' = "query" /\ count' = 0
    /\ UNCHANGED <<buf, pos, left, event_count, check_logfile, session,
                   fileVars, listenVars, history, world>>

\* close (logfd); init_logfd ();
mainLocals == <<buf, pos, left, event_count, check_logfile, session>>
RotateClose ==
    /\ pc = "rotate"
    /\ CloseLogfd
    /\ pc' = "reopen"
    /\ UNCHANGED <<mainLocals, count, listenVars, history, world>>
RotateOpen ==
    /\ pc = "reopen"
    /\ Open("main")
    /\ pc' = "publish"
    /\ UNCHANGED <<mainLocals, count, listenVars, history, world>>
RotatePublish ==
    /\ pc = "publish"
    /\ Publish("main")
    /\ count' = 0
    /\ pc' = "query"
    /\ UNCHANGED <<mainLocals, listenVars, history, world>>

\* Mutant of BuildQuery: check_logfile is not reset.
BuildQueryStale ==
    /\ pc = "query"
    /\ event_count' = event_count + 1
    /\ check_logfile' = (check_logfile \/ buf \in kept)
    /\ pc' = IF check_logfile' THEN "insert" ELSE "echo"
    /\ UNCHANGED <<buf, pos, left, count, session, fileVars, listenVars, history, world>>

\* get_insert_query_string(): the id is used up also by a message that is not kept.
BuildQuery ==
    /\ pc = "query"
    /\ event_count' = event_count + 1
    /\ check_logfile' = (buf \in kept)
    /\ pc' = IF check_logfile' THEN "insert" ELSE "echo"
    /\ UNCHANGED <<buf, pos, left, count, session, fileVars, listenVars, history, world>>

\* Mutant of ExecuteInsert: waits for a session that was never connected.
ExecuteInsertHangs ==
    /\ pc = "insert"
    /\ session
    /\ rows' = [rows EXCEPT ![event_count - 1] = buf]
    /\ pc' = "echo"
    /\ UNCHANGED <<buf, pos, left, count, event_count, check_logfile, session, fileVars,
                   listenVars, history, kept, sent, load, runs, queue>>

\* execute_cassandra_insert() waits for the result and ignores it.  An INSERT
\* replaces the row of that id.
ExecuteInsert ==
    /\ pc = "insert"
    /\ \/ /\ session
          /\ rows' = [rows EXCEPT ![event_count - 1] = buf]
          /\ UNCHANGED failed
       \/ /\ failed' = failed \union {event_count - 1}
          /\ UNCHANGED rows
    /\ pc' = "echo"
    /\ UNCHANGED <<buf, pos, left, count, event_count, check_logfile, session,
                   fileVars, listenVars, got, echo, kept, sent, load, runs, queue>>

\* One write (2, p, n), which takes r parts.
Echo ==
    /\ pc = "echo"
    /\ \E r \in 1 .. left :
          /\ echo' = echo \o [i \in 1 .. r |-> <<buf, pos + i - 1>>]
          /\ pos' = pos + r
          /\ left' = left - r
          /\ size' = IF load.redirected THEN size + r ELSE size
    /\ pc' = IF left' > 0 THEN "echo" ELSE "recv"
    /\ UNCHANGED <<buf, count, event_count, check_logfile, session,
                   logfd, fds, opened, listenVars, got, failed, world>>

\* The process ends: the handler of SIGINT, a failing read() or write(), a
\* kill.  Its threads and descriptors go with it, and so do queued messages.
Stop ==
    /\ pc # "off"
    /\ pc' = "off"
    /\ buf' = NoMsg /\ pos' = 1 /\ left' = 0 /\ count' = 0
    /\ event_count' = 0 /\ check_logfile' = FALSE /\ session' = FALSE
    /\ queue' = <<>>
    /\ logfd' = NoFd /\ fds' = [f \in Fds |-> "none"]
    /\ opened' = [who \in {"main", "truncate"} |-> NoFd]
    /\ lpc' = [l \in Listeners |-> "off"]
    /\ conn' = [l \in Listeners |-> NoFd]
    /\ got' = <<>> /\ echo' = <<>> /\ failed' = {}
    /\ UNCHANGED <<size, preload, requests, unanswered, kept, sent, load, runs, rows>>

-----------------------------------------------------------------------------
(* The listener threads. *)

Goto(l, label) == lpc' = [lpc EXCEPT ![l] = label]

Accept(l) ==
    /\ lpc[l] = "accept"
    /\ requests[l] > 0
    /\ LowestFree # NoFd
    /\ requests' = [requests EXCEPT ![l] = @ - 1]
    /\ conn' = [conn EXCEPT ![l] = LowestFree]
    /\ fds' = [fds EXCEPT ![LowestFree] = l]
    /\ Goto(l, IF l = "truncate" THEN "close" ELSE "unlink")
    /\ UNCHANGED <<mainVars, logfd, opened, size, preload, unanswered, history, world>>

Unlink == /\ lpc["recover"] = "unlink"
          /\ preload' = FALSE
          /\ Goto("recover", "reply")
          /\ UNCHANGED <<mainVars, fileVars, conn, requests, unanswered, history, world>>

threadLocals == <<conn, requests, preload, unanswered>>
\* Mutant of TruncateClose: the old descriptor stays open.
TruncateKeepsOpen ==
    /\ lpc["truncate"] = "close"
    /\ Goto("truncate", "truncate")
    /\ UNCHANGED <<mainVars, fileVars, threadLocals, history, world>>

\* truncate_log(): close (logfd), truncate(), init_logfd().
TruncateClose ==
    /\ lpc["truncate"] = "close"
    /\ CloseLogfd
    /\ Goto("truncate", "truncate")
    /\ UNCHANGED <<mainVars, threadLocals, history, world>>
Truncate ==
    /\ lpc["truncate"] = "truncate"
    /\ size' = 0
    /\ Goto("truncate", "open")
    /\ UNCHANGED <<mainVars, logfd, fds, opened, threadLocals, history, world>>
TruncateOpen ==
    /\ lpc["truncate"] = "open"
    /\ Open("truncate")
    /\ Goto("truncate", "publish")
    /\ UNCHANGED <<mainVars, threadLocals, history, world>>
TruncatePublish ==
    /\ lpc["truncate"] = "publish"
    /\ Publish("truncate")
    /\ Goto("truncate", "reply")
    /\ UNCHANGED <<mainVars, threadLocals, history, world>>

\* The reply reaches the operator when the number is still his connection.
Reply(l) ==
    /\ lpc[l] = "reply"
    /\ unanswered' = IF fds[conn[l]] = l THEN unanswered ELSE unanswered + 1
    /\ Goto(l, "hangup")
    /\ UNCHANGED <<mainVars, fileVars, conn, requests, preload, history, world>>

\* Mutant of Hangup: closes the log in place of the connection.
HangupLog(l) ==
    /\ lpc[l] = "hangup"
    /\ fds' = Closed(logfd)
    /\ conn' = [conn EXCEPT ![l] = NoFd]
    /\ Goto(l, "accept")
    /\ UNCHANGED <<mainVars, logfd, opened, size, requests, preload, unanswered, history, world>>

\* The listener closes its connection, by number.
Hangup(l) ==
    /\ lpc[l] = "hangup"
    /\ fds' = Closed(conn[l])
    /\ conn' = [conn EXCEPT ![l] = NoFd]
    /\ Goto(l, "accept")
    /\ UNCHANGED <<mainVars, logfd, opened, size, requests, preload, unanswered, history, world>>

-----------------------------------------------------------------------------
MainStep == \/ StartListeners \/ SetupCassandra \/ Receive \/ CheckSize
            \/ RotateClose \/ RotateOpen \/ RotatePublish
            \/ BuildQuery \/ ExecuteInsert \/ Echo

ListenerStep(l) ==
    \/ Accept(l) \/ Reply(l) \/ Hangup(l)
    \/ l = "recover" /\ Unlink
    \/ l = "truncate" /\ (TruncateClose \/ Truncate \/ TruncateOpen \/ TruncatePublish)

Next == Send \/ Start \/ MainStep \/ Stop \/ \E l \in Listeners : ListenerStep(l)

\* The threads of the daemon are scheduled, and the driver ends every query
\* with a result or a timeout.
Spec == /\ Init /\ [][Next]_vars
        /\ WF_vars(MainStep)
        /\ \A l \in Listeners : WF_vars(ListenerStep(l))

-----------------------------------------------------------------------------
MainLabels == {"off", "bound", "setup", "recv", "size", "rotate", "reopen",
               "publish", "query", "insert", "echo"}
ListenLabels == {"off", "accept", "close", "truncate", "open", "publish",
                 "unlink", "reply", "hangup"}

\* The messages that come between two checks of its size are all that the log
\* file may have above its maximum.  Not if an operator truncates a redirected
\* log: a check then finds logfd closed, and lets the file grow on.
SizeBounded ==
    load.requests = 0 \/ ~load.redirected => size <= MaxLogSize + Period * Parts - 1

\* Every variable has its type, and the log file its bound.
TypeOK ==
    /\ kept \subseteq Msgs /\ load \in Loads
    /\ sent \in 0 .. load.msgs /\ runs \in 0 .. load.runs
    /\ pc \in MainLabels /\ queue \in Seq(Msgs)
    /\ buf \in Msgs \union {NoMsg} /\ pos \in 1 .. Parts + 1 /\ left \in 0 .. Parts
    /\ count \in 0 .. Period /\ event_count \in 0 .. MaxMsgs
    /\ check_logfile \in BOOLEAN /\ session \in BOOLEAN
    /\ rows \in [0 .. MaxMsgs -> Msgs \union {NoMsg}]
    /\ logfd \in Fds \union {NoFd} /\ size \in Nat /\ SizeBounded /\ preload \in BOOLEAN
    /\ fds \in [Fds -> Listeners \union {"log", "none"}]
    /\ opened \in [{"main", "truncate"} -> Fds \union {NoFd}]
    /\ lpc \in [Listeners -> ListenLabels]
    /\ conn \in [Listeners -> Fds \union {NoFd}]
    /\ requests \in [Listeners -> 0 .. load.requests] /\ unanswered \in Nat
    /\ got \in Seq(Msgs) /\ echo \in Seq(Msgs \X Nat)
    /\ failed \subseteq 0 .. MaxMsgs

\* What the daemon has written in this run is what it has received, in order,
\* nothing twice and nothing left out, however write() splits the messages.
EchoOK ==
    /\ \A i \in 1 .. Len(echo) :
          echo[i] = <<got[((i - 1) \div Parts) + 1], ((i - 1) % Parts) + 1>>
    /\ pc = "recv" => Len(echo) = Parts * Len(got)

\* Between messages the table holds, under each id of this run, the message of
\* that id if it was to be kept and its INSERT succeeded, and not otherwise (the
\* row that an earlier run has left under the id stays then).
RowsMatch ==
    pc = "recv" =>
        \A id \in 0 .. (event_count - 1) :
            rows[id] = got[id + 1] <=> got[id + 1] \in kept /\ id \notin failed

\* Each operator is answered before his connection is closed, the log is on logfd
\* and on no other descriptor while nobody truncates it, and so neither thread
\* closes or reuses what belongs to another one.  With descriptor 2 redirected to
\* the log a rotation can overlap a truncation, and this is not claimed.
ThreadsKeepApart ==
    ~load.redirected =>
        /\ unanswered = 0
        /\ (lpc["truncate"] = "accept" /\ pc \notin {"off", "bound"}) =>
               {f \in Fds : IsLog(f)} = {logfd}

\* A message that has reached the socket is written, unless the daemon ends.
MessagesEchoed ==
    \A m \in Msgs : (m \in ToSet(queue)) ~> (pc = "off" \/ <<m, Parts>> \in ToSet(echo))

\* "id int PRIMARY KEY": an event that has been stored stays stored.
EventsStay == [][ \A id \in DOMAIN rows : rows[id] # NoMsg => rows'[id] = rows[id] ]_vars
=============================================================================
