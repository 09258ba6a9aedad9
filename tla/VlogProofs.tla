---------------------------- MODULE VlogProofs -----------------------------
(***************************************************************************)
(* Proofs about Vlog, for any loads, sizes and periods.                    *)
(*                                                                         *)
(* Three invariants, of three parts of the daemon.  MessageInv: the        *)
(* message in hand is the last one received, and what has been written is  *)
(* all messages before it and the first parts of it.  TableInv: a message  *)
(* that is received is newer than all rows of earlier lives, so a row that *)
(* holds it was written for it.  FileInv: who owns which descriptor, where *)
(* the log is and how long it can be, as long as truncation and rotation   *)
(* cannot meet.                                                            *)
(***************************************************************************)
EXTENDS Vlog, SequenceTheorems, TLAPS

\* Nobody truncates a log that the daemon may rotate.
Undisturbed == load.requests = 0 \/ ~load.redirected

\* Between the receipt of a message and the end of its echo.
InHand == pc \in {"size", "rotate", "reopen", "publish", "query", "insert", "echo"}

\* TypeOK without its bounds, and what the types rest on.
MainTypes ==
    /\ pc \in MainLabels
    /\ buf \in Msgs \union {NoMsg} /\ pos \in 1 .. Parts + 1 /\ left \in 0 .. Parts
    /\ count \in 0 .. Period /\ event_count \in Nat
    /\ check_logfile \in BOOLEAN /\ session \in BOOLEAN
    /\ pc \notin {"size", "rotate", "reopen", "publish"} => count < Period
    /\ InHand => buf \in Msgs /\ pos + left = Parts + 1
FileTypes ==
    /\ logfd \in Fds \union {NoFd} /\ size \in Nat
    /\ fds \in [Fds -> Listeners \union {"log", "none"}]
    /\ opened \in [{"main", "truncate"} -> Fds \union {NoFd}]
ListenTypes ==
    /\ lpc \in [Listeners -> ListenLabels]
    /\ conn \in [Listeners -> Fds \union {NoFd}]
    /\ requests \in [Listeners -> 0 .. load.requests]
    /\ unanswered \in Nat /\ preload \in BOOLEAN
WorldTypes ==
    /\ load \in Loads /\ kept \subseteq Msgs
    /\ sent \in 0 .. load.msgs /\ runs \in 0 .. load.runs
    /\ queue \in Seq(Msgs)
    /\ rows \in [0 .. MaxMsgs -> Msgs \union {NoMsg}]
HistoryTypes == got \in Seq(Msgs) /\ echo \in Seq(Msgs \X Nat)

Types == MainTypes /\ FileTypes /\ ListenTypes /\ WorldTypes /\ HistoryTypes

\* The part of the messages received that is written at place i.
Written(i) == <<got[((i - 1) \div Parts) + 1], ((i - 1) % Parts) + 1>>

MessageInv ==
    /\ InHand => /\ Len(got) > 0 /\ buf = got[Len(got)]
                 /\ pc # "echo" => pos = 1
                 /\ left > 0
                 /\ Len(echo) = Parts * (Len(got) - 1) + (pos - 1)
    /\ ~InHand => Len(echo) = Parts * Len(got)
    /\ pc \in {"off", "bound", "setup"} => got = <<>>
    /\ \A i \in 1 .. Len(echo) : echo[i] = Written(i)

\* Messages arrive in the order of their numbers.
Increasing(s) == \A i, j \in 1 .. Len(s) : i < j => s[i] < s[j]

Older(m, s) == \A i \in 1 .. Len(s) : m < s[i]

OrderInv ==
    /\ Increasing(got) /\ Increasing(queue)
    /\ \A j \in 1 .. Len(queue) : queue[j] <= sent
    /\ \A i \in 1 .. Len(got) : got[i] <= sent /\ Older(got[i], queue)
    /\ Len(got) + Len(queue) <= sent

\* The ids below it have been dealt with.
Stored == IF pc = "insert" THEN event_count - 1 ELSE event_count

CountInv ==
    /\ event_count = IF pc \in {"size", "rotate", "reopen", "publish", "query"}
                     THEN Len(got) - 1 ELSE Len(got)
    /\ pc = "insert" => buf \in kept
    /\ failed \subseteq 0 .. Stored - 1

\* Row id was written in this run, for the message that has this id.
OfThisRun(id) ==
    /\ id < Stored /\ rows[id] = got[id + 1]
    /\ got[id + 1] \in kept /\ id \notin failed

RowInv ==
    /\ \A id \in 0 .. MaxMsgs : rows[id] # NoMsg =>
         rows[id] <= sent /\ Older(rows[id], queue) /\ (OfThisRun(id) \/ Older(rows[id], got))
    /\ \A id \in 0 .. Stored - 1 :
         got[id + 1] \in kept /\ id \notin failed => rows[id] = got[id + 1]

TableInv == OrderInv /\ CountInv /\ RowInv

Truncating == lpc["truncate"] \in {"truncate", "open", "publish"}
Rotating == pc \in {"reopen", "publish"}

\* A connection belongs to one descriptor as long as its listener works for it.
ConnInv ==
    /\ \A l \in Listeners : /\ lpc[l] \in {"off", "accept"} <=> conn[l] = NoFd
                            /\ conn[l] # NoFd => fds[conn[l]] = l
                            /\ \A f \in Fds : fds[f] = l => conn[l] = f
                            /\ lpc[l] = "off" <=> pc \in {"off", "bound"}
    /\ unanswered = 0

NoLog == \A f \in Fds : fds[f] # "log"
OnlyLog(g) == g \in Fds /\ \A f \in Fds : fds[f] = "log" <=> f = g

\* Where the log is, before, between and after the steps that move it.
LogInv ==
    /\ pc \in {"off", "bound"} => \A f \in Fds : fds[f] = "none"
    /\ pc \notin {"off", "bound"} /\ ~Truncating /\ ~Rotating => OnlyLog(logfd)
    /\ lpc["truncate"] \in {"truncate", "open"} \/ pc = "reopen" => NoLog
    /\ lpc["truncate"] = "publish" => OnlyLog(opened["truncate"])
    /\ pc = "publish" => OnlyLog(opened["main"])

\* The parts that are still to be written of the message in hand.
Pending == IF pc \in {"query", "insert", "echo"} THEN left ELSE 0

SizeInv ==
    /\ ~load.redirected => size = 0 /\ pc \notin {"rotate", "reopen", "publish"}
    /\ load.requests = 0 => lpc["truncate"] \in {"off", "accept"}
    /\ pc = "publish" => size = 0
    /\ pc \in {"setup", "recv", "query", "insert", "echo"} =>
            size + Pending <= MaxLogSize - 1 + (count + 1) * Parts
    /\ size <= MaxLogSize - 1 + Period * Parts

FileInv == Undisturbed => ConnInv /\ LogInv /\ SizeInv

-----------------------------------------------------------------------------
(* The constants, sequences and descriptors.                               *)

LEMMA BoundFacts ==
    /\ QueueSize \in Nat \ {0} /\ Parts \in Nat \ {0}
    /\ Period \in Nat \ {0} /\ MaxLogSize \in Nat \ {0}
    /\ \A l \in Loads : /\ l.msgs \in Nat /\ l.runs \in Nat /\ l.requests \in Nat
                        /\ l.redirected \in BOOLEAN
BY BoundsAssumption

LEMMA Positive ==
    Parts \in Nat /\ Parts > 0 /\ Period \in Nat /\ Period > 0 /\ MaxLogSize \in Nat /\ MaxLogSize > 0
BY BoundFacts

LEMMA MostMessages == MaxMsgs \in Nat /\ \A l \in Loads : l.msgs <= MaxMsgs
<1> DEFINE S == {l.msgs : l \in Loads}
<1>1. S \subseteq Nat
  BY BoundFacts
<1>2. \E x \in S : \A y \in S : x >= y
  BY BoundsAssumption, <1>1
<1>3. MaxMsgs \in S /\ \A y \in S : MaxMsgs >= y
  BY <1>2 DEF MaxMsgs, Max
<1> QED
  BY <1>1, <1>3

\* A new element is the last one, and the others stay where they are.
LEMMA Appended ==
    ASSUME NEW S, NEW s \in Seq(S), NEW e \in S
    PROVE  /\ Append(s, e) \in Seq(S) /\ Len(Append(s, e)) = Len(s) + 1 /\ Len(s) \in Nat
           /\ Append(s, e)[Len(s) + 1] = e
           /\ \A i \in 1 .. Len(s) : Append(s, e)[i] = s[i] /\ s[i] \in S
BY AppendProperties, ElementOfSeq, LenProperties

LEMMA HeadAndTail ==
    ASSUME NEW S, NEW s \in Seq(S), s # <<>>
    PROVE  /\ Head(s) \in S /\ Head(s) = s[1] /\ Tail(s) \in Seq(S)
           /\ Len(Tail(s)) = Len(s) - 1 /\ Len(s) \in Nat \ {0}
           /\ \A i \in 1 .. Len(Tail(s)) : Tail(s)[i] = s[i + 1]
<1>1. Len(s) \in Nat \ {0}
  BY EmptySeq
<1> QED
  BY <1>1, HeadTailProperties

\* Parts r of a message, written at the end.
LEMMA Concatenated ==
    ASSUME NEW S, NEW s \in Seq(S), NEW r \in Nat, NEW t \in Seq(S), Len(t) = r
    PROVE  /\ s \o t \in Seq(S) /\ Len(s) \in Nat /\ Len(s \o t) = Len(s) + r
           /\ \A i \in 1 .. Len(s) : (s \o t)[i] = s[i]
           /\ \A i \in 1 .. r : (s \o t)[Len(s) + i] = t[i]
<1>1. Len(s) \in Nat
  BY LenProperties
<1>2. /\ s \o t \in Seq(S) /\ Len(s \o t) = Len(s) + Len(t)
      /\ \A i \in 1 .. Len(s) + Len(t) : (s \o t)[i] =
            IF i <= Len(s) THEN s[i] ELSE t[i - Len(s)]
  BY ConcatProperties
<1>3. \A i \in 1 .. r : Len(s) + i \in 1 .. Len(s) + r /\ ~(Len(s) + i <= Len(s))
                           /\ (Len(s) + i) - Len(s) = i
  BY <1>1
<1> QED
  BY <1>1, <1>2, <1>3

\* open() finds the lowest free descriptor, unless all are in use.
LEMMA Lowest ==
    /\ LowestFree \in Fds \union {NoFd}
    /\ LowestFree \in Fds => fds[LowestFree] = "none"
    /\ (\E f \in Fds : fds[f] = "none") => LowestFree \in Fds
<1>1. CASE FreeFds = {}
  BY <1>1 DEF LowestFree, FreeFds, Fds, NoFd
<1>2. CASE FreeFds # {}
  <2>1. \E x \in FreeFds : \A y \in FreeFds : x <= y
    BY <1>2, SMT DEF FreeFds, Fds
  <2>2. LowestFree \in FreeFds
    BY <1>2, <2>1 DEF LowestFree, Min
  <2> QED
    BY <2>2 DEF FreeFds
<1> QED
  BY <1>1, <1>2

-----------------------------------------------------------------------------
(* Types.                                                                  *)

LEMMA InitTypes == Init => Types
<1> SUFFICES ASSUME Init PROVE Types
  OBVIOUS
<1>1. load.msgs \in Nat /\ load.msgs <= MaxMsgs /\ load.runs \in Nat /\ load.requests \in Nat
  BY BoundFacts, MostMessages DEF Init
<1>2. MainTypes
  <2>1. check_logfile \in BOOLEAN /\ session \in BOOLEAN
    BY Zenon DEF Init
  <2> QED
    BY <2>1, Positive DEF Init, MainTypes, MainLabels, InHand
<1>3. FileTypes
  BY DEF Init, FileTypes
<1>4. ListenTypes
  BY <1>1 DEF Init, ListenTypes, ListenLabels
<1>5. WorldTypes
  <2>1. kept \subseteq Msgs
    BY <1>1, MostMessages DEF Init, Msgs
  <2> QED
    BY <1>1, <2>1, EmptySeq DEF Init, WorldTypes
<1>6. HistoryTypes
  BY EmptySeq DEF Init, HistoryTypes
<1> QED
  BY <1>2, <1>3, <1>4, <1>5, <1>6 DEF Types

\* Groups of variables that a step leaves alone keep their types.
LEMMA Frames ==
    ASSUME Types
    PROVE  /\ UNCHANGED mainVars => MainTypes'
           /\ UNCHANGED fileVars => FileTypes'
           /\ UNCHANGED listenVars /\ UNCHANGED load => ListenTypes'
           /\ UNCHANGED world => WorldTypes'
           /\ UNCHANGED history => HistoryTypes'
<1>1. UNCHANGED mainVars => MainTypes'
  BY DEF Types, mainVars, MainTypes, InHand
<1>2. UNCHANGED fileVars => FileTypes'
  BY DEF Types, fileVars, FileTypes
<1>3. UNCHANGED listenVars /\ UNCHANGED load => ListenTypes'
  BY DEF Types, listenVars, ListenTypes
<1>4. UNCHANGED world => WorldTypes'
  BY DEF Types, world, WorldTypes
<1>5. UNCHANGED history => HistoryTypes'
  BY DEF Types, history, HistoryTypes
<1> QED
  BY <1>1, <1>2, <1>3, <1>4, <1>5

LEMMA SendTypes == ASSUME Types, Send PROVE Types'
<1>1. load.msgs \in Nat /\ load.msgs <= MaxMsgs
  BY BoundFacts, MostMessages DEF Types, WorldTypes
<1>2. sent + 1 \in Msgs /\ sent' \in 0 .. load.msgs
  BY <1>1, MostMessages DEF Send, Types, WorldTypes, Msgs
<1>3. queue' \in Seq(Msgs)
  BY <1>2, Appended DEF Send, Types, WorldTypes
<1>4. WorldTypes'
  BY <1>2, <1>3 DEF Send, Types, WorldTypes
<1> QED
  BY <1>4, Frames DEF Send, Types

\* The daemon starts.
LEMMA StartTypes == ASSUME Types, Start \/ StartListeners \/ SetupCassandra PROVE Types'
<1>1. MainTypes'
  <2>1. check_logfile' \in BOOLEAN /\ session' \in BOOLEAN
    BY Zenon DEF Start, StartListeners, SetupCassandra, Types, MainTypes
  <2> QED
    BY <2>1 DEF Start, StartListeners, SetupCassandra, Types, MainTypes, MainLabels, InHand
<1>2. CASE Start
  <2>1. WorldTypes'
    BY <1>2, BoundFacts DEF Start, Types, WorldTypes
  <2> QED
    BY <1>1, <1>2, <2>1, Frames DEF Start, Types
<1>3. CASE StartListeners
  <2>1. FileTypes'
    BY <1>3, Lowest DEF StartListeners, Types, FileTypes
  <2>2. ListenTypes'
    BY <1>3 DEF StartListeners, Types, ListenTypes, ListenLabels, world
  <2> QED
    BY <1>1, <1>3, <2>1, <2>2, Frames DEF StartListeners, Types
<1>4. CASE SetupCassandra
  BY <1>1, <1>4, Frames DEF SetupCassandra, Types, world
<1> QED
  BY <1>2, <1>3, <1>4

LEMMA ReceiveTypes == ASSUME Types, Receive PROVE Types'
<1>1. queue \in Seq(Msgs) /\ queue # <<>> /\ got \in Seq(Msgs)
  BY DEF Receive, Types, WorldTypes, HistoryTypes
<1>2. Head(queue) \in Msgs /\ Tail(queue) \in Seq(Msgs) /\ Append(got, Head(queue)) \in Seq(Msgs)
  BY <1>1, HeadAndTail, Appended
<1>3. MainTypes'
  BY <1>2, Positive DEF Receive, Types, MainTypes, MainLabels, InHand
<1>4. WorldTypes' /\ HistoryTypes'
  BY <1>2 DEF Receive, Types, WorldTypes, HistoryTypes
<1> QED
  BY <1>3, <1>4, Frames DEF Receive, Types

\* The size check and the rotation.
LEMMA RotationTypes ==
    ASSUME Types, CheckSize \/ RotateClose \/ RotateOpen \/ RotatePublish
    PROVE  Types'
<1>1. MainTypes'
  <2>1. CASE CheckSize
    BY <2>1, Positive DEF CheckSize, Types, MainTypes, MainLabels, InHand
  <2>2. CASE RotateClose \/ RotateOpen
    BY <2>2 DEF RotateClose, RotateOpen, mainLocals, Types, MainTypes, MainLabels, InHand
  <2>3. CASE RotatePublish
    BY <2>3, Positive DEF RotatePublish, mainLocals, Types, MainTypes, MainLabels, InHand
  <2> QED
    BY <2>1, <2>2, <2>3
<1>2. FileTypes'
  <2>1. CASE CheckSize
    BY <2>1, Frames DEF CheckSize
  <2>2. CASE RotateClose \/ RotatePublish
    BY <2>2 DEF RotateClose, RotatePublish, CloseLogfd, Closed, Publish, Types, FileTypes
  <2>3. CASE RotateOpen
    BY <2>3, Lowest DEF RotateOpen, Open, Types, FileTypes
  <2> QED
    BY <2>1, <2>2, <2>3
<1>3. UNCHANGED <<listenVars, world, history>>
  BY DEF CheckSize, RotateClose, RotateOpen, RotatePublish
<1> QED
  BY <1>1, <1>2, <1>3, Frames DEF Types, world

LEMMA QueryTypes == ASSUME Types, BuildQuery \/ ExecuteInsert PROVE Types'
<1>1. MainTypes'
  <2>1. check_logfile' \in BOOLEAN /\ session' \in BOOLEAN
    <3>1. (buf \in kept) \in BOOLEAN
      OBVIOUS
    <3>2. check_logfile' = (buf \in kept) \/ check_logfile' = check_logfile
      BY Zenon DEF BuildQuery, ExecuteInsert
    <3>3. session' = session
      BY Zenon DEF BuildQuery, ExecuteInsert
    <3>4. check_logfile \in BOOLEAN /\ session \in BOOLEAN
      BY Zenon DEF Types, MainTypes
    <3> QED
      BY Zenon, <3>1, <3>2, <3>3, <3>4
  <2>2. (pc = "query" \/ pc = "insert") /\ UNCHANGED <<buf, pos, left, count>>
    BY Zenon DEF BuildQuery, ExecuteInsert
  <2>3. pc' = "insert" \/ pc' = "echo"
    BY Zenon DEF BuildQuery, ExecuteInsert
  <2>4. event_count \in Nat => event_count' \in Nat
    BY DEF BuildQuery, ExecuteInsert
  <2> QED
    BY <2>1, <2>2, <2>3, <2>4 DEF Types, MainTypes, MainLabels, InHand
<1>2. WorldTypes'
  <2>1. rows' \in [0 .. MaxMsgs -> Msgs \union {NoMsg}]
    BY DEF BuildQuery, ExecuteInsert, Types, WorldTypes, MainTypes, world
  <2> QED
    BY <2>1 DEF BuildQuery, ExecuteInsert, Types, WorldTypes, world
<1>3. UNCHANGED <<fileVars, listenVars, load, got, echo>>
  BY DEF BuildQuery, ExecuteInsert, history, world
<1>4. HistoryTypes'
  BY <1>3 DEF Types, HistoryTypes
<1> QED
  BY <1>1, <1>2, <1>3, <1>4, Frames DEF Types

\* What one write takes of the message.
LEMMA EchoParts ==
    ASSUME Types, Echo
    PROVE  \E r \in 1 .. left :
             LET parts == [i \in 1 .. r |-> <<buf, pos + i - 1>>]
             IN  /\ r \in Nat /\ parts \in Seq(Msgs \X Nat) /\ Len(parts) = r
                 /\ echo' = echo \o parts /\ pos' = pos + r /\ left' = left - r
                 /\ size' = IF load.redirected THEN size + r ELSE size
                 /\ buf \in Msgs /\ pos \in Nat \ {0} /\ pos + left = Parts + 1
<1>1. PICK r \in 1 .. left :
         /\ echo' = echo \o [i \in 1 .. r |-> <<buf, pos + i - 1>>]
         /\ pos' = pos + r
         /\ left' = left - r
         /\ size' = IF load.redirected THEN size + r ELSE size
  BY DEF Echo
<1>2. /\ buf \in Msgs /\ pos \in Nat \ {0} /\ pos + left = Parts + 1
      /\ left \in Nat /\ r \in Nat
  BY BoundFacts DEF Echo, Types, MainTypes, InHand
<1> DEFINE parts == [i \in 1 .. r |-> <<buf, pos + i - 1>>]
<1>3. parts \in [1 .. r -> Msgs \X Nat]
  BY <1>2
<1>4. parts \in Seq(Msgs \X Nat) /\ Len(parts) = r
  BY <1>2, <1>3
<1> QED
  BY <1>1, <1>2, <1>4

LEMMA EchoTypes == ASSUME Types, Echo PROVE Types'
<1>1. PICK r \in 1 .. left :
         LET parts == [i \in 1 .. r |-> <<buf, pos + i - 1>>]
         IN  /\ r \in Nat /\ parts \in Seq(Msgs \X Nat) /\ Len(parts) = r
             /\ echo' = echo \o parts /\ pos' = pos + r /\ left' = left - r
             /\ size' = IF load.redirected THEN size + r ELSE size
             /\ buf \in Msgs /\ pos \in Nat \ {0} /\ pos + left = Parts + 1
  BY EchoParts
<1>2. MainTypes'
  BY <1>1, Positive DEF Echo, Types, MainTypes, MainLabels, InHand
<1>3. HistoryTypes'
  <2>1. echo \in Seq(Msgs \X Nat)
    BY DEF Types, HistoryTypes
  <2>2. echo' \in Seq(Msgs \X Nat)
    BY <1>1, <2>1, Concatenated
  <2> QED
    BY <2>2 DEF Echo, Types, HistoryTypes
<1>4. FileTypes'
  BY <1>1 DEF Echo, Types, FileTypes
<1> QED
  BY <1>2, <1>3, <1>4, Frames DEF Echo, Types, world

LEMMA StopTypes == ASSUME Types, Stop PROVE Types'
<1>1. MainTypes'
  <2>1. check_logfile' \in BOOLEAN /\ session' \in BOOLEAN
    BY Zenon DEF Stop
  <2> QED
    BY <2>1, Positive DEF Stop, MainTypes, MainLabels, InHand
<1>2. FileTypes'
  BY DEF Stop, Types, FileTypes
<1>3. ListenTypes'
  BY DEF Stop, Types, ListenTypes, ListenLabels
<1>4. WorldTypes' /\ HistoryTypes'
  BY EmptySeq DEF Stop, Types, WorldTypes, HistoryTypes
<1> QED
  BY <1>1, <1>2, <1>3, <1>4 DEF Types

LEMMA ListenerTypes == ASSUME Types, NEW l \in Listeners, ListenerStep(l) PROVE Types'
<1>1. /\ UNCHANGED <<mainVars, history, world>>
      /\ FileTypes'
  <2>1. CASE Accept(l) \/ Hangup(l)
    BY <2>1, Lowest DEF Accept, Hangup, Closed, Types, FileTypes
  <2>2. CASE Reply(l) \/ Unlink
    BY <2>2, Frames DEF Reply, Unlink
  <2>3. CASE TruncateClose \/ Truncate \/ TruncateOpen \/ TruncatePublish
    BY <2>3, Lowest DEF TruncateClose, Truncate, TruncateOpen, TruncatePublish,
           CloseLogfd, Closed, Open, Publish, Types, FileTypes
  <2> QED
    BY <2>1, <2>2, <2>3 DEF ListenerStep
<1>2. load.requests \in Nat /\ load' = load
  BY <1>1, BoundFacts DEF Types, WorldTypes, world
<1>3. ListenTypes'
  <2>1. CASE Accept(l) \/ Hangup(l) \/ Reply(l)
    BY <1>2, <2>1, Lowest DEF Accept, Hangup, Reply, Goto, Types, ListenTypes, ListenLabels
  <2>2. CASE Unlink \/ TruncateClose \/ Truncate \/ TruncateOpen \/ TruncatePublish
    BY <1>2, <2>2 DEF Unlink, TruncateClose, Truncate, TruncateOpen, TruncatePublish,
           threadLocals, Goto, Types, ListenTypes, ListenLabels, Listeners
  <2> QED
    BY <2>1, <2>2 DEF ListenerStep
<1> QED
  BY <1>1, <1>3, Frames DEF Types

LEMMA NextTypes == Types /\ [Next]_vars => Types'
<1> SUFFICES ASSUME Types, [Next]_vars PROVE Types'
  OBVIOUS
<1>1. CASE UNCHANGED vars
  BY <1>1, Frames DEF vars, Types, world
<1> QED
  BY <1>1, SendTypes, StartTypes, ReceiveTypes, RotationTypes, QueryTypes, EchoTypes,
     StopTypes, ListenerTypes DEF Next, MainStep

THEOREM Typed == Spec => []Types
<1>1. Init => Types
  BY InitTypes
<1>2. Types /\ [Next]_vars => Types'
  BY NextTypes
<1> QED
  BY <1>1, <1>2, PTL DEF Spec

-----------------------------------------------------------------------------
(* The echo.                                                               *)

\* Place Parts * q + m of the echo belongs to message q and part m.
LEMMA Places ==
    ASSUME NEW q \in Nat, NEW m \in 0 .. Parts - 1
    PROVE  /\ (Parts * q + m) \div Parts = q /\ (Parts * q + m) % Parts = m
           /\ Parts * q + m \in Nat /\ Parts * (q + 1) = Parts * q + Parts
BY Positive

LEMMA PlaceOf ==
    ASSUME NEW n \in Nat, NEW i \in 1 .. Parts * n
    PROVE  (i - 1) \div Parts \in 0 .. n - 1
BY Positive

\* The parts of messages that have been received stay the same parts.
LEMMA WrittenStays ==
    ASSUME Types, NEW m \in Msgs, got' = Append(got, m), NEW i \in 1 .. Parts * Len(got)
    PROVE  Written(i)' = Written(i)
<1>1. got \in Seq(Msgs) /\ Len(got) \in Nat
  BY LenProperties DEF Types, HistoryTypes
<1>2. ((i - 1) \div Parts) + 1 \in 1 .. Len(got)
  BY <1>1, PlaceOf, Positive
<1> QED
  BY <1>1, <1>2, Appended DEF Written

LEMMA InitMessage == Init => MessageInv
<1> SUFFICES ASSUME Init PROVE MessageInv
  OBVIOUS
<1>1. Len(got) = 0 /\ Len(echo) = 0 /\ Parts * 0 = 0
  BY EmptySeq, Positive DEF Init
<1> QED
  BY <1>1 DEF Init, MessageInv, InHand

LEMMA ReceiveMessage == ASSUME Types, MessageInv, Receive PROVE MessageInv'
<1>1. queue \in Seq(Msgs) /\ queue # <<>> /\ got \in Seq(Msgs) /\ Len(got) \in Nat
  BY LenProperties DEF Receive, Types, WorldTypes, HistoryTypes
<1>2. Head(queue) \in Msgs /\ got' = Append(got, Head(queue)) /\ buf' = Head(queue)
  BY <1>1, HeadAndTail DEF Receive
<1>3. Len(got') = Len(got) + 1 /\ got'[Len(got')] = buf'
  BY <1>1, <1>2, Appended
<1>4. pc' = "size" \/ pc' = "query"
  BY DEF Receive
<1>5. pc = "recv" /\ pos' = 1 /\ left' = Parts /\ echo' = echo
  BY DEF Receive
<1>6. Len(echo) = Parts * Len(got) /\ \A i \in 1 .. Len(echo) : echo[i] = Written(i)
  BY <1>5 DEF MessageInv, InHand
<1>7. \A i \in 1 .. Len(echo') : echo'[i] = Written(i)'
  BY <1>2, <1>5, <1>6, WrittenStays
<1>8. Len(got') > 0 /\ left' > 0 /\ Len(echo') = Parts * (Len(got') - 1) + (pos' - 1)
  <2>1. Len(got') - 1 = Len(got) /\ pos' - 1 = 0 /\ Parts * Len(got) \in Nat
    BY <1>1, <1>3, <1>5, Positive
  <2> QED
    BY <1>1, <1>3, <1>5, <1>6, <2>1, Positive
<1> QED
  BY <1>3, <1>4, <1>5, <1>7, <1>8 DEF MessageInv, InHand

LEMMA EchoMessage == ASSUME Types, MessageInv, Echo PROVE MessageInv'
<1> DEFINE n == Len(got) - 1
<1>1. PICK r \in 1 .. left :
         LET parts == [i \in 1 .. r |-> <<buf, pos + i - 1>>]
         IN  /\ r \in Nat /\ parts \in Seq(Msgs \X Nat) /\ Len(parts) = r
             /\ echo' = echo \o parts /\ pos' = pos + r /\ left' = left - r
             /\ size' = IF load.redirected THEN size + r ELSE size
             /\ buf \in Msgs /\ pos \in Nat \ {0} /\ pos + left = Parts + 1
  BY EchoParts
<1> DEFINE parts == [i \in 1 .. r |-> <<buf, pos + i - 1>>]
<1>2. /\ pc = "echo" /\ buf' = buf /\ got' = got
      /\ (pc' = "echo" /\ left' > 0) \/ (pc' = "recv" /\ ~(left' > 0))
  BY DEF Echo
<1>3. /\ n \in Nat /\ buf = got[n + 1] /\ left \in Nat
      /\ Len(echo) = Parts * n + (pos - 1)
  <2>1. Len(got) \in Nat
    BY LenProperties DEF Types, HistoryTypes
  <2> QED
    BY <1>2, <2>1, Positive DEF MessageInv, InHand, Types, MainTypes
<1>4. /\ Len(echo) \in Nat /\ Len(echo') = Len(echo) + r
      /\ \A i \in 1 .. Len(echo) : echo'[i] = echo[i]
      /\ \A i \in 1 .. r : echo'[Len(echo) + i] = parts[i]
  BY <1>1, Concatenated DEF Types, HistoryTypes
<1>5. \A i \in 1 .. r : echo'[Len(echo) + i] = Written(Len(echo) + i)
  <2> SUFFICES ASSUME NEW i \in 1 .. r PROVE echo'[Len(echo) + i] = Written(Len(echo) + i)
    OBVIOUS
  <2>1. echo'[Len(echo) + i] = <<buf, pos + i - 1>>
    BY <1>4
  <2>2. pos + i - 2 \in 0 .. Parts - 1
    BY <1>1, <1>3, Positive
  <2>3. Len(echo) + i - 1 = Parts * n + (pos + i - 2)
    <3>1. Parts * n \in Nat
      BY <1>3, Positive
    <3> QED
      BY <1>1, <1>3, <3>1
  <2>4. (Len(echo) + i - 1) \div Parts = n /\ (Len(echo) + i - 1) % Parts = pos + i - 2
    BY <1>3, <2>2, <2>3, Places
  <2>5. (pos + i - 2) + 1 = pos + i - 1
    BY <1>1
  <2> QED
    BY <1>3, <2>1, <2>4, <2>5 DEF Written
<1>6. \A i \in 1 .. Len(echo') : echo'[i] = Written(i)'
  <2>1. \A i : Written(i)' = Written(i)
    BY <1>2 DEF Written
  <2>2. \A i \in 1 .. Len(echo) + r : i \in 1 .. Len(echo) \/ i - Len(echo) \in 1 .. r
    BY <1>1, <1>4
  <2>3. \A i \in 1 .. Len(echo) : echo'[i] = Written(i)
    BY <1>4 DEF MessageInv
  <2> SUFFICES ASSUME NEW i \in 1 .. Len(echo) + r, i - Len(echo) \in 1 .. r
               PROVE  echo'[i] = Written(i)
    BY <1>4, <2>1, <2>2, <2>3
  <2>4. i = Len(echo) + (i - Len(echo))
    BY <1>4
  <2> QED
    BY <1>5, <2>4
<1>7. Len(echo') = Parts * n + (pos' - 1)
  <2>1. Parts * n \in Nat
    BY <1>3, Positive
  <2> QED
    BY <1>1, <1>3, <1>4, <2>1
<1>8. pc' = "recv" => Len(echo') = Parts * Len(got')
  <2> SUFFICES ASSUME pc' = "recv" PROVE Len(echo') = Parts * (n + 1)
    BY <1>2, LenProperties DEF Types, HistoryTypes
  <2>1. left' = 0 /\ pos' = Parts + 1
    BY <1>1, <1>2, <1>3, Positive
  <2>2. Parts * (n + 1) = Parts * n + Parts /\ Parts * n \in Nat
    BY <1>3, Positive
  <2> QED
    BY <1>7, <2>1, <2>2, Positive
<1> QED
  BY <1>2, <1>3, <1>6, <1>7, <1>8 DEF MessageInv, InHand

\* A step that handles no message.
LEMMA QuietMessage ==
    ASSUME MessageInv, UNCHANGED <<buf, pos, left, got, echo>>,
           InHand' <=> InHand, pc = "echo" => pc' = "echo",
           pc' \in {"off", "bound", "setup"} => pc \in {"off", "bound", "setup"}
    PROVE  MessageInv'
<1>1. \A i : Written(i)' = Written(i)
  BY DEF Written
<1> QED
  BY <1>1 DEF MessageInv

LEMMA StopMessage == ASSUME Stop PROVE MessageInv'
<1>1. got' = <<>> /\ Len(got') = 0 /\ Len(echo') = 0 /\ Parts * 0 = 0 /\ pc' = "off"
  BY EmptySeq, Positive DEF Stop
<1> QED
  BY <1>1 DEF MessageInv, InHand

LEMMA QueryMessage == ASSUME MessageInv, BuildQuery \/ ExecuteInsert PROVE MessageInv'
<1>1. /\ pc = "query" \/ pc = "insert"
      /\ pc' = "insert" \/ pc' = "echo"
      /\ UNCHANGED <<buf, pos, left, got, echo>>
  <2>1. pc = "query" \/ pc = "insert"
    BY Zenon DEF BuildQuery, ExecuteInsert
  <2>2. pc' = "insert" \/ pc' = "echo"
    BY Zenon DEF BuildQuery, ExecuteInsert
  <2>3. UNCHANGED <<buf, pos, left, got, echo>>
    BY DEF BuildQuery, ExecuteInsert, history
  <2> QED
    BY <2>1, <2>2, <2>3
<1>2. InHand /\ InHand'
  BY <1>1 DEF InHand
<1>3. \A i : Written(i)' = Written(i)
  BY <1>1 DEF Written
<1> QED
  BY <1>1, <1>2, <1>3 DEF MessageInv

LEMMA NextMessage == Types /\ MessageInv /\ [Next]_vars => MessageInv'
<1> SUFFICES ASSUME Types, MessageInv, [Next]_vars PROVE MessageInv'
  OBVIOUS
<1>1. CASE UNCHANGED vars
  BY <1>1, QuietMessage DEF vars, mainVars, history, InHand
<1>2. CASE Send \/ Start \/ StartListeners \/ SetupCassandra
  BY <1>2, QuietMessage
     DEF Send, Start, StartListeners, SetupCassandra, mainVars, history, InHand
<1>3. CASE CheckSize \/ RotateClose \/ RotateOpen \/ RotatePublish
  BY <1>3, QuietMessage
     DEF CheckSize, RotateClose, RotateOpen, RotatePublish, mainLocals, history, InHand
<1>4. ASSUME NEW l \in Listeners, ListenerStep(l) PROVE MessageInv'
  BY <1>4, QuietMessage
     DEF ListenerStep, Accept, Reply, Hangup, Unlink, TruncateClose, Truncate,
         TruncateOpen, TruncatePublish, mainVars, history, InHand
<1> QED
  BY <1>1, <1>2, <1>3, <1>4, ReceiveMessage, QueryMessage, EchoMessage, StopMessage
     DEF Next, MainStep

THEOREM MessageKept == Spec => [](Types /\ MessageInv)
<1>1. Init => Types /\ MessageInv
  BY InitTypes, InitMessage
<1>2. Types /\ MessageInv /\ [Next]_vars => (Types /\ MessageInv)'
  BY NextTypes, NextMessage
<1> QED
  BY <1>1, <1>2, PTL DEF Spec

\* What the daemon writes is what it receives, part by part and in order: Echo
\* starts every message at its first part and goes on after the last one written.
THEOREM EchoIsInput == Spec => []EchoOK
<1>1. MessageInv => EchoOK
  BY DEF MessageInv, EchoOK, Written, InHand
<1> QED
  BY <1>1, MessageKept, PTL

-----------------------------------------------------------------------------
(* The table.                                                              *)

LEMMA Lengths ==
    ASSUME Types
    PROVE  /\ got \in Seq(Msgs) /\ Len(got) \in Nat /\ queue \in Seq(Msgs) /\ Len(queue) \in Nat
           /\ \A i \in 1 .. Len(got) : got[i] \in Nat /\ got[i] # NoMsg
           /\ \A j \in 1 .. Len(queue) : queue[j] \in Nat /\ queue[j] # NoMsg
           /\ sent \in Nat /\ event_count \in Nat /\ MaxMsgs \in Nat
<1>1. got \in Seq(Msgs) /\ queue \in Seq(Msgs) /\ event_count \in Nat /\ MaxMsgs \in Nat
  BY MostMessages DEF Types, HistoryTypes, WorldTypes, MainTypes
<1>2. sent \in Nat
  BY BoundFacts DEF Types, WorldTypes
<1>3. \A m \in Msgs : m \in Nat /\ m # NoMsg
  BY <1>1 DEF Msgs, NoMsg
<1> QED
  BY <1>1, <1>2, <1>3, LenProperties, ElementOfSeq

\* Newer(m, s): all messages in s were sent before m.
Newer(m, s) == \A i \in 1 .. Len(s) : s[i] < m

LEMMA AppendKeeps ==
    ASSUME NEW s \in Seq(Msgs), NEW m \in Msgs, NEW t, t = Append(s, m)
    PROVE  /\ Len(t) = Len(s) + 1
           /\ \A P \in SUBSET Nat : m \in P /\ (\A i \in 1 .. Len(s) : s[i] \in P)
                                     => \A i \in 1 .. Len(t) : t[i] \in P
           /\ Increasing(s) /\ Newer(m, s) => Increasing(t)
           /\ \A k \in Nat : Older(k, s) /\ k < m => Older(k, t)
           /\ \A k \in Nat : Newer(k, s) /\ m < k => Newer(k, t)
<1>1. /\ Len(s) \in Nat /\ Len(t) = Len(s) + 1 /\ t[Len(s) + 1] = m
      /\ \A i \in 1 .. Len(s) : t[i] = s[i] /\ s[i] \in Msgs
  BY Appended
<1>2. \A i \in 1 .. Len(t) : i \in 1 .. Len(s) \/ i = Len(s) + 1
  BY <1>1
<1>3. ASSUME Increasing(s), Newer(m, s) PROVE Increasing(t)
  <2> SUFFICES ASSUME NEW i \in 1 .. Len(t), NEW j \in 1 .. Len(t), i < j PROVE t[i] < t[j]
    BY DEF Increasing
  <2>1. i \in 1 .. Len(s) /\ t[i] = s[i]
    BY <1>1
  <2>2. CASE j \in 1 .. Len(s)
    BY <1>1, <1>3, <2>1, <2>2 DEF Increasing
  <2>3. CASE j = Len(s) + 1
    BY <1>1, <1>3, <2>1, <2>3 DEF Newer
  <2> QED
    BY <1>2, <2>2, <2>3
<1> QED
  BY <1>1, <1>2, <1>3 DEF Older, Newer

LEMMA TailKeeps ==
    ASSUME NEW s \in Seq(Msgs), s # <<>>, NEW t, t = Tail(s)
    PROVE  /\ Len(t) = Len(s) - 1 /\ Head(s) \in Msgs /\ Head(s) = s[1] /\ 1 \in 1 .. Len(s)
           /\ \A j \in 1 .. Len(t) : j + 1 \in 1 .. Len(s) /\ t[j] = s[j + 1]
           /\ Increasing(s) => Increasing(t) /\ Older(Head(s), t)
           /\ \A k : Older(k, s) => Older(k, t) /\ k < Head(s)
<1>1. /\ Len(s) \in Nat \ {0} /\ Len(t) = Len(s) - 1 /\ Head(s) \in Msgs /\ Head(s) = s[1]
      /\ \A j \in 1 .. Len(t) : t[j] = s[j + 1]
  BY HeadAndTail
<1>2. 1 \in 1 .. Len(s) /\ \A j \in 1 .. Len(t) : j + 1 \in 1 .. Len(s) /\ 1 < j + 1
  BY <1>1
<1>3. ASSUME Increasing(s) PROVE Increasing(t) /\ Older(Head(s), t)
  <2>1. \A i, j \in 1 .. Len(t) : i < j => i + 1 < j + 1
    BY <1>1
  <2> QED
    BY <1>1, <1>2, <1>3, <2>1 DEF Increasing, Older
<1>4. \A k : Older(k, s) => Older(k, t) /\ k < Head(s)
  BY <1>1, <1>2 DEF Older
<1> QED
  BY <1>1, <1>2, <1>3, <1>4

LEMMA InitTable == Init => TableInv
<1> SUFFICES ASSUME Init PROVE TableInv
  OBVIOUS
<1>1. Len(got) = 0 /\ Len(queue) = 0
  BY EmptySeq DEF Init
<1>2. MaxMsgs \in Nat
  BY MostMessages
<1> QED
  BY <1>1, <1>2 DEF Init, TableInv, OrderInv, CountInv, RowInv, Increasing, Stored, Older

LEMMA SendTable == ASSUME Types, TableInv, Send PROVE TableInv'
<1>1. sent + 1 \in Msgs
  BY BoundFacts, MostMessages DEF Send, Types, WorldTypes, Msgs
<1>2. /\ queue' = Append(queue, sent + 1) /\ sent' = sent + 1
      /\ UNCHANGED <<got, event_count, pc, buf, kept, failed, rows>>
  BY DEF Send, mainVars, history
<1>3. \A m \in Nat : m <= sent => m < sent + 1
  BY Lengths
<1> queue \in Seq(Msgs)
  BY Lengths
<1>4. /\ Len(queue') = Len(queue) + 1
      /\ Increasing(queue) /\ Newer(sent + 1, queue) => Increasing(queue')
      /\ \A k \in Nat : Older(k, queue) /\ k < sent + 1 => Older(k, queue')
  <2>1. PICK m \in Msgs : m = sent + 1
    BY <1>1
  <2>2. queue' = Append(queue, m)
    BY <1>2, <2>1
  <2>3. /\ Len(queue') = Len(queue) + 1
        /\ Increasing(queue) /\ Newer(m, queue) => Increasing(queue')
        /\ \A k \in Nat : Older(k, queue) /\ k < m => Older(k, queue')
    BY <2>2, AppendKeeps
  <2> QED
    BY <2>1, <2>3
<1>5. OrderInv'
  <2>1. Newer(sent + 1, queue) /\ Increasing(queue) /\ queue \in Seq(Msgs)
    BY <1>3, Lengths DEF TableInv, OrderInv, Newer
  <2>2. Increasing(queue')
    BY <1>4, <2>1
  <2>3. \A j \in 1 .. Len(queue') : queue'[j] <= sent'
    <3> DEFINE P == 0 .. sent + 1
    <3>1. P \in SUBSET Nat /\ sent + 1 \in P
      BY Lengths
    <3>2. \A j \in 1 .. Len(queue) : queue[j] \in P
      BY Lengths DEF TableInv, OrderInv
    <3>3. \A j \in 1 .. Len(queue') : queue'[j] \in P
      BY <1>1, <1>2, <2>1, <3>1, <3>2, AppendKeeps
    <3> QED
      BY <1>2, <3>3, Lengths
  <2>4. \A i \in 1 .. Len(got) : got[i] <= sent' /\ Older(got[i], queue')
    <3> SUFFICES ASSUME NEW i \in 1 .. Len(got)
                 PROVE  got[i] <= sent' /\ Older(got[i], queue')
      OBVIOUS
    <3>1. got[i] \in Nat /\ got[i] <= sent /\ Older(got[i], queue) /\ sent \in Nat
      BY Lengths DEF TableInv, OrderInv
    <3> QED
      BY <1>2, <1>3, <1>4, <3>1
  <2>5. Len(got) + Len(queue') <= sent'
    BY <1>2, <1>4, Lengths DEF TableInv, OrderInv
  <2> QED
    BY <1>2, <2>2, <2>3, <2>4, <2>5 DEF TableInv, OrderInv
<1>6. CountInv'
  BY <1>2 DEF TableInv, CountInv, Stored
<1>7. RowInv'
  <2>1. Stored' = Stored /\ \A id : OfThisRun(id)' = OfThisRun(id)
    BY <1>2 DEF OfThisRun, Stored
  <2>2. ASSUME NEW id \in 0 .. MaxMsgs, rows[id] # NoMsg
        PROVE  rows[id] <= sent' /\ Older(rows[id], queue')
    <3>1. rows[id] \in Nat /\ rows[id] <= sent /\ Older(rows[id], queue)
      BY <2>2, MostMessages DEF TableInv, RowInv, Types, WorldTypes, Msgs, NoMsg
    <3>2. Older(rows[id], queue')
      BY <1>1, <1>2, <1>3, <3>1, AppendKeeps, Lengths
    <3> QED
      BY <1>2, <3>1, <3>2, Lengths
  <2> QED
    BY <1>2, <2>1, <2>2 DEF TableInv, RowInv
<1> QED
  BY <1>5, <1>6, <1>7 DEF TableInv

LEMMA ReceiveTable == ASSUME Types, TableInv, Receive PROVE TableInv'
<1>1. queue # <<>> /\ queue \in Seq(Msgs)
  BY Lengths DEF Receive
<1>2. /\ queue' = Tail(queue) /\ got' = Append(got, Head(queue))
      /\ pc = "recv" /\ (pc' = "size" \/ pc' = "query")
      /\ UNCHANGED <<sent, event_count, kept, failed, rows>>
  BY DEF Receive
<1>3. /\ Len(queue') = Len(queue) - 1 /\ Head(queue) \in Msgs /\ 1 \in 1 .. Len(queue)
      /\ Head(queue) = queue[1]
      /\ \A j \in 1 .. Len(queue') : j + 1 \in 1 .. Len(queue) /\ queue'[j] = queue[j + 1]
      /\ Increasing(queue) => Increasing(queue') /\ Older(Head(queue), queue')
      /\ \A k : Older(k, queue) => Older(k, queue') /\ k < Head(queue)
  BY <1>1, <1>2, TailKeeps
<1>4. /\ Len(got') = Len(got) + 1 /\ got'[Len(got) + 1] = Head(queue)
      /\ \A i \in 1 .. Len(got) : got'[i] = got[i]
  BY <1>2, <1>3, Appended, Lengths
<1>5. OrderInv'
  <2>1. Newer(Head(queue), got) /\ Increasing(got) /\ got \in Seq(Msgs)
    BY <1>3, Lengths DEF TableInv, OrderInv, Newer
  <2>2. Increasing(got')
    BY <1>2, <1>3, <2>1, AppendKeeps
  <2>3. \A j \in 1 .. Len(queue') : queue'[j] <= sent
    BY <1>3 DEF TableInv, OrderInv
  <2>4. \A i \in 1 .. Len(got') : i \in 1 .. Len(got) \/ i = Len(got) + 1
    BY <1>4, Lengths
  <2>5. Head(queue) <= sent /\ Older(Head(queue), queue')
    BY <1>3 DEF TableInv, OrderInv
  <2>6. \A i \in 1 .. Len(got') : got'[i] <= sent /\ Older(got'[i], queue')
    BY <1>3, <1>4, <2>4, <2>5 DEF TableInv, OrderInv
  <2>7. Len(got') + Len(queue') <= sent
    BY <1>3, <1>4, Lengths DEF TableInv, OrderInv
  <2> QED
    BY <1>2, <1>3, <2>2, <2>3, <2>6, <2>7 DEF TableInv, OrderInv
<1>6. Stored' = Stored /\ Stored = Len(got) /\ event_count = Len(got)
  BY <1>2 DEF Stored, TableInv, CountInv
<1>7. CountInv'
  BY <1>2, <1>4, <1>6, Lengths DEF TableInv, CountInv
<1>8. RowInv'
  <2>1. \A id \in 0 .. Stored - 1 : got'[id + 1] = got[id + 1]
    BY <1>4, <1>6, Lengths
  <2>2. ASSUME NEW id \in 0 .. MaxMsgs, OfThisRun(id) PROVE OfThisRun(id)'
    <3>1. id \in 0 .. Stored - 1
      BY <1>6, <2>2, Lengths DEF OfThisRun
    <3> QED
      BY <1>2, <1>6, <2>1, <2>2, <3>1 DEF OfThisRun
  <2>3. ASSUME NEW id \in 0 .. MaxMsgs, rows[id] # NoMsg
        PROVE  /\ rows[id] <= sent /\ Older(rows[id], queue')
               /\ OfThisRun(id)' \/ Older(rows[id], got')
    <3>1. Older(rows[id], queue) /\ rows[id] <= sent
      BY <2>3 DEF TableInv, RowInv
    <3>2. Older(rows[id], queue') /\ rows[id] < Head(queue)
      BY <1>3, <3>1
    <3>3. rows[id] \in Nat
      BY MostMessages DEF Types, WorldTypes, Msgs, NoMsg
    <3>4. Older(rows[id], got) => Older(rows[id], got')
      BY <1>2, <1>3, <3>2, <3>3, AppendKeeps, Lengths
    <3> QED
      BY <2>2, <2>3, <3>1, <3>2, <3>4 DEF TableInv, RowInv
  <2> QED
    BY <1>2, <1>6, <2>1, <2>3 DEF TableInv, RowInv
<1> QED
  BY <1>5, <1>7, <1>8 DEF TableInv

\* There are no more ids than rows.
LEMMA FewIds ==
    ASSUME Types, TableInv
    PROVE  Len(got) <= MaxMsgs /\ (pc \in {"query", "insert"} => event_count <= MaxMsgs)
<1>1. sent <= MaxMsgs
  BY BoundFacts, MostMessages DEF Types, WorldTypes
<1>2. Len(got) <= MaxMsgs
  BY <1>1, Lengths DEF TableInv, OrderInv
<1> QED
  BY <1>2, Lengths DEF TableInv, CountInv

LEMMA BuildQueryStep ==
    ASSUME BuildQuery
    PROVE  /\ pc = "query" /\ event_count' = event_count + 1
           /\ (pc' = "insert" /\ buf \in kept) \/ (pc' = "echo" /\ buf \notin kept)
           /\ UNCHANGED <<buf, got, queue, sent, kept, rows, failed, load>>
<1>1. (pc' = "insert" /\ buf \in kept) \/ (pc' = "echo" /\ buf \notin kept)
  BY Zenon DEF BuildQuery
<1>2. pc = "query" /\ event_count' = event_count + 1
  BY DEF BuildQuery
<1>3. UNCHANGED <<buf, got, queue, sent, kept, rows, failed, load>>
  BY DEF BuildQuery, world, history
<1> QED
  BY <1>1, <1>2, <1>3

LEMMA BuildQueryTable == ASSUME Types, MessageInv, TableInv, BuildQuery PROVE TableInv'
<1>1. /\ pc = "query" /\ event_count' = event_count + 1
      /\ (pc' = "insert" /\ buf \in kept) \/ (pc' = "echo" /\ buf \notin kept)
      /\ UNCHANGED <<buf, got, queue, sent, kept, rows, failed>>
  BY BuildQueryStep
<1>2. /\ buf = got[Len(got)] /\ event_count = Len(got) - 1 /\ Stored = event_count
      /\ event_count \in Nat /\ Len(got) \in Nat
  BY <1>1, Lengths DEF MessageInv, InHand, TableInv, CountInv, Stored
<1>3. \/ pc' = "insert" /\ Stored' = Stored
      \/ pc' = "echo" /\ Stored' = Stored + 1 /\ got[Stored + 1] \notin kept
  BY <1>1, <1>2 DEF Stored
<1>4. OrderInv'
  BY <1>1 DEF TableInv, OrderInv
<1>5. CountInv'
  BY <1>1, <1>2, <1>3 DEF TableInv, CountInv
<1>6. RowInv'
  <2>1. ASSUME NEW id \in 0 .. MaxMsgs, OfThisRun(id) PROVE OfThisRun(id)'
    BY <1>1, <1>2, <1>3, <2>1 DEF OfThisRun
  <2>2. ASSUME NEW id \in 0 .. Stored' - 1, got[id + 1] \in kept, id \notin failed
        PROVE  rows[id] = got[id + 1]
    <3>1. id \in 0 .. Stored - 1
      BY <1>2, <1>3, <2>2
    <3> QED
      BY <2>2, <3>1 DEF TableInv, RowInv
  <2> QED
    BY <1>1, <2>1, <2>2 DEF TableInv, RowInv
<1> QED
  BY <1>4, <1>5, <1>6 DEF TableInv

LEMMA InsertTable == ASSUME Types, MessageInv, TableInv, ExecuteInsert PROVE TableInv'
<1>0. Len(got) > 0 /\ buf = got[Len(got)] /\ event_count = Len(got) /\ Len(got) \in Nat
  BY Lengths DEF ExecuteInsert, MessageInv, InHand, TableInv, CountInv
<1> PICK own \in Nat : event_count = own + 1 /\ own = event_count - 1
  <2>1. event_count - 1 \in Nat /\ event_count = (event_count - 1) + 1
    BY <1>0
  <2> QED
    BY <2>1
<1>1. /\ pc = "insert" /\ pc' = "echo"
      /\ UNCHANGED <<buf, got, queue, sent, kept, event_count>>
      /\ \/ rows' = [rows EXCEPT ![own] = buf] /\ failed' = failed
         \/ failed' = failed \union {own} /\ rows' = rows
  BY DEF ExecuteInsert
<1>2. /\ buf = got[own + 1] /\ Len(got) = own + 1 /\ own \in 0 .. MaxMsgs
      /\ Stored = own /\ Stored' = own + 1
  BY <1>0, <1>1, FewIds, Lengths DEF Stored
<1>3. buf \in kept /\ own \notin failed /\ failed \subseteq 0 .. own - 1
  BY <1>1, <1>2 DEF TableInv, CountInv
<1>4. OrderInv'
  BY <1>1 DEF TableInv, OrderInv
<1>5. CountInv'
  <2>1. event_count = Len(got)
    BY <1>2, Lengths
  <2>2. failed' \subseteq 0 .. Stored' - 1
    <3>1. own \in 0 .. own /\ 0 .. own - 1 \subseteq 0 .. own /\ Stored' - 1 = own
      BY <1>2
    <3> QED
      BY <1>1, <1>3, <3>1
  <2> QED
    BY <1>1, <2>1, <2>2 DEF CountInv
<1>6. rows \in [0 .. MaxMsgs -> Msgs \union {NoMsg}]
  BY DEF Types, WorldTypes
<1>7. ASSUME NEW id \in 0 .. MaxMsgs, id # own
      PROVE  rows'[id] = rows[id] /\ (id \in failed' <=> id \in failed)
  BY <1>1, <1>6, <1>7
<1>8. \/ rows'[own] = buf /\ own \notin failed'
      \/ rows'[own] = rows[own] /\ own \in failed'
  BY <1>1, <1>2, <1>3, <1>6
<1>9. RowInv'
  <2>1. ASSUME NEW id \in 0 .. MaxMsgs, rows'[id] # NoMsg
        PROVE  /\ rows'[id] <= sent /\ Older(rows'[id], queue)
               /\ OfThisRun(id)' \/ Older(rows'[id], got)
    <3>1. CASE id # own
      <4>1. rows[id] # NoMsg /\ rows'[id] = rows[id] /\ (id \in failed' <=> id \in failed)
        BY <1>7, <2>1, <3>1
      <4>2. OfThisRun(id) => OfThisRun(id)'
        BY <1>1, <1>2, <4>1 DEF OfThisRun
      <4> QED
        BY <4>1, <4>2 DEF TableInv, RowInv
    <3>2. CASE id = own /\ rows'[own] = rows[own] /\ own \in failed'
      <4>1. ~OfThisRun(own)
        BY <1>2 DEF OfThisRun
      <4> QED
        BY <1>2, <2>1, <3>2, <4>1 DEF TableInv, RowInv
    <3>3. CASE id = own /\ rows'[own] = buf /\ own \notin failed'
      <4>1. OfThisRun(own)'
        BY <1>1, <1>2, <1>3, <3>3 DEF OfThisRun
      <4>2. own + 1 \in 1 .. Len(got)
        BY <1>2, Lengths
      <4>3. buf <= sent /\ Older(buf, queue)
        BY <1>2, <4>2 DEF TableInv, OrderInv
      <4> QED
        BY <3>3, <4>1, <4>3
    <3> QED
      BY <1>8, <3>1, <3>2, <3>3
  <2>2. ASSUME NEW id \in 0 .. own, got[id + 1] \in kept, id \notin failed'
        PROVE  rows'[id] = got[id + 1]
    <3>1. CASE id = own
      BY <1>2, <1>8, <2>2, <3>1
    <3>2. CASE id # own
      <4>1. id \in 0 .. MaxMsgs /\ id \in 0 .. Stored - 1
        BY <1>2, <2>2, <3>2, MostMessages
      <4>2. rows'[id] = rows[id] /\ (id \in failed' <=> id \in failed)
        BY <1>7, <3>2, <4>1
      <4> QED
        BY <2>2, <4>1, <4>2 DEF TableInv, RowInv
    <3> QED
      BY <3>1, <3>2
  <2>3. 0 .. Stored' - 1 = 0 .. own
    BY <1>2
  <2> QED
    BY <1>1, <2>1, <2>2, <2>3 DEF RowInv
<1> QED
  BY <1>4, <1>5, <1>9 DEF TableInv

LEMMA StopTable == ASSUME Types, TableInv, Stop PROVE TableInv'
<1>1. /\ got' = <<>> /\ queue' = <<>> /\ Len(got') = 0 /\ Len(queue') = 0
      /\ failed' = {} /\ event_count' = 0 /\ pc' = "off" /\ UNCHANGED <<sent, rows>>
  BY EmptySeq DEF Stop
<1> QED
  BY <1>1, Lengths
     DEF TableInv, OrderInv, CountInv, RowInv, Increasing, Older, Stored

\* A step that neither moves a message nor ends its insert.
LEMMA QuietTable ==
    ASSUME TableInv,
           UNCHANGED <<got, queue, sent, kept, event_count, failed, rows>>,
           pc' \notin {"insert"}, pc \notin {"insert"},
           pc' \in {"size", "rotate", "reopen", "publish", "query"} <=>
                pc \in {"size", "rotate", "reopen", "publish", "query"}
    PROVE  TableInv'
<1>1. Stored' = Stored /\ \A id : OfThisRun(id)' = OfThisRun(id)
  BY DEF Stored, OfThisRun
<1> QED
  BY <1>1 DEF TableInv, OrderInv, CountInv, RowInv

LEMMA NextTable == Types /\ MessageInv /\ TableInv /\ [Next]_vars => TableInv'
<1> SUFFICES ASSUME Types, MessageInv, TableInv, [Next]_vars PROVE TableInv'
  OBVIOUS
<1>1. ASSUME UNCHANGED <<pc, buf, got, queue, sent, kept, event_count, failed, rows>>
      PROVE  TableInv'
  <2>1. Stored' = Stored /\ \A id : OfThisRun(id)' = OfThisRun(id)
    BY <1>1 DEF Stored, OfThisRun
  <2> QED
    BY <1>1, <2>1 DEF TableInv, OrderInv, CountInv, RowInv
<1>2. CASE UNCHANGED vars
  BY <1>1, <1>2 DEF vars, mainVars, history, world
<1>3. ASSUME NEW l \in Listeners, ListenerStep(l) PROVE TableInv'
  BY <1>1, <1>3
     DEF ListenerStep, Accept, Reply, Hangup, Unlink, TruncateClose, Truncate,
         TruncateOpen, TruncatePublish, mainVars, history, world
<1>4. CASE Start \/ StartListeners \/ SetupCassandra
  BY <1>4, QuietTable DEF Start, StartListeners, SetupCassandra, history, world
<1>5. CASE CheckSize \/ RotateClose \/ RotateOpen \/ RotatePublish
  BY <1>5, QuietTable
     DEF CheckSize, RotateClose, RotateOpen, RotatePublish, mainLocals, history, world
<1>6. CASE Echo
  BY <1>6, QuietTable DEF Echo, world
<1> QED
  BY <1>2, <1>3, <1>4, <1>5, <1>6, SendTable, ReceiveTable, BuildQueryTable, InsertTable,
     StopTable DEF Next, MainStep

THEOREM TableKept == Spec => [](Types /\ MessageInv /\ TableInv)
<1>1. Init => Types /\ MessageInv /\ TableInv
  BY InitTypes, InitMessage, InitTable
<1>2. Types /\ MessageInv /\ TableInv /\ [Next]_vars => (Types /\ MessageInv /\ TableInv)'
  BY NextTypes, NextMessage, NextTable
<1> QED
  BY <1>1, <1>2, PTL DEF Spec

\* Whichever INSERTs fail: under an id of this run the table holds the message of
\* that id if it was to be kept and its INSERT succeeded, and otherwise not that
\* message (but what an earlier life may have left there).
THEOREM TableIsInput == Spec => []RowsMatch
<1>1. Types /\ TableInv => RowsMatch
  <2> SUFFICES ASSUME Types, TableInv, pc = "recv", NEW id \in 0 .. event_count - 1
               PROVE  rows[id] = got[id + 1] <=> got[id + 1] \in kept /\ id \notin failed
    BY DEF RowsMatch
  <2>1. Stored = event_count /\ event_count = Len(got)
    BY DEF Stored, TableInv, CountInv
  <2>2. id \in 0 .. MaxMsgs /\ id \in 0 .. Stored - 1 /\ id + 1 \in 1 .. Len(got)
    BY <2>1, FewIds, Lengths
  <2>3. got[id + 1] \in Nat /\ got[id + 1] # NoMsg
    BY <2>2, Lengths
  <2>4. ASSUME rows[id] = got[id + 1] PROVE OfThisRun(id)
    BY <2>2, <2>3, <2>4 DEF TableInv, RowInv, Older
  <2> QED
    BY <2>2, <2>4 DEF OfThisRun, TableInv, RowInv
<1> QED
  BY <1>1, TableKept, PTL

-----------------------------------------------------------------------------
(* Descriptors and the log file.                                           *)

FileParts == Undisturbed /\ ConnInv /\ LogInv /\ SizeInv

\* Nobody rotates while somebody truncates.
LEMMA Apart ==
    ASSUME FileParts, pc \in {"rotate", "reopen", "publish"}
    PROVE  lpc["truncate"] \in {"off", "accept"} /\ ~Truncating
<1>1. load.redirected
  BY DEF FileParts, SizeInv
<1>2. load.requests = 0
  BY <1>1, Zenon DEF FileParts, Undisturbed
<1> QED
  BY <1>2 DEF FileParts, SizeInv, Truncating

\* Closing logfd closes the log and nothing else, and then there is none.
LEMMA CloseLog ==
    ASSUME Types, OnlyLog(logfd), CloseLogfd
    PROVE  /\ NoLog' /\ fds' \in [Fds -> Listeners \union {"log", "none"}]
           /\ \A f \in Fds, l \in Listeners : fds'[f] = l <=> fds[f] = l
BY DEF OnlyLog, NoLog, CloseLogfd, Closed, Types, FileTypes, Listeners

\* Without a log one descriptor is free: the listeners have one each.
LEMMA OneFree == ASSUME Types, ConnInv, NoLog PROVE LowestFree \in Fds
<1>1. \A f \in Fds : fds[f] \in {"none", "truncate", "recover"}
  BY DEF NoLog, Types, FileTypes, Listeners
<1>2. \A f, g \in Fds : fds[f] \in Listeners /\ fds[f] = fds[g] => f = g
  BY DEF ConnInv
<1>3. 0 \in Fds /\ 1 \in Fds /\ 2 \in Fds
  BY DEF Fds
<1>4. \E f \in Fds : fds[f] = "none"
  BY <1>1, <1>2, <1>3 DEF Listeners
<1> QED
  BY <1>4, Lowest

\* Opening it puts it on a descriptor that was free.
LEMMA OpenLog ==
    ASSUME Types, ConnInv, NoLog, NEW who \in {"main", "truncate"}, Open(who)
    PROVE  /\ OnlyLog(opened[who])' /\ size' = 0 /\ logfd' = logfd
           /\ \A f \in Fds, l \in Listeners : fds'[f] = l <=> fds[f] = l
<1>1. LowestFree \in Fds /\ fds[LowestFree] = "none"
  BY OneFree, Lowest
<1>2. /\ fds' = [fds EXCEPT ![LowestFree] = "log"] /\ size' = 0 /\ logfd' = logfd
      /\ opened' = [opened EXCEPT ![who] = LowestFree]
  BY <1>1 DEF Open
<1>3. opened'[who] = LowestFree
  BY <1>2 DEF Types, FileTypes
<1>4. \A f \in Fds : fds'[f] = IF f = LowestFree THEN "log" ELSE fds[f]
  BY <1>1, <1>2 DEF Types, FileTypes
<1> QED
  BY <1>1, <1>2, <1>3, <1>4 DEF OnlyLog, NoLog, Listeners

\* A step that touches no connection.
LEMMA QuietConn ==
    ASSUME ConnInv, UNCHANGED <<conn, unanswered>>,
           \A f \in Fds, l \in Listeners : fds'[f] = l <=> fds[f] = l,
           \A l \in Listeners : lpc[l] \in {"off", "accept"} <=> lpc'[l] \in {"off", "accept"},
           \A l \in Listeners : lpc'[l] = "off" <=> pc' \in {"off", "bound"},
           \A l \in Listeners : conn[l] \in Fds \union {NoFd}
    PROVE  ConnInv'
<1>1. ASSUME NEW l \in Listeners, conn[l] # NoFd PROVE fds'[conn[l]] = l
  BY <1>1 DEF ConnInv
<1> QED
  BY <1>1 DEF ConnInv

\* A step that moves no log.
LEMMA QuietLog ==
    ASSUME LogInv, UNCHANGED <<logfd, opened>>,
           pc \notin {"off", "bound"}, pc' \notin {"off", "bound"},
           \A f \in Fds : fds'[f] = "log" <=> fds[f] = "log",
           \/ lpc'["truncate"] = lpc["truncate"]
           \/ ~Truncating /\ ~Truncating',
           pc' = "reopen" <=> pc = "reopen", pc' = "publish" <=> pc = "publish"
    PROVE  LogInv'
BY DEF LogInv, OnlyLog, NoLog, Truncating, Rotating

LEMMA Sizes ==
    ASSUME Types
    PROVE  /\ size \in Nat /\ left \in Nat /\ left <= Parts /\ count \in Nat
           /\ Pending \in Nat /\ count * Parts \in Nat /\ Period * Parts \in Nat
           /\ (count + 1) * Parts = count * Parts + Parts
           /\ count < Period => (count + 1) * Parts <= Period * Parts
           /\ \A n \in Nat : (n + 1) * Parts = n * Parts + Parts
<1>1. /\ size \in Nat /\ left \in Nat /\ left <= Parts /\ count \in Nat /\ count <= Period
  BY Positive DEF Types, FileTypes, MainTypes
<1>2. \A n \in Nat : n * Parts \in Nat /\ (n + 1) * Parts = n * Parts + Parts
  BY Positive
<1>3. count < Period => (count + 1) * Parts <= Period * Parts
  <2>1. \A m, n \in Nat : m <= n => m * Parts <= n * Parts
    BY Positive
  <2> QED
    BY <1>1, <2>1, Positive
<1> QED
  BY <1>1, <1>2, <1>3, Positive DEF Pending

LEMMA InitFile == Init => ConnInv /\ LogInv /\ SizeInv
<1> SUFFICES ASSUME Init PROVE ConnInv /\ LogInv /\ SizeInv
  OBVIOUS
<1>1. Period * Parts \in Nat
  BY Positive
<1>2. NoFd \notin Fds
  BY DEF NoFd, Fds
<1> QED
  BY <1>1, <1>2, Positive
     DEF Init, ConnInv, LogInv, SizeInv, NoLog, OnlyLog, Truncating, Listeners

LEMMA StartFile ==
    ASSUME Types, FileParts, Start \/ StartListeners \/ SetupCassandra
    PROVE  (ConnInv /\ LogInv /\ SizeInv)'
<1> USE DEF FileParts
<1>1. CASE Start
  <2>1. pc = "off" /\ pc' = "bound" /\ UNCHANGED <<load, count, left, fileVars, listenVars>>
    BY <1>1 DEF Start
  <2>2. UNCHANGED <<size, fds, logfd, opened, lpc, conn, unanswered>>
    BY <2>1 DEF fileVars, listenVars
  <2>3. ConnInv'
    BY <2>1, <2>2 DEF ConnInv
  <2>4. LogInv'
    BY <2>1, <2>2 DEF ConnInv, LogInv, NoLog, OnlyLog, Truncating, Rotating, Listeners
  <2>5. SizeInv'
    BY <2>1, <2>2 DEF SizeInv
  <2> QED
    BY <2>3, <2>4, <2>5
<1>2. CASE StartListeners
  <2>1. \A f \in Fds : fds[f] = "none"
    BY <1>2 DEF StartListeners, LogInv
  <2>2. LowestFree \in Fds
    BY <2>1, OneFree DEF NoLog
  <2>3. /\ pc = "bound" /\ pc' = "setup" /\ logfd' = LowestFree /\ size' = 0
        /\ \A f \in Fds : fds'[f] = IF f = LowestFree THEN "log" ELSE "none"
        /\ lpc' = [l \in Listeners |-> "accept"] /\ UNCHANGED <<opened, conn, unanswered, load, count>>
    BY <1>2, <2>1 DEF StartListeners, Types, FileTypes, world
  <2>4. ConnInv'
    BY <2>1, <2>3 DEF ConnInv, Listeners
  <2>5. LogInv'
    BY <2>2, <2>3 DEF LogInv, OnlyLog, NoLog, Truncating, Rotating, Listeners
  <2>6. Pending' = 0 /\ (count' + 1) * Parts \in Nat /\ Period * Parts \in Nat
    BY <2>3, Sizes, Positive DEF Pending
  <2>7. SizeInv'
    BY <2>3, <2>6, Positive DEF SizeInv, Listeners
  <2> QED
    BY <2>4, <2>5, <2>7
<1>3. CASE SetupCassandra
  <2>1. pc = "setup" /\ pc' = "recv" /\ UNCHANGED <<load, count, left, fileVars, listenVars>>
    BY <1>3 DEF SetupCassandra, world
  <2>2. UNCHANGED <<size, fds, logfd, opened, lpc, conn, unanswered>>
    BY <2>1 DEF fileVars, listenVars
  <2>3. ConnInv'
    BY <2>1, <2>2 DEF ConnInv
  <2>4. LogInv'
    BY <2>1, <2>2, QuietLog
  <2>5. SizeInv'
    BY <2>1, <2>2 DEF SizeInv, Pending
  <2> QED
    BY <2>3, <2>4, <2>5
<1> QED
  BY <1>1, <1>2, <1>3

\* The steps of the main thread that only handle a message.
LEMMA MessageFile ==
    ASSUME Types, FileParts, Receive \/ BuildQuery \/ ExecuteInsert \/ Echo
    PROVE  (ConnInv /\ LogInv /\ SizeInv)'
<1> USE DEF FileParts
<1>1. /\ pc \in {"recv", "query", "insert", "echo"}
      /\ pc' \in {"recv", "size", "query", "insert", "echo"}
      /\ UNCHANGED <<logfd, fds, opened, listenVars, load>>
  <2>1. CASE Receive
    BY <2>1 DEF Receive, fileVars
  <2>2. CASE BuildQuery
    <3>1. pc = "query" /\ (pc' = "insert" \/ pc' = "echo") /\ load' = load
      BY <2>2, BuildQueryStep
    <3>2. UNCHANGED <<logfd, fds, opened, listenVars>>
      BY <2>2 DEF BuildQuery, fileVars
    <3> QED
      BY <3>1, <3>2
  <2>3. CASE ExecuteInsert
    BY <2>3 DEF ExecuteInsert, fileVars
  <2>4. CASE Echo
    BY <2>4 DEF Echo, world
  <2> QED
    BY <2>1, <2>2, <2>3, <2>4
<1>2. ConnInv'
  BY <1>1 DEF ConnInv, listenVars
<1>3. LogInv'
  BY <1>1, QuietLog DEF listenVars
<1>4. SizeInv'
  <2>1. /\ count < Period /\ (load.redirected \/ size = 0)
        /\ size + Pending <= MaxLogSize - 1 + (count + 1) * Parts
    BY <1>1 DEF SizeInv, Types, MainTypes
  <2>2. /\ ~load.redirected => size' = 0
        /\ size' <= MaxLogSize - 1 + Period * Parts
        /\ pc' \in {"setup", "recv", "query", "insert", "echo"} =>
               size' + Pending' <= MaxLogSize - 1 + (count' + 1) * Parts
    <3>1. CASE Receive
      <4>1. pc = "recv" /\ size' = size /\ count' = count + 1 /\ left' = Parts
        BY <3>1 DEF Receive, fileVars
      <4>2. Pending = 0 /\ Pending' <= Parts /\ Pending' \in Nat
        BY <4>1, Positive DEF Pending
      <4>3. (count' + 1) * Parts = (count + 1) * Parts + Parts
        BY <4>1, Sizes
      <4> QED
        BY <2>1, <4>1, <4>2, <4>3, Sizes, Positive
    <3>2. CASE BuildQuery \/ ExecuteInsert
      <4>1. (pc = "query" \/ pc = "insert") /\ (pc' = "insert" \/ pc' = "echo")
        <5>1. CASE BuildQuery
          BY <5>1, BuildQueryStep
        <5>2. CASE ExecuteInsert
          BY <5>2 DEF ExecuteInsert
        <5> QED
          BY <3>2, <5>1, <5>2
      <4>2. UNCHANGED <<size, count, left>>
        BY <3>2, Zenon DEF BuildQuery, ExecuteInsert, fileVars
      <4>3. Pending' = Pending
        BY <4>1, <4>2 DEF Pending
      <4> QED
        BY <2>1, <4>2, <4>3, Sizes, Positive
    <3>3. CASE Echo
      <4>1. PICK r \in 1 .. left :
               /\ left' = left - r
               /\ size' = IF load.redirected THEN size + r ELSE size
        BY <3>3 DEF Echo
      <4>2. /\ pc = "echo" /\ count' = count
            /\ (pc' = "echo" \/ (pc' = "recv" /\ ~(left' > 0)))
        BY <3>3 DEF Echo
      <4>3. Pending = left /\ Pending' = left - r /\ r \in Nat
        BY <4>1, <4>2, Sizes DEF Pending
      <4>4. size' + Pending' <= size + Pending /\ size' <= size + Pending /\ size' \in Nat
        BY <4>1, <4>3, Sizes
      <4>5. ~load.redirected => size' = 0
        BY <2>1, <4>1
      <4>6. (count + 1) * Parts \in Nat /\ (count + 1) * Parts <= Period * Parts
        BY <2>1, Sizes, Positive
      <4>7. /\ size' + Pending' <= MaxLogSize - 1 + (count' + 1) * Parts
            /\ size' <= MaxLogSize - 1 + Period * Parts
        BY <2>1, <4>2, <4>3, <4>4, <4>6, Sizes, Positive
      <4> QED
        BY <4>5, <4>7
    <3> QED
      BY <3>1, <3>2, <3>3
  <2> QED
    BY <1>1, <2>2 DEF SizeInv, listenVars
<1> QED
  BY <1>2, <1>3, <1>4

\* The size check and the rotation.
LEMMA RotateFile ==
    ASSUME Types, FileParts, CheckSize \/ RotateClose \/ RotateOpen \/ RotatePublish
    PROVE  (ConnInv /\ LogInv /\ SizeInv)'
<1> USE DEF FileParts
<1>1. UNCHANGED <<listenVars, load, left>>
  BY DEF CheckSize, RotateClose, RotateOpen, RotatePublish, mainLocals, world
<1>2. UNCHANGED <<lpc, conn, unanswered>>
  BY <1>1 DEF listenVars
<1>3. \A l \in Listeners : conn[l] \in Fds \union {NoFd}
  BY DEF Types, ListenTypes
<1>4. CASE CheckSize
  <2>1. /\ pc = "size" /\ UNCHANGED fileVars
        /\ \/ pc' = "rotate" /\ count' = count /\ LogSize >= MaxLogSize
           \/ pc' = "query" /\ count' = 0 /\ ~(LogSize >= MaxLogSize)
    BY <1>4 DEF CheckSize
  <2>2. UNCHANGED <<size, fds, logfd, opened>>
    BY <2>1 DEF fileVars
  <2>3. size < MaxLogSize \/ LogSize >= MaxLogSize
    <3>1. CASE load.redirected
      <4>1. load.requests = 0
        BY <3>1, Zenon DEF Undisturbed
      <4>2. ~Truncating /\ ~Rotating
        BY <2>1, <4>1 DEF SizeInv, Truncating, Rotating
      <4>3. LogSize = size
        BY <2>1, <4>2 DEF LogInv, OnlyLog, LogSize, IsLog
      <4> QED
        BY <4>3, Sizes, Positive
    <3>2. CASE ~load.redirected
      BY <3>2, Positive DEF SizeInv
    <3> QED
      BY <3>1, <3>2
  <2>4. pc' = "rotate" => load.redirected
    <3> SUFFICES ASSUME pc' = "rotate", size = 0 PROVE FALSE
      BY DEF SizeInv
    <3>1. LogSize >= MaxLogSize
      BY <2>1
    <3>2. LogSize = 0 \/ LogSize = -1
      BY DEF LogSize
    <3> QED
      BY <3>1, <3>2, Positive
  <2>5. ConnInv'
    BY <1>2, <2>1, <2>2 DEF ConnInv
  <2>6. LogInv'
    BY <1>2, <2>1, <2>2, QuietLog
  <2>7. Pending' <= Parts /\ Pending' \in Nat /\ (count' = 0 => (count' + 1) * Parts = Parts)
    BY <1>1, Sizes, Positive DEF Pending
  <2>8. SizeInv'
    BY <1>1, <1>2, <2>1, <2>2, <2>3, <2>4, <2>7, Sizes, Positive DEF SizeInv
  <2> QED
    BY <2>5, <2>6, <2>8
<1>5. ~(CheckSize) => pc \in {"rotate", "reopen", "publish"}
  BY DEF RotateClose, RotateOpen, RotatePublish
<1>6. CASE RotateClose
  <2>1. pc = "rotate" /\ pc' = "reopen" /\ CloseLogfd /\ size' = size /\ opened' = opened
    BY <1>6 DEF RotateClose, CloseLogfd
  <2>2. ~Truncating /\ ~Rotating
    BY <2>1, Apart DEF Rotating
  <2>3. OnlyLog(logfd)
    BY <2>1, <2>2 DEF LogInv
  <2>4. NoLog' /\ \A f \in Fds, l \in Listeners : fds'[f] = l <=> fds[f] = l
    BY <2>1, <2>3, CloseLog
  <2>5. ConnInv'
    BY <1>2, <1>3, <2>1, <2>4, QuietConn DEF ConnInv
  <2>6. LogInv'
    BY <1>2, <2>1, <2>2, <2>4 DEF LogInv, Truncating, Rotating
  <2>7. SizeInv'
    BY <1>1, <1>2, <2>1 DEF SizeInv
  <2> QED
    BY <2>5, <2>6, <2>7
<1>7. CASE RotateOpen
  <2>1. pc = "reopen" /\ pc' = "publish" /\ Open("main")
    BY <1>7 DEF RotateOpen
  <2>2. ~Truncating /\ NoLog
    BY <2>1, Apart DEF LogInv
  <2>3. /\ OnlyLog(opened["main"])' /\ size' = 0
        /\ \A f \in Fds, l \in Listeners : fds'[f] = l <=> fds[f] = l
    BY <2>1, <2>2, OpenLog
  <2>4. ConnInv'
    BY <1>2, <1>3, <2>1, <2>3, QuietConn DEF ConnInv
  <2>5. LogInv'
    BY <1>2, <2>1, <2>2, <2>3 DEF LogInv, Truncating, Rotating
  <2>6. load.redirected
    BY <2>1 DEF SizeInv
  <2>7. 0 <= MaxLogSize - 1 + Period * Parts
    BY Sizes, Positive
  <2>8. SizeInv'
    BY <1>1, <1>2, <2>1, <2>3, <2>6, <2>7 DEF SizeInv
  <2> QED
    BY <2>4, <2>5, <2>8
<1>8. CASE RotatePublish
  <2>1. /\ pc = "publish" /\ pc' = "query" /\ count' = 0
        /\ logfd' = opened["main"] /\ UNCHANGED <<fds, opened, size>>
    BY <1>8 DEF RotatePublish, Publish
  <2>2. ~Truncating /\ OnlyLog(opened["main"]) /\ size = 0
    BY <2>1, Apart DEF LogInv, SizeInv
  <2>3. ConnInv'
    BY <1>2, <1>3, <2>1, QuietConn DEF ConnInv
  <2>4. LogInv'
    BY <1>2, <2>1, <2>2 DEF LogInv, OnlyLog, Truncating, Rotating
  <2>5. Pending' <= Parts /\ Pending' \in Nat /\ (count' + 1) * Parts = Parts
    BY <1>1, <2>1, Sizes, Positive DEF Pending
  <2>6. /\ 0 <= MaxLogSize - 1 + Period * Parts
        /\ 0 + Pending' <= MaxLogSize - 1 + (count' + 1) * Parts
    BY <2>5, Sizes, Positive
  <2>7. load.redirected
    BY <2>1 DEF SizeInv
  <2>8. SizeInv'
    BY <1>1, <1>2, <2>1, <2>2, <2>6, <2>7 DEF SizeInv
  <2> QED
    BY <2>3, <2>4, <2>8
<1> QED
  BY <1>4, <1>6, <1>7, <1>8

LEMMA StopFile == ASSUME Types, FileParts, Stop PROVE (ConnInv /\ LogInv /\ SizeInv)'
<1>1. /\ pc' = "off" /\ size' = size /\ load' = load /\ unanswered' = unanswered
      /\ \A f \in Fds : fds'[f] = "none"
      /\ \A l \in Listeners : lpc'[l] = "off" /\ conn'[l] = NoFd
  BY DEF Stop
<1>2. ConnInv'
  BY <1>1 DEF FileParts, ConnInv, Listeners
<1>3. LogInv'
  BY <1>1 DEF LogInv, NoLog, Truncating, Rotating, Listeners
<1>4. SizeInv'
  BY <1>1 DEF FileParts, SizeInv, Listeners
<1> QED
  BY <1>2, <1>3, <1>4

\* A listener: its connection, ...
LEMMA ListenerConn ==
    ASSUME Types, FileParts, NEW l \in Listeners, Accept(l) \/ Reply(l) \/ Hangup(l)
    PROVE  (ConnInv /\ LogInv)'
<1> USE DEF FileParts
<1>1. /\ pc' = pc /\ UNCHANGED <<logfd, opened>>
      /\ lpc[l] \notin {"off", "truncate", "open", "publish"} /\ lpc[l] # "off"
      /\ lpc'[l] \notin {"off", "truncate", "open", "publish"}
      /\ \A k \in Listeners : k # l => lpc'[k] = lpc[k]
  BY DEF Accept, Reply, Hangup, Goto, mainVars, fileVars, Types, ListenTypes
<1>2. pc \notin {"off", "bound"}
  BY <1>1 DEF ConnInv
<1>3. ASSUME \A f \in Fds : fds'[f] = "log" <=> fds[f] = "log" PROVE LogInv'
  BY <1>1, <1>2, <1>3, QuietLog DEF Truncating, Listeners
<1>4. /\ fds \in [Fds -> Listeners \union {"log", "none"}] /\ NoFd \notin Fds
      /\ conn \in [Listeners -> Fds \union {NoFd}] /\ lpc \in [Listeners -> ListenLabels]
  BY DEF Types, FileTypes, ListenTypes, NoFd, Fds
<1>5. CASE Accept(l)
  <2>1. LowestFree \in Fds /\ fds[LowestFree] = "none"
    BY <1>5, Lowest DEF Accept
  <2>2. PICK free \in Fds : free = LowestFree
    BY <2>1
  <2>3. /\ fds' = [fds EXCEPT ![free] = l] /\ conn' = [conn EXCEPT ![l] = free]
        /\ lpc[l] = "accept" /\ lpc'[l] \in {"close", "unlink"} /\ unanswered' = unanswered
    BY <1>4, <1>5, <2>2 DEF Accept, Goto
  <2>4. /\ \A f \in Fds : fds'[f] = IF f = free THEN l ELSE fds[f]
        /\ \A k \in Listeners : conn'[k] = IF k = l THEN free ELSE conn[k]
    BY <1>4, <2>3
  <2>5. conn[l] = NoFd /\ fds[free] = "none"
    BY <2>1, <2>2, <2>3 DEF ConnInv
  <2>6. ConnInv'
    BY <1>1, <1>2, <1>4, <2>3, <2>4, <2>5 DEF ConnInv, Listeners
  <2>7. LogInv'
    BY <1>3, <2>4, <2>5 DEF Listeners
  <2> QED
    BY <2>6, <2>7
<1>6. CASE Reply(l)
  <2>1. lpc[l] = "reply" /\ lpc'[l] = "hangup" /\ UNCHANGED <<conn, fds>>
    BY <1>4, <1>6 DEF Reply, Goto, fileVars
  <2>2. conn[l] # NoFd /\ fds[conn[l]] = l
    BY <2>1 DEF ConnInv
  <2>3. unanswered' = unanswered
    BY <1>6, <2>2 DEF Reply
  <2>4. ConnInv'
    BY <1>1, <2>1, <2>3 DEF ConnInv
  <2>5. LogInv'
    BY <1>3, <2>1
  <2> QED
    BY <2>4, <2>5
<1>7. CASE Hangup(l)
  <2>1. /\ lpc[l] = "hangup" /\ lpc'[l] = "accept" /\ unanswered' = unanswered
        /\ fds' = Closed(conn[l]) /\ conn' = [conn EXCEPT ![l] = NoFd]
    BY <1>4, <1>7 DEF Hangup, Goto
  <2>2. conn[l] \in Fds /\ fds[conn[l]] = l /\ \A f \in Fds : fds[f] = l => f = conn[l]
    BY <1>4, <2>1 DEF ConnInv
  <2>3. /\ \A f \in Fds : fds'[f] = IF f = conn[l] THEN "none" ELSE fds[f]
        /\ \A k \in Listeners : conn'[k] = IF k = l THEN NoFd ELSE conn[k]
    BY <1>4, <2>1, <2>2 DEF Closed
  <2>4. ConnInv'
    <3>1. \A f \in Fds, k \in Listeners : fds'[f] = k <=> k # l /\ fds[f] = k
      BY <2>2, <2>3 DEF Listeners
    <3>2. ASSUME NEW k \in Listeners, k # l
          PROVE  /\ lpc'[k] = lpc[k] /\ conn'[k] = conn[k]
                 /\ conn[k] # NoFd => fds'[conn[k]] = k
      BY <1>1, <1>4, <2>3, <3>1, <3>2 DEF ConnInv
    <3>3. ASSUME NEW k \in Listeners, k # l
          PROVE  /\ lpc'[k] \in {"off", "accept"} <=> conn'[k] = NoFd
                 /\ conn'[k] # NoFd => fds'[conn'[k]] = k
                 /\ \A f \in Fds : fds'[f] = k => conn'[k] = f
                 /\ lpc'[k] = "off" <=> pc' \in {"off", "bound"}
      BY <1>1, <3>1, <3>2, <3>3 DEF ConnInv
    <3> QED
      BY <1>1, <1>2, <2>1, <2>3, <3>1, <3>3 DEF ConnInv
  <2>5. LogInv'
    BY <1>3, <2>2, <2>3 DEF Listeners
  <2> QED
    BY <2>4, <2>5
<1> QED
  BY <1>5, <1>6, <1>7

\* ... and the truncation.
LEMMA TruncateFile ==
    ASSUME Types, FileParts, TruncateClose \/ Truncate \/ TruncateOpen \/ TruncatePublish
    PROVE  (ConnInv /\ LogInv)'
<1> USE DEF FileParts
<1> "truncate" \in Listeners
  BY DEF Listeners
<1>1. /\ pc' = pc /\ lpc["truncate"] \in {"close", "truncate", "open", "publish"}
      /\ lpc'["truncate"] \in {"truncate", "open", "publish", "reply"}
      /\ \A k \in Listeners : k # "truncate" => lpc'[k] = lpc[k]
      /\ UNCHANGED <<conn, unanswered>>
  BY DEF TruncateClose, Truncate, TruncateOpen, TruncatePublish, Goto, mainVars, threadLocals,
         Types, ListenTypes
<1>2. pc \notin {"off", "bound"}
  BY <1>1 DEF ConnInv
<1>3. pc \notin {"rotate", "reopen", "publish"}
  BY <1>1, Apart
<1>4. ASSUME \A f \in Fds, l \in Listeners : fds'[f] = l <=> fds[f] = l PROVE ConnInv'
  <2>1. \A l \in Listeners : conn[l] \in Fds \union {NoFd}
    BY DEF Types, ListenTypes
  <2> QED
    BY <1>1, <1>2, <1>4, <2>1, QuietConn DEF ConnInv
<1>5. CASE TruncateClose
  <2>1. lpc["truncate"] = "close" /\ lpc'["truncate"] = "truncate" /\ CloseLogfd
    BY <1>5 DEF TruncateClose, Goto, Types, ListenTypes
  <2>2. OnlyLog(logfd)
    BY <1>2, <1>3, <2>1 DEF LogInv, Truncating, Rotating
  <2>3. NoLog' /\ \A f \in Fds, l \in Listeners : fds'[f] = l <=> fds[f] = l
    BY <2>1, <2>2, CloseLog
  <2> QED
    BY <1>1, <1>2, <1>3, <1>4, <2>1, <2>3 DEF LogInv, Truncating
<1>6. CASE Truncate
  <2>1. lpc["truncate"] = "truncate" /\ lpc'["truncate"] = "open" /\ fds' = fds
    BY <1>6 DEF Truncate, Goto, Types, ListenTypes
  <2>2. NoLog'
    BY <2>1 DEF LogInv, NoLog
  <2> QED
    BY <1>1, <1>2, <1>3, <1>4, <2>1, <2>2 DEF LogInv, Truncating
<1>7. CASE TruncateOpen
  <2>1. lpc["truncate"] = "open" /\ lpc'["truncate"] = "publish" /\ Open("truncate")
    BY <1>7 DEF TruncateOpen, Goto, Types, ListenTypes
  <2>2. NoLog
    BY <2>1 DEF LogInv
  <2>3. /\ OnlyLog(opened["truncate"])'
        /\ \A f \in Fds, l \in Listeners : fds'[f] = l <=> fds[f] = l
    BY <2>1, <2>2, OpenLog
  <2> QED
    BY <1>1, <1>2, <1>3, <1>4, <2>1, <2>3 DEF LogInv, Truncating
<1>8. CASE TruncatePublish
  <2>1. /\ lpc["truncate"] = "publish" /\ lpc'["truncate"] = "reply"
        /\ logfd' = opened["truncate"] /\ UNCHANGED <<fds, opened>>
    BY <1>8 DEF TruncatePublish, Publish, Goto, Types, ListenTypes
  <2>2. OnlyLog(opened["truncate"])
    BY <2>1 DEF LogInv
  <2> QED
    BY <1>1, <1>2, <1>3, <1>4, <2>1, <2>2 DEF LogInv, OnlyLog, Truncating, Rotating
<1> QED
  BY <1>5, <1>6, <1>7, <1>8

LEMMA ListenerFile ==
    ASSUME Types, FileParts, NEW l \in Listeners, ListenerStep(l)
    PROVE  (ConnInv /\ LogInv /\ SizeInv)'
<1> USE DEF FileParts
<1>1. UNCHANGED <<pc, left, count, load>> /\ (size' = size \/ size' = 0)
  <2>1. CASE TruncateOpen
    BY <2>1 DEF TruncateOpen, Open, mainVars, world
  <2>2. CASE ~TruncateOpen
    BY <2>2 DEF ListenerStep, Accept, Reply, Hangup, Unlink, TruncateClose, Truncate,
           TruncatePublish, CloseLogfd, Publish, mainVars, fileVars, world
  <2> QED
    BY <2>1, <2>2
<1>2. load.requests = 0 => lpc'["truncate"] \in {"off", "accept"}
  <2> SUFFICES ASSUME load.requests = 0 PROVE lpc'["truncate"] = lpc["truncate"]
    BY DEF SizeInv
  <2>1. lpc["truncate"] \in {"off", "accept"} /\ "truncate" \in Listeners
    BY DEF SizeInv, Listeners
  <2>2. ~Accept(l)
    BY DEF Accept, Types, ListenTypes
  <2>3. CASE l = "truncate"
    BY <2>1, <2>2, <2>3
       DEF ListenerStep, Reply, Hangup, TruncateClose, Truncate, TruncateOpen, TruncatePublish
  <2>4. CASE l # "truncate"
    BY <2>1, <2>2, <2>4
       DEF ListenerStep, Reply, Hangup, Unlink, Goto, Types, ListenTypes
  <2> QED
    BY <2>3, <2>4
<1>3. SizeInv'
  <2>1. Pending' = Pending
    BY <1>1 DEF Pending
  <2> QED
    BY <1>1, <1>2, <2>1, Sizes, Positive DEF SizeInv
<1>4. CASE Unlink
  <2>1. /\ UNCHANGED <<pc, logfd, fds, opened, conn, unanswered>>
        /\ lpc["recover"] = "unlink" /\ lpc'["recover"] = "reply"
        /\ lpc'["truncate"] = lpc["truncate"]
    BY <1>4 DEF Unlink, Goto, mainVars, fileVars, Types, ListenTypes, Listeners
  <2>2. ConnInv'
    BY <2>1 DEF ConnInv, Listeners
  <2>3. LogInv'
    BY <2>1 DEF LogInv, OnlyLog, NoLog, Truncating, Rotating
  <2> QED
    BY <1>3, <2>2, <2>3
<1> QED
  BY <1>3, <1>4, ListenerConn, TruncateFile DEF ListenerStep

LEMMA NextFile == Types /\ FileInv /\ [Next]_vars => FileInv'
<1> SUFFICES ASSUME Types, FileInv, [Next]_vars, Undisturbed'
             PROVE  (ConnInv /\ LogInv /\ SizeInv)'
  BY DEF FileInv
<1>1. load' = load
  BY DEF Next, MainStep, Send, Start, StartListeners, SetupCassandra, Receive, CheckSize,
     RotateClose, RotateOpen, RotatePublish, BuildQuery, ExecuteInsert, Echo, Stop,
     ListenerStep, Accept, Reply, Hangup, Unlink, TruncateClose, Truncate, TruncateOpen,
     TruncatePublish, world, vars
<1>2. FileParts
  BY <1>1 DEF FileInv, FileParts, Undisturbed
<1>3. CASE Send \/ UNCHANGED vars
  <2>1. UNCHANGED <<mainVars, fileVars, listenVars, load>>
    BY <1>3 DEF Send, vars, world
  <2>2. ConnInv'
    BY <1>2, <2>1 DEF FileParts, ConnInv, mainVars, fileVars, listenVars
  <2>3. LogInv'
    BY <1>2, <2>1 DEF FileParts, LogInv, OnlyLog, NoLog, Truncating, Rotating,
                      mainVars, fileVars, listenVars
  <2>4. SizeInv'
    BY <1>2, <2>1 DEF FileParts, SizeInv, Pending, mainVars, fileVars, listenVars
  <2> QED
    BY <2>2, <2>3, <2>4
<1> QED
  BY <1>2, <1>3, StartFile, MessageFile, RotateFile, StopFile, ListenerFile DEF Next, MainStep

THEOREM FileKept == Spec => [](Types /\ FileInv)
<1>1. Init => Types /\ FileInv
  BY InitTypes, InitFile DEF FileInv
<1>2. Types /\ FileInv /\ [Next]_vars => (Types /\ FileInv)'
  BY NextTypes, NextFile
<1> QED
  BY <1>1, <1>2, PTL DEF Spec

\* Without a redirected log there is no rotation: then the two listeners and the
\* main thread close and write only their own descriptors, whatever the order of
\* close(), truncate(), open() and accept().
THEOREM DescriptorsOwned == Spec => []ThreadsKeepApart
<1>1. Types /\ FileInv => ThreadsKeepApart
  <2> SUFFICES ASSUME Types, FileInv, ~load.redirected PROVE ThreadsKeepApart
    BY DEF ThreadsKeepApart
  <2>1. ConnInv /\ LogInv /\ SizeInv
    BY DEF FileInv, Undisturbed
  <2>2. lpc["truncate"] = "accept" => ~Truncating
    BY DEF Truncating
  <2>3. ~Rotating
    BY <2>1 DEF SizeInv, Rotating
  <2> QED
    BY <2>1, <2>2, <2>3 DEF ThreadsKeepApart, ConnInv, LogInv, OnlyLog, IsLog
<1> QED
  BY <1>1, FileKept, PTL

\* Every variable stays in its type; the ids stay below the number of messages,
\* and the log below MaxLogSize and what is written between two checks.
THEOREM TypesAndBound == Spec => []TypeOK
<1>1. Types /\ MessageInv /\ TableInv /\ FileInv => TypeOK
  <2> SUFFICES ASSUME Types, MessageInv, TableInv, FileInv PROVE TypeOK
    OBVIOUS
  <2>1. event_count \in 0 .. MaxMsgs
    <3>1. event_count <= Len(got)
      BY Lengths DEF TableInv, CountInv
    <3> QED
      BY <3>1, FewIds, Lengths
  <2>2. failed \subseteq 0 .. MaxMsgs
    <3>1. Stored <= event_count /\ Stored \in Int
      BY Lengths DEF Stored
    <3> QED
      BY <2>1, <3>1, Lengths DEF TableInv, CountInv
  <2>3. SizeBounded
    <3>1. Undisturbed => size <= MaxLogSize - 1 + Period * Parts
      BY DEF FileInv, SizeInv
    <3>2. MaxLogSize - 1 + Period * Parts = MaxLogSize + Period * Parts - 1
      BY Sizes, Positive
    <3> QED
      BY <3>1, <3>2 DEF SizeBounded, Undisturbed
  <2>4. check_logfile \in BOOLEAN /\ session \in BOOLEAN /\ preload \in BOOLEAN
    BY Zenon DEF Types, MainTypes, ListenTypes
  <2> QED
    BY <2>1, <2>2, <2>3, <2>4
       DEF TypeOK, Types, MainTypes, FileTypes, ListenTypes, WorldTypes, HistoryTypes
<1> QED
  BY <1>1, TableKept, FileKept, PTL
=============================================================================
