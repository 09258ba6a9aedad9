--------------------------- MODULE DebugLogProofs ---------------------------
(***************************************************************************)
(* Theorems about the debug-log client, for any number of threads and any  *)
(* size of the descriptor table: the mutex of the init section, the types, *)
(* and the one file of a log whose descriptors are left alone.  For        *)
(* processes with one printing thread, with the restrictions that each     *)
(* property states: where messages go, whose files the client touches, and *)
(* what the retry delivers.                                                *)
(***************************************************************************)
EXTENDS DebugLog, SequenceTheorems, FiniteSetTheorems, WellFoundedInduction, TLAPS

\* What the mutex needs to be inductive is only that pc is a function.
MutexInv == pc \in [Threads -> Labels] /\ LockHeld

\* Steps inside the section, and steps outside of it, leave the holder alone.
LEMMA StaysSame ==
    ASSUME MutexInv, NEW t \in Threads, NEW l \in Labels, Goto(t, l),
           UNCHANGED lock, pc[t] \in Section <=> l \in Section
    PROVE  MutexInv'
<1>1. pc' = [pc EXCEPT ![t] = l]
  BY DEF Goto
<1>2. pc' \in [Threads -> Labels]
  BY <1>1 DEF MutexInv
<1>3. \A u \in Threads : pc'[u] \in Section <=> pc[u] \in Section
  BY <1>1 DEF MutexInv
<1> QED
  BY <1>2, <1>3 DEF MutexInv, LockHeld

LEMMA LockKeepsMutex == ASSUME MutexInv, NEW t \in Threads, Lock(t) PROVE MutexInv'
<1>1. pc' = [pc EXCEPT ![t] = "locked"] /\ lock' = {t} /\ lock = {}
  BY DEF Lock, Goto
<1>2. \A u \in Threads : pc[u] \notin Section
  BY <1>1 DEF MutexInv, LockHeld
<1>3. "locked" \in Section /\ "locked" \in Labels
  BY DEF Section, Labels
<1>4. \A u \in Threads : pc'[u] \in Section <=> u = t
  BY <1>1, <1>2, <1>3 DEF MutexInv
<1>5. pc' \in [Threads -> Labels]
  BY <1>1, <1>3 DEF MutexInv
<1> QED
  BY <1>1, <1>4, <1>5 DEF MutexInv, LockHeld

LEMMA UnlockKeepsMutex == ASSUME MutexInv, NEW t \in Threads, Unlock(t) PROVE MutexInv'
<1>1. pc' = [pc EXCEPT ![t] = "check"] /\ lock' = lock \ {t} /\ pc[t] = "unlock"
  BY DEF Unlock, Goto
<1>2. "check" \notin Section /\ "check" \in Labels
  BY DEF Section, Labels
<1>3. \A u \in Threads : pc'[u] \in Section <=> pc[u] \in Section /\ u # t
  BY <1>1, <1>2 DEF MutexInv
<1>4. pc' \in [Threads -> Labels]
  BY <1>1, <1>2 DEF MutexInv
<1> QED
  BY <1>1, <1>3, <1>4 DEF MutexInv, LockHeld

\* Only Lock and Unlock enter and leave the section.
LEMMA InitFunctionsKeepMutex ==
    ASSUME MutexInv, NEW t \in Threads, Init_file_log(t)
    PROVE  MutexInv'
<1> USE DEF Section, Labels
<1>1. CASE Lock(t)
  BY <1>1, LockKeepsMutex
<1>2. CASE Recheck(t)
  BY <1>2, StaysSame DEF Recheck, shared
<1>3. CASE Create(t)
  BY <1>3, StaysSame DEF Create
<1>4. CASE Place(t)
  BY <1>4, StaysSame DEF Place
<1>5. CASE Move(t)
  BY <1>5, StaysSame DEF Move, Publish
<1>6. CASE CloseLog(t, "misplaced", "unlock")
  BY <1>6, StaysSame DEF CloseLog
<1>7. CASE CloseLog(t, "closeLow", "settle")
  BY <1>7, StaysSame DEF CloseLog
<1>8. CASE Settle(t)
  BY <1>8, StaysSame DEF Settle, Publish
<1>9. CASE CloseOnExec(t)
  BY <1>9, StaysSame DEF CloseOnExec, shared
<1>10. CASE Connect(t)
  BY <1>10, StaysSame DEF Connect
<1>11. CASE CloseLog(t, "drop", "disable")
  BY <1>11, StaysSame DEF CloseLog
<1>12. CASE Disable(t)
  BY <1>12, StaysSame DEF Disable, Publish
<1>13. CASE Unlock(t)
  BY <1>13, UnlockKeepsMutex
<1> QED
  BY <1>1, <1>2, <1>3, <1>4, <1>5, <1>6, <1>7, <1>8, <1>9, <1>10, <1>11, <1>12, <1>13
     DEF Init_file_log

LEMMA NextMutex == MutexInv /\ [Next]_vars => MutexInv'
<1> SUFFICES ASSUME MutexInv, [Next]_vars PROVE MutexInv'
  OBVIOUS
<1> USE DEF Section, Labels
<1>1. ASSUME NEW t \in Threads, Call(t) PROVE MutexInv'
  BY <1>1, StaysSame DEF Call, shared
<1>2. ASSUME NEW t \in Threads, Test(t) PROVE MutexInv'
  BY <1>2, StaysSame DEF Test, shared
<1>3. ASSUME NEW t \in Threads, Init_file_log(t) PROVE MutexInv'
  BY <1>3, InitFunctionsKeepMutex
<1>4. ASSUME NEW t \in Threads, Check(t) PROVE MutexInv'
  BY <1>4, StaysSame DEF Check, shared
<1>5. ASSUME NEW t \in Threads, Write(t) PROVE MutexInv'
  BY <1>5, StaysSame DEF Write, shared
<1>6. ASSUME NEW t \in Threads, Reset(t) PROVE MutexInv'
  BY <1>6, StaysSame DEF Reset
<1>7. ASSUME NEW t \in Threads, Reopen(t) PROVE MutexInv'
  BY <1>7, StaysSame DEF Reopen, Publish
<1>8. ASSUME NEW t \in Threads, Reinit(t) PROVE MutexInv'
  BY <1>8, StaysSame DEF Reinit, CloseLog
<1>9. CASE App \/ MediumFlips \/ UNCHANGED vars
  BY <1>9 DEF App, MediumFlips, vars, locals, MutexInv, LockHeld
<1> QED
  BY <1>1, <1>2, <1>3, <1>4, <1>5, <1>6, <1>7, <1>8, <1>9 DEF Next, Step

\* init_log_lock is held by exactly the one thread that is inside the init
\* functions, whatever the application, the server and the other threads do.
THEOREM MutualExclusion == Spec => []LockHeld
<1>1. Init => MutexInv
  BY DEF Init, MutexInv, LockHeld, Section, Labels
<1>2. MutexInv => LockHeld
  BY DEF MutexInv
<1> QED
  BY <1>1, <1>2, NextMutex, PTL DEF Spec

-----------------------------------------------------------------------------
(* Types.  The arithmetic of the descriptor table needs two facts: a set of *)
(* numbers has a least one, and there is always an unused log file.         *)

LEMMA MinIsMember == ASSUME NEW S \in SUBSET Nat, S # {} PROVE Min(S) \in S
<1> DEFINE R == {ss \in Nat \X Nat : ss[1] < ss[2]}
<1>1. IsWellFoundedOn(R, Nat)
  BY NatLessThanWellFounded DEF OpToRel
<1>2. \E x \in S : \A y \in S : ~ (<<y, x>> \in R)
  BY <1>1, WFMin
<1>3. \E x \in S : \A y \in S : x =< y
  <2>1. PICK x \in S : \A y \in S : ~ (<<y, x>> \in R)
    BY <1>2
  <2>2. ASSUME NEW y \in S PROVE x =< y
    <3>1. <<y, x>> \in Nat \X Nat /\ ~ (<<y, x>> \in R)
      BY <2>1
    <3>2. ~ (y < x)
      BY <3>1
    <3> QED
      BY <3>2
  <2> QED
    BY <2>2
<1> QED
  BY <1>3 DEF Min

LEMMA LowestFreeType == ASSUME TypeOK PROVE LowestFree \in Fds \union {-1}
<1>1. FreeFds \subseteq Fds /\ Fds \subseteq Nat
  BY TopAssumption DEF FreeFds, Fds, Default
<1>2. FreeFds # {} => Min(FreeFds) \in FreeFds
  BY <1>1, MinIsMember
<1> QED
  BY <1>1, <1>2 DEF LowestFree

\* There are more names for log files than descriptors.
LEMMA NewFileType == ASSUME TypeOK PROVE NewFile \in LogFiles
<1>1. fds \in Surjection(Fds, Used)
  BY DEF TypeOK, Used, Surjection
<1>2. IsFiniteSet(Fds) /\ Cardinality(Fds) = Top - 1
  BY FS_Interval, TopAssumption DEF Fds, Default
<1>3. IsFiniteSet(Used) /\ Cardinality(Used) <= Top - 1
  BY <1>1, <1>2, FS_Surjection
<1>4. IsFiniteSet(LogFiles) /\ Cardinality(LogFiles) = Top
  BY FS_Interval, TopAssumption DEF LogFiles
<1>5. ~(LogFiles \subseteq Used)
  <2>1. LogFiles \in SUBSET Used => Cardinality(LogFiles) <= Cardinality(Used)
    BY <1>3, FS_Subset
  <2>2. Cardinality(Used) \in Nat
    BY <1>3, FS_CardinalityType
  <2> QED
    BY <1>3, <1>4, <2>1, <2>2, TopAssumption
<1>6. LogFiles \ Used # {} /\ LogFiles \ Used \subseteq Nat
  BY <1>5, TopAssumption DEF LogFiles
<1>7. Min(LogFiles \ Used) \in LogFiles \ Used
  BY <1>6, MinIsMember
<1> QED
  BY <1>7 DEF NewFile

\* A thread retries after its first error only.
TypeInv == TypeOK /\ \A t \in Threads : pc[t] = "reset" => err[t] = 0

\* The descriptor tables there are.
Table == [Fds -> {Nothing, AppFile} \union LogFiles]

LEMMA DefaultIsFd == Default \in Fds
BY TopAssumption DEF Default, Fds

\* Parts of TypeOK that many actions leave alone.
EnvType == process \in Processes /\ medium \in Media /\ toUse \in Places /\ up \in BOOLEAN
             /\ out \in [Threads -> Seq({"app", "log"})] /\ calm \in [Threads -> BOOLEAN]

\* A step of t to a label other than "reset" that changes no history keeps the
\* types when what it assigns to the shared variables and spare is in range.
LEMMA StepKeepsType ==
    ASSUME TypeInv, NEW t \in Threads, NEW l \in Labels \ {"reset"}, Goto(t, l),
           UNCHANGED <<env, err>>,
           fd' \in Fds \union {-1}, fds' \in Table, joined' \subseteq LogFiles,
           lock' \subseteq Threads, spare' \in [Threads -> Fds \union {-1}]
    PROVE  TypeInv'
<1>1. pc' = [pc EXCEPT ![t] = l] /\ pc \in [Threads -> Labels]
  BY DEF Goto, TypeInv, TypeOK
<1>2. pc' \in [Threads -> Labels]
  BY <1>1
<1>3. \A u \in Threads : pc'[u] = "reset" => pc[u] = "reset"
  BY <1>1
<1>4. EnvType' /\ err' = err /\ err \in [Threads -> 0 .. 1]
  BY DEF EnvType, env, TypeInv, TypeOK
<1>5. \A u \in Threads : pc'[u] = "reset" => err'[u] = 0
  BY <1>3, <1>4 DEF TypeInv
<1>6. Places' = Places
  BY DEF Places
<1> QED
  BY <1>2, <1>4, <1>5, <1>6 DEF TypeInv, TypeOK, EnvType, Table

\* close() and the files it ends.
LEMMA ClosedType ==
    ASSUME TypeInv, NEW f
    PROVE  Closed(f) \in Table
BY DEF TypeInv, TypeOK, Closed, IsOpen, Table

LEMMA LiveType ==
    ASSUME TypeInv, NEW table
    PROVE  Live(table, joined) \subseteq LogFiles
BY DEF TypeInv, TypeOK, Live

LEMMA CloseLogKeepsType ==
    ASSUME TypeInv, NEW t \in Threads, NEW from, NEW to \in Labels \ {"reset"},
           CloseLog(t, from, to)
    PROVE  TypeInv'
<1>1. fds' \in Table
  BY ClosedType DEF CloseLog
<1>2. joined' \subseteq LogFiles
  BY LiveType DEF CloseLog
<1>3. fd' \in Fds \union {-1} /\ lock' \subseteq Threads /\ spare' \in [Threads -> Fds \union {-1}]
  BY DEF CloseLog, TypeInv, TypeOK
<1> QED
  BY <1>1, <1>2, <1>3, StepKeepsType DEF CloseLog

LEMMA PublishKeepsType ==
    ASSUME TypeInv, NEW t \in Threads, NEW from, NEW n \in Fds \union {-1},
           NEW to \in Labels \ {"reset"}, Publish(t, from, n, to)
    PROVE  TypeInv'
<1>1. /\ fds' \in Table /\ joined' \subseteq LogFiles /\ lock' \subseteq Threads
      /\ spare' \in [Threads -> Fds \union {-1}] /\ fd' \in Fds \union {-1}
  BY DEF Publish, TypeInv, TypeOK, Table
<1> QED
  BY <1>1, StepKeepsType DEF Publish

LEMMA CreateKeepsType == ASSUME TypeInv, NEW t \in Threads, Create(t) PROVE TypeInv'
<1>1. LowestFree \in Fds \union {-1} /\ NewFile \in LogFiles
  BY LowestFreeType, NewFileType DEF TypeInv
<1>2. lock' \subseteq Threads /\ spare' \in [Threads -> Fds \union {-1}]
  BY DEF Create, TypeInv, TypeOK
<1>3. fd' \in Fds \union {-1} /\ fds' \in Table /\ joined' \subseteq LogFiles
  BY <1>1 DEF Create, Opens, TypeInv, TypeOK, Table
<1>4. Goto(t, "place") \/ Goto(t, "unlock")
  BY DEF Create
<1>5. {"place", "unlock"} \subseteq Labels \ {"reset"} /\ UNCHANGED <<env, err>>
  BY DEF Labels, Create
<1> QED
  BY <1>2, <1>3, <1>4, <1>5, StepKeepsType

LEMMA PlaceKeepsType == ASSUME TypeInv, NEW t \in Threads, Place(t) PROVE TypeInv'
<1>1. LowestFree \in Fds \union {-1}
  BY LowestFreeType DEF TypeInv
<1>2. lock' \subseteq Threads /\ fd' \in Fds \union {-1} /\ UNCHANGED <<env, err>>
  BY DEF Place, TypeInv, TypeOK
<1>3. joined' \subseteq LogFiles
  BY LiveType DEF Place, TypeInv, TypeOK
<1>4. fds' \in Table
  <2>1. IsOpen(fd) => fds[fd] \in {Nothing, AppFile} \union LogFiles
    BY DEF IsOpen, TypeInv, TypeOK
  <2> QED
    BY <2>1, <1>1 DEF Place, TypeInv, TypeOK, Table
<1>5. spare' \in [Threads -> Fds \union {-1}]
  BY <1>1 DEF Place, TypeInv, TypeOK
<1>6. Goto(t, "moved") \/ Goto(t, "misplaced") \/ Goto(t, "closeLow") \/ Goto(t, "cloexec")
  BY DEF Place
<1>7. {"moved", "misplaced", "closeLow", "cloexec"} \subseteq Labels \ {"reset"}
  BY DEF Labels
<1> QED
  BY <1>2, <1>3, <1>4, <1>5, <1>6, <1>7, StepKeepsType

\* Steps that assign nothing but pc, and perhaps the lock.
LEMMA QuietKeepsType ==
    ASSUME TypeInv, NEW t \in Threads, NEW l \in Labels \ {"reset"}, Goto(t, l),
           UNCHANGED <<env, fd, fds, joined, err, spare>>, lock' \subseteq Threads
    PROVE  TypeInv'
<1>1. /\ fd' \in Fds \union {-1} /\ fds' \in Table /\ joined' \subseteq LogFiles
      /\ spare' \in [Threads -> Fds \union {-1}]
  BY DEF TypeInv, TypeOK, Table
<1> QED
  BY <1>1, StepKeepsType

LEMMA InitFunctionsKeepType ==
    ASSUME TypeInv, NEW t \in Threads, Init_file_log(t)
    PROVE  TypeInv'
<1>1. lock \subseteq Threads /\ toUse \in Fds \union {-1} /\ spare[t] \in Fds \union {-1}
  BY TopAssumption DEF TypeInv, TypeOK, Places, Fds, Default
<1>2. -1 \in Fds \union {-1}
  OBVIOUS
<1>3. CASE Lock(t)
  BY <1>3, QuietKeepsType DEF Lock, Labels
<1>4. CASE Recheck(t)
  BY <1>1, <1>4, QuietKeepsType DEF Recheck, Labels, shared
<1>5. CASE Create(t)
  BY <1>5, CreateKeepsType
<1>6. CASE Place(t)
  BY <1>6, PlaceKeepsType
<1>7. CASE Move(t)
  BY <1>1, <1>7, PublishKeepsType DEF Move, Labels
<1>8. CASE CloseLog(t, "misplaced", "unlock")
  BY <1>8, CloseLogKeepsType DEF Labels
<1>9. CASE CloseLog(t, "closeLow", "settle")
  BY <1>9, CloseLogKeepsType DEF Labels
<1>10. CASE Settle(t)
  BY <1>1, <1>10, PublishKeepsType DEF Settle, Labels
<1>11. CASE CloseOnExec(t)
  BY <1>1, <1>11, QuietKeepsType DEF CloseOnExec, Labels, shared
<1>12. CASE Connect(t)
  <2>1. joined' \subseteq LogFiles
    BY <1>12 DEF Connect, Connects, TypeInv, TypeOK
  <2>2. /\ fd' \in Fds \union {-1} /\ fds' \in Table /\ lock' \subseteq Threads
        /\ spare' \in [Threads -> Fds \union {-1}] /\ UNCHANGED <<env, err>>
    BY <1>12 DEF Connect, TypeInv, TypeOK, Table
  <2>3. Goto(t, "unlock") \/ Goto(t, "drop")
    BY <1>12 DEF Connect
  <2> QED
    BY <2>1, <2>2, <2>3, StepKeepsType DEF Labels
<1>13. CASE CloseLog(t, "drop", "disable")
  BY <1>13, CloseLogKeepsType DEF Labels
<1>14. CASE Disable(t)
  BY <1>2, <1>14, PublishKeepsType DEF Disable, Labels
<1>15. CASE Unlock(t)
  BY <1>1, <1>15, QuietKeepsType DEF Unlock, Labels
<1> QED
  BY <1>3, <1>4, <1>5, <1>6, <1>7, <1>8, <1>9, <1>10, <1>11, <1>12, <1>13, <1>14, <1>15
     DEF Init_file_log

LEMMA CallKeepsType == ASSUME TypeInv, NEW t \in Threads, Call(t) PROVE TypeInv'
<1>1. pc' \in [Threads -> Labels] /\ err' \in [Threads -> 0 .. 1]
  BY DEF Call, Goto, Labels, TypeInv, TypeOK
<1>2. \A u \in Threads : pc'[u] = "reset" => err'[u] = 0
  BY DEF Call, Goto, Labels, TypeInv, TypeOK
<1>3. << >> \in Seq({"app", "log"})
  BY EmptySeq
<1>4. out' \in [Threads -> Seq({"app", "log"})] /\ calm' \in [Threads -> BOOLEAN]
  <2>1. (up /\ fd # -1) \in BOOLEAN
    OBVIOUS
  <2> QED
    BY <1>3, <2>1 DEF Call, TypeInv, TypeOK
<1> QED
  BY <1>1, <1>2, <1>4 DEF Call, shared, TypeInv, TypeOK, Places

LEMMA WriteKeepsType == ASSUME TypeInv, NEW t \in Threads, Write(t) PROVE TypeInv'
<1>1. out[t] \in Seq({"app", "log"}) /\ err[t] \in 0 .. 1
  BY DEF TypeInv, TypeOK
<1>2. out' \in [Threads -> Seq({"app", "log"})]
  <2>1. Append(out[t], "app") \in Seq({"app", "log"}) /\ Append(out[t], "log") \in Seq({"app", "log"})
    BY <1>1, AppendProperties
  <2> QED
    BY <2>1 DEF Write, TypeInv, TypeOK
<1>3. pc' \in [Threads -> Labels]
  BY DEF Write, Goto, Labels, TypeInv, TypeOK
<1>4. \A u \in Threads : pc'[u] = "reset" => err'[u] = 0
  BY <1>1 DEF Write, Goto, TypeInv, TypeOK
<1> QED
  BY <1>2, <1>3, <1>4 DEF Write, shared, TypeInv, TypeOK, Places

LEMMA ResetKeepsType == ASSUME TypeInv, NEW t \in Threads, Reset(t) PROVE TypeInv'
<1>1. err[t] = 0 /\ err' = [err EXCEPT ![t] = @ + 1]
  BY DEF Reset, TypeInv
<1>2. err' \in [Threads -> 0 .. 1]
  BY <1>1 DEF TypeInv, TypeOK
<1>3. pc' \in [Threads -> Labels]
  BY DEF Reset, Goto, Labels, TypeInv, TypeOK
<1>4. \A u \in Threads : pc'[u] = "reset" => err'[u] = 0
  BY DEF Reset, Goto, TypeInv, TypeOK
<1> QED
  BY <1>2, <1>3, <1>4, DefaultIsFd DEF Reset, env, TypeInv, TypeOK, Places

\* The rest of the process and the server change no local state of a thread.
LEMMA WorldKeepsType == ASSUME TypeInv, App \/ MediumFlips PROVE TypeInv'
<1>1. CASE App
  <2>1. LowestFree \in Fds \union {-1}
    BY LowestFreeType DEF TypeInv
  <2>2. fds' \in Table
    BY <1>1, <2>1 DEF App, AppOpen, AppCloseAll, TypeInv, TypeOK, Table
  <2>3. joined' \subseteq LogFiles
    BY <1>1, LiveType DEF App, AppOpen, AppCloseAll, TypeInv, TypeOK
  <2> QED
    BY <1>1, <2>2, <2>3 DEF App, locals, TypeInv, TypeOK, Places, Table
<1>2. CASE MediumFlips
  <2>1. up' \in BOOLEAN /\ joined' \subseteq LogFiles
    BY <1>2 DEF MediumFlips, TypeInv, TypeOK
  <2>2. calm' \in [Threads -> BOOLEAN]
    <3>1. \A u \in Threads : (calm[u] /\ up') \in BOOLEAN
      OBVIOUS
    <3> QED
      BY <1>2, <3>1 DEF MediumFlips
  <2> QED
    BY <1>2, <2>1, <2>2 DEF MediumFlips, locals, TypeInv, TypeOK, Places
<1> QED
  BY <1>1, <1>2

LEMMA NextType == TypeInv /\ [Next]_vars => TypeInv'
<1> SUFFICES ASSUME TypeInv, [Next]_vars PROVE TypeInv'
  OBVIOUS
<1>1. lock \subseteq Threads /\ Default \in Fds \union {-1}
  BY DefaultIsFd DEF TypeInv, TypeOK
<1>2. ASSUME NEW t \in Threads, Call(t) PROVE TypeInv'
  BY <1>2, CallKeepsType
<1>3. ASSUME NEW t \in Threads, Test(t) PROVE TypeInv'
  BY <1>1, <1>3, QuietKeepsType DEF Test, shared, Labels
<1>4. ASSUME NEW t \in Threads, Init_file_log(t) PROVE TypeInv'
  BY <1>4, InitFunctionsKeepType
<1>5. ASSUME NEW t \in Threads, Check(t) PROVE TypeInv'
  BY <1>1, <1>5, QuietKeepsType DEF Check, shared, Labels
<1>6. ASSUME NEW t \in Threads, Write(t) PROVE TypeInv'
  BY <1>6, WriteKeepsType
<1>7. ASSUME NEW t \in Threads, Reset(t) PROVE TypeInv'
  BY <1>7, ResetKeepsType
<1>8. ASSUME NEW t \in Threads, Reopen(t) PROVE TypeInv'
  BY <1>1, <1>8, PublishKeepsType DEF Reopen, Labels
<1>9. ASSUME NEW t \in Threads, Reinit(t) PROVE TypeInv'
  BY <1>9, CloseLogKeepsType DEF Reinit, Labels
<1>10. CASE App \/ MediumFlips
  BY <1>10, WorldKeepsType
<1>11. CASE UNCHANGED vars
  BY <1>11 DEF vars, TypeInv, TypeOK, Places
<1> QED
  BY <1>2, <1>3, <1>4, <1>5, <1>6, <1>7, <1>8, <1>9, <1>10, <1>11 DEF Next, Step

LEMMA InitType == Init => TypeInv
<1> SUFFICES ASSUME Init PROVE TypeInv
  OBVIOUS
<1>1. fds \in [Fds -> {Nothing, AppFile} \union LogFiles] /\ fd \in Fds \union {-1}
  BY DefaultIsFd DEF Init
<1>2. /\ out \in [Threads -> Seq({"app", "log"})] /\ pc \in [Threads -> Labels]
      /\ spare \in [Threads -> Fds \union {-1}] /\ err \in [Threads -> 0 .. 1]
  BY EmptySeq DEF Init, Labels
<1>3. process \in Processes /\ medium \in Media /\ toUse \in Places
  BY ProcessesAssumption DEF Init, FoundFd, Places
<1> QED
  BY <1>1, <1>2, <1>3 DEF Init, TypeInv, TypeOK

\* The descriptor, the table and the error counter of every thread stay in
\* range: in particular a message is retried at most once, and a name for the
\* log's next open file never runs out.
THEOREM TypeCorrect == Spec => []TypeOK
<1>1. TypeInv => TypeOK
  BY DEF TypeInv
<1> QED
  BY <1>1, InitType, NextType, PTL DEF Spec

-----------------------------------------------------------------------------
(* Where the log is, in a process with one printing thread.  At every label *)
(* the thread knows what the descriptor refers to, until it is out of the   *)
(* init section: then only a number of its own keeps the log from taking a  *)
(* file of the application for its own.                                     *)

\* A number that the log may have been given.
Home(f) == f # Default /\ (toUse >= 0 => f = Top)

WhereLog(t) ==
    /\ pc[t] \in {"idle", "test"} => fd \in {Default, -1} \/ Home(fd)
    /\ pc[t] \in {"lock", "locked", "create"} => fd = Default
    /\ pc[t] = "place" => IsOpen(fd) /\ fds[fd] \in LogFiles
    /\ pc[t] = "moved" => toUse = Top /\ fds[Top] \in LogFiles
    /\ pc[t] \in {"closeLow", "settle"} =>
          /\ ~(toUse >= 0) /\ fd = Default
          /\ spare[t] # -1 => spare[t] \in Fds \ {Default} /\ fds[spare[t]] \in LogFiles
    /\ pc[t] = "closeLow" => fds[fd] \in LogFiles
    /\ pc[t] \in {"cloexec", "connect", "drop"} => fd \in Fds /\ Home(fd) /\ fds[fd] \in LogFiles
    /\ pc[t] = "write" => fd \in Fds /\ Home(fd)
    /\ pc[t] \in {"unlock", "check"} => fd = -1 \/ Home(fd)
    /\ pc[t] # "misplaced"

OnStderr(t) == fd = Default /\ pc[t] \in {"idle", "write", "reset"}

PlaceInv ==
    /\ toUse >= 0 => fds[Top] # AppFile
    /\ ~process.appActs => \A f \in Fds : fds[f] = AppFile => f = Default
    /\ \A t \in process.threads : /\ medium = "stderr" => OnStderr(t)
                                  /\ medium # "stderr" => WhereLog(t)

LEMMA PresentThreads == ASSUME TypeInv PROVE process.threads \subseteq Threads
BY DEF TypeInv, TypeOK, Threads

LEMMA Numbers == /\ Top \in Fds /\ Top # Default /\ Top # -1 /\ Default # -1 /\ -1 \notin Fds
                 /\ Fds \subseteq Nat
                 /\ Nothing \notin LogFiles /\ AppFile \notin LogFiles /\ AppFile # Nothing
BY TopAssumption DEF Fds, Default, LogFiles, Nothing, AppFile

LEMMA Placement == ASSUME TypeInv PROVE toUse >= 0 <=> toUse = Top
BY TopAssumption DEF TypeInv, TypeOK, Places

LEMMA LowestFreeIsFree ==
    ASSUME TypeInv
    PROVE  /\ LowestFree # -1 => LowestFree \in Fds /\ fds[LowestFree] = Nothing
           /\ LowestFree = -1 <=> FreeFds = {}
<1>1. FreeFds \subseteq Fds /\ FreeFds \subseteq Nat
  BY Numbers DEF FreeFds
<1>2. FreeFds # {} => Min(FreeFds) \in FreeFds
  BY <1>1, MinIsMember
<1> QED
  BY <1>1, <1>2 DEF LowestFree, FreeFds

LEMMA InitFunctionsKeepPlace ==
    ASSUME OneThread, TypeInv, PlaceInv, NEW t \in process.threads, Init_file_log(t)
    PROVE  PlaceInv'
<1>1. UNCHANGED <<process, medium, toUse>>
  BY DEF Init_file_log, Lock, Recheck, Create, Place, Move, CloseLog, Settle, CloseOnExec,
         Connect, Disable, Unlock, Publish, env
<1>2. pc[t] \notin {"idle", "write", "reset"}
  BY DEF Init_file_log, Lock, Recheck, Create, Place, Move, CloseLog, Settle, CloseOnExec,
         Connect, Disable, Unlock, Publish
<1>3. /\ toUse >= 0 => toUse = Top /\ fds[Top] # AppFile
      /\ WhereLog(t) /\ medium # "stderr"
  BY <1>2, Placement DEF PlaceInv, OnStderr
<1>4. SUFFICES /\ toUse >= 0 => fds'[Top] # AppFile
               /\ \A f \in Fds : fds'[f] = AppFile => fds[f] = AppFile
               /\ WhereLog(t)'
  BY <1>1, <1>3 DEF OneThread, PlaceInv
<1>5. /\ pc \in [Threads -> Labels] /\ fds \in Table /\ t \in Threads
      /\ spare \in [Threads -> Fds \union {-1}] /\ toUse \in {-1, Top}
  BY PresentThreads DEF TypeInv, TypeOK, Table, Places
<1> USE <1>1, <1>3, <1>5, Numbers DEF Home
<1>6. CASE Lock(t)
  BY <1>6 DEF Lock, Goto, WhereLog
<1>7. CASE Recheck(t)
  BY <1>7 DEF Recheck, Goto, WhereLog, shared
<1>8. CASE Create(t)
  <2>1. LowestFree # -1 => LowestFree \in Fds /\ fds[LowestFree] = Nothing
    BY LowestFreeIsFree
  <2>2. NewFile \in LogFiles
    BY NewFileType DEF TypeInv
  <2> QED
    BY <1>8, <2>1, <2>2 DEF Create, Goto, WhereLog, Opens, IsOpen, Table
<1>9. CASE Place(t)
  <2>1. fd \in Fds /\ IsOpen(fd) /\ fds[fd] \in LogFiles
    BY <1>9 DEF Place, WhereLog, IsOpen
  <2>2. CASE toUse >= 0
    BY <1>9, <2>1, <2>2, TopAssumption DEF Place, Goto, WhereLog, Table
  <2>3. CASE ~(toUse >= 0) /\ fd = Default
    <3>1. LowestFree # -1 => LowestFree \in Fds \ {Default}
      BY <2>1, <2>3, LowestFreeIsFree DEF IsOpen
    <3> QED
      BY <1>9, <2>1, <2>3, <3>1 DEF Place, Goto, WhereLog, Table
  <2>4. CASE ~(toUse >= 0) /\ fd # Default
    BY <1>9, <2>1, <2>4 DEF Place, Goto, WhereLog
  <2> QED
    BY <2>2, <2>3, <2>4
<1>10. CASE Move(t)
  BY <1>10 DEF Move, Publish, Goto, WhereLog
<1>11. CASE CloseLog(t, "misplaced", "unlock")
  BY <1>11 DEF CloseLog, WhereLog
<1>12. CASE CloseLog(t, "closeLow", "settle")
  BY <1>12 DEF CloseLog, Closed, IsOpen, Goto, WhereLog, Table
<1>13. CASE Settle(t)
  BY <1>13 DEF Settle, Publish, Goto, WhereLog
<1>14. CASE CloseOnExec(t)
  BY <1>14 DEF CloseOnExec, Goto, WhereLog, shared, IsOpen
<1>15. CASE Connect(t)
  BY <1>15 DEF Connect, Goto, WhereLog
<1>16. CASE CloseLog(t, "drop", "disable")
  BY <1>16 DEF CloseLog, Closed, IsOpen, Goto, WhereLog, Table
<1>17. CASE Disable(t)
  BY <1>17 DEF Disable, Publish, Goto, WhereLog
<1>18. CASE Unlock(t)
  BY <1>18 DEF Unlock, Goto, WhereLog
<1> QED
  BY <1>6, <1>7, <1>8, <1>9, <1>10, <1>11, <1>12, <1>13, <1>14, <1>15, <1>16, <1>17, <1>18
     DEF Init_file_log

\* The steps of a thread outside of the init functions.
LEMMA CallsKeepPlace ==
    ASSUME OneThread, TypeInv, PlaceInv, NEW t \in process.threads,
           Call(t) \/ Test(t) \/ Check(t) \/ Write(t) \/ Reset(t) \/ Reopen(t) \/ Reinit(t)
    PROVE  PlaceInv'
<1>1. UNCHANGED <<process, medium, toUse>>
  BY DEF Call, Test, Check, Write, Reset, Reopen, Reinit, CloseLog, Publish, env
<1>2. /\ toUse >= 0 => toUse = Top /\ fds[Top] # AppFile
      /\ medium = "stderr" => OnStderr(t)
      /\ medium # "stderr" => WhereLog(t)
  BY Placement DEF PlaceInv
<1>3. SUFFICES /\ toUse >= 0 => fds'[Top] # AppFile
               /\ \A f \in Fds : fds'[f] = AppFile => fds[f] = AppFile
               /\ medium = "stderr" => OnStderr(t)'
               /\ medium # "stderr" => WhereLog(t)'
  BY <1>1 DEF OneThread, PlaceInv
<1>4. pc \in [Threads -> Labels] /\ fds \in Table /\ fd \in Fds \union {-1} /\ t \in Threads
  BY PresentThreads DEF TypeInv, TypeOK, Table
<1> USE <1>1, <1>2, <1>4, Numbers DEF WhereLog, OnStderr, Goto, Home
<1>5. CASE Call(t)
  BY <1>5 DEF Call, shared
<1>6. CASE Test(t)
  BY <1>6 DEF Test, shared
<1>7. CASE Check(t)
  BY <1>7 DEF Check, shared, Fds, Default
<1>8. CASE Write(t)
  BY <1>8 DEF Write, shared
<1>9. CASE Reset(t)
  BY <1>9 DEF Reset
<1>10. CASE Reopen(t)
  BY <1>10 DEF Reopen, Publish
<1>11. CASE Reinit(t)
  BY <1>11 DEF Reinit, CloseLog, Closed, IsOpen, Table
<1> QED
  BY <1>5, <1>6, <1>7, <1>8, <1>9, <1>10, <1>11

\* The application never opens the number Top, and opens and closes files only
\* while the thread is not in the middle of a call.
LEMMA WorldKeepsPlace ==
    ASSUME OneThread, TypeInv, PlaceInv, App \/ MediumFlips \/ UNCHANGED vars
    PROVE  PlaceInv'
<1>1. CASE App
  <2>1. /\ UNCHANGED <<process, medium, toUse, fd, pc>> /\ process.appActs
        /\ \A t \in process.threads : pc[t] = "idle"
    BY <1>1 DEF App, locals, OneThread
  <2>2. fds'[Top] # AppFile \/ fds[Top] = AppFile
    BY <1>1, LowestFreeType, Numbers DEF App, AppOpen, AppCloseAll, TypeInv, TypeOK
  <2> QED
    BY <2>1, <2>2 DEF PlaceInv, OnStderr, WhereLog, Home
<1>2. CASE MediumFlips \/ UNCHANGED vars
  <2>1. UNCHANGED <<process, medium, toUse, fd, fds, pc, spare>>
    BY <1>2 DEF MediumFlips, vars, locals
  <2> QED
    BY <2>1 DEF PlaceInv, OnStderr, WhereLog, Home, IsOpen
<1> QED
  BY <1>1, <1>2

LEMMA NextPlace == OneThread /\ TypeInv /\ PlaceInv /\ [Next]_vars => PlaceInv'
BY InitFunctionsKeepPlace, CallsKeepPlace, WorldKeepsPlace DEF Next, Step

LEMMA InitPlace == Init => PlaceInv
<1> SUFFICES ASSUME Init PROVE PlaceInv
  OBVIOUS
<1>1. /\ fds[Top] = Nothing /\ \A f \in Fds : fds[f] = AppFile => f = Default
      /\ fd = Default /\ \A t \in process.threads : pc[t] = "idle"
  BY Numbers DEF Init, Threads
<1> QED
  BY <1>1, Numbers DEF PlaceInv, OnStderr, WhereLog

\* What the log's number cannot refer to but the log.
Safe == toUse >= 0 \/ ~process.appActs

\* A message under way has not been written, and what was written went to the log.
MessageInv ==
    medium # "stderr" =>
      \A t \in process.threads : /\ pc[t] \notin {"idle", "reopen"} => out[t] = <<>>
                                 /\ Safe => "app" \notin Range(out[t])

LEMMA Written ==
    ASSUME OneThread, TypeInv, PlaceInv, NEW t \in process.threads, Write(t),
           medium # "stderr", Accepts(fd)
    PROVE  /\ pc' = [pc EXCEPT ![t] = "idle"]
           /\ \E where \in {"app", "log"} : /\ out' = [out EXCEPT ![t] = Append(@, where)]
                                            /\ Safe => where = "log"
<1>1. fd \in Fds /\ fd # Default /\ (toUse >= 0 => fd = Top)
  BY DEF Write, PlaceInv, WhereLog, Home
<1>2. Safe => fds[fd] # AppFile
  BY <1>1 DEF PlaceInv, Safe
<1> QED
  BY <1>2 DEF Write, Goto

LEMMA NextMessage ==
    OneThread /\ TypeInv /\ PlaceInv /\ MessageInv /\ [Next]_vars => MessageInv'
<1> SUFFICES ASSUME OneThread, TypeInv, PlaceInv, MessageInv, [Next]_vars, medium' # "stderr"
             PROVE  \A t \in process'.threads :
                      /\ pc'[t] \notin {"idle", "reopen"} => out'[t] = <<>>
                      /\ Safe' => "app" \notin Range(out'[t])
  BY DEF MessageInv
<1>1. UNCHANGED <<process, medium, toUse>>
  BY DEF Next, App, MediumFlips, vars, Step, Call, Test, Init_file_log, Check, Write, Reset, Reopen,
         Reinit, Lock, Recheck, Create, Place, Move, CloseLog, Settle, CloseOnExec, Connect,
         Disable, Unlock, Publish, env
<1>2. /\ medium # "stderr" /\ pc \in [Threads -> Labels] /\ DOMAIN out = Threads
      /\ process.threads \subseteq Threads /\ Safe' = Safe
  BY <1>1, PresentThreads DEF TypeInv, TypeOK, Safe
<1>3. CASE UNCHANGED out /\ \A t \in process.threads : pc[t] = "idle" => pc'[t] \in {"idle", "reopen"}
  <2>1. CASE pc' = pc
    BY <1>1, <1>2, <1>3, <2>1 DEF MessageInv
  <2>2. \A t \in process.threads : pc[t] = "reopen" => pc'[t] \in {"idle", "reopen"}
    BY <1>2 DEF Next, App, MediumFlips, vars, locals, Step, Call, Test, Init_file_log, Check, Write, Reset,
         Reopen, Reinit, Lock, Recheck, Create, Place, Move, CloseLog, Settle, CloseOnExec, Connect,
         Disable, Unlock, Publish, Goto
  <2> QED
    BY <1>1, <1>2, <1>3, <2>2 DEF MessageInv
<1>4. ASSUME NEW t \in process.threads, Call(t) PROVE out'[t] = <<>>
  BY <1>2, <1>4 DEF Call
<1>5. ASSUME NEW t \in process.threads, Write(t)
      PROVE  UNCHANGED out \/ (out'[t] \in {<<"app">>, <<"log">>} /\ (Safe => out'[t] = <<"log">>)
                                /\ pc'[t] = "idle")
  <2>1. CASE Accepts(fd)
    <3>1. out[t] = <<>> /\ pc[t] = "write"
      BY <1>2, <1>5 DEF Write, MessageInv
    <3>2. Append(<<>>, "log") = <<"log">> /\ Append(<<>>, "app") = <<"app">>
      OBVIOUS
    <3>3. PICK where \in {"app", "log"} : /\ out' = [out EXCEPT ![t] = Append(@, where)]
                                          /\ Safe => where = "log"
      BY <1>2, <1>5, <2>1, Written
    <3>4. out'[t] = Append(<<>>, where) /\ pc'[t] = "idle"
      BY <1>2, <1>5, <2>1, <3>1, <3>3, Written
    <3> QED
      BY <3>2, <3>3, <3>4
  <2>2. CASE ~Accepts(fd)
    BY <1>5, <2>2 DEF Write
  <2> QED
    BY <2>1, <2>2
<1>6. Range(<<>>) = {} /\ Range(<<"log">>) = {"log"}
  BY DEF Range
<1>7. \/ \E t \in process.threads : Call(t) \/ Write(t)
      \/ UNCHANGED out /\ \A t \in process.threads : pc[t] = "idle" => pc'[t] \in {"idle", "reopen"}
  BY <1>2 DEF Next, App, MediumFlips, vars, locals, Step, Test, Init_file_log, Check, Reset,
         Reopen, Reinit, Lock, Recheck, Create, Place, Move, CloseLog, Settle, CloseOnExec, Connect,
         Disable, Unlock, Publish, Goto, env
<1>8. ASSUME NEW t \in process.threads, Write(t) PROVE pc[t] = "write"
  BY <1>8 DEF Write
<1> QED
  BY <1>1, <1>2, <1>3, <1>4, <1>5, <1>6, <1>7, <1>8 DEF OneThread

\* What a call knows that has found the medium up all along: the log is not
\* given up except for want of descriptors, and one that was opened in this
\* call takes what is written to it.
Spared == IF toUse >= 0 THEN {} ELSE {Default}

Delivering(t) ==
    /\ pc[t] \notin {"drop", "disable"}
    /\ pc[t] = "test" => fd # -1 /\ (err[t] = 1 => fd = Default)
    /\ pc[t] = "place" /\ medium = "process" => fds[fd] \in joined
    /\ pc[t] = "moved" /\ medium = "process" => fds[Top] \in joined
    /\ pc[t] = "closeLow" /\ spare[t] = -1 => FreeFds = {}
    /\ pc[t] = "settle" /\ spare[t] = -1 => FreeFds \subseteq {Default}
    /\ pc[t] \in {"closeLow", "settle"} /\ spare[t] # -1 /\ medium = "process" => fds[spare[t]] \in joined
    /\ pc[t] \in {"cloexec", "connect"} /\ medium = "process" => fds[fd] \in joined
    /\ pc[t] \in {"unlock", "check"} /\ fd = -1 => FreeFds \subseteq Spared
    /\ pc[t] = "unlock" /\ fd # -1 => fd \in Fds /\ fds[fd] \in joined
    /\ pc[t] \in {"check", "write"} /\ err[t] = 1 /\ fd # -1 => fd \in Fds /\ fds[fd] \in joined

DeliveryInv ==
    /\ \A t \in process.threads : calm[t] => up
    /\ medium # "stderr" => \A t \in process.threads : calm[t] => Delivering(t)

LEMMA InitFunctionsDeliver ==
    ASSUME OneThread, TypeInv, PlaceInv, DeliveryInv, NEW t \in process.threads, Init_file_log(t)
    PROVE  DeliveryInv'
<1>1. UNCHANGED <<process, medium, toUse, up, calm, err>> /\ Spared' = Spared
  BY DEF Init_file_log, Lock, Recheck, Create, Place, Move, CloseLog, Settle, CloseOnExec,
         Connect, Disable, Unlock, Publish, env, Spared
<1> SUFFICES ASSUME medium # "stderr", calm[t] PROVE Delivering(t)'
  BY <1>1 DEF DeliveryInv, OneThread
<1>2. up /\ Delivering(t) /\ WhereLog(t) /\ toUse \in {-1, Top}
  BY DEF DeliveryInv, PlaceInv, TypeInv, TypeOK, Places
<1>3. /\ pc \in [Threads -> Labels] /\ fds \in Table /\ joined \subseteq LogFiles /\ t \in Threads
      /\ spare \in [Threads -> Fds \union {-1}]
  BY PresentThreads DEF TypeInv, TypeOK, Table
<1> USE <1>1, <1>2, <1>3, Numbers DEF Goto, Delivering, WhereLog
<1>4. CASE Lock(t)
  BY <1>4 DEF Lock
<1>5. CASE Recheck(t)
  BY <1>5 DEF Recheck, shared
<1>6. CASE Create(t)
  <2>1. LowestFree # -1 => LowestFree \in Fds
    BY LowestFreeIsFree
  <2>2. CASE Opens
    BY <1>6, <2>1, <2>2 DEF Create, Opens, Table
  <2>3. CASE ~Opens
    <3>1. FreeFds = {}
      BY <2>3, LowestFreeIsFree DEF Opens
    <3> QED
      BY <1>6, <2>3, <3>1 DEF Create, FreeFds
  <2> QED
    BY <2>2, <2>3
<1>7. CASE Place(t)
  <2>1. fd \in Fds /\ IsOpen(fd) /\ pc[t] = "place"
    BY <1>7 DEF Place, IsOpen
  <2>2. CASE toUse >= 0
    <3>1. fds' = [fds EXCEPT ![Top] = fds[fd]] /\ joined' = Live(fds', joined)
          /\ pc' = [pc EXCEPT ![t] = "moved"] /\ fds'[Top] = fds[fd]
      BY <1>7, <2>1, <2>2, TopAssumption DEF Place, Table
    <3>2. medium = "process" => fds'[Top] \in joined'
      BY <2>1, <3>1 DEF Live
    <3> QED
      BY <3>1, <3>2
  <2>3. CASE ~(toUse >= 0) /\ fd = Default
    <3>1. /\ LowestFree # -1 => LowestFree \in Fds \ {Default}
          /\ LowestFree = -1 => FreeFds = {}
      BY <2>1, <2>3, LowestFreeIsFree DEF IsOpen
    <3>2. /\ spare'[t] = LowestFree /\ UNCHANGED joined /\ pc' = [pc EXCEPT ![t] = "closeLow"]
          /\ fds' = IF LowestFree # -1 THEN [fds EXCEPT ![LowestFree] = fds[fd]] ELSE fds
      BY <1>7, <2>1, <2>3 DEF Place
    <3>3. LowestFree = -1 => FreeFds' = {}
      BY <3>1, <3>2 DEF FreeFds
    <3>4. LowestFree # -1 => fds'[LowestFree] = fds[fd]
      BY <3>1, <3>2 DEF Table
    <3> QED
      BY <2>1, <3>2, <3>3, <3>4
  <2>4. CASE ~(toUse >= 0) /\ fd # Default
    BY <1>7, <2>1, <2>4 DEF Place
  <2> QED
    BY <2>2, <2>3, <2>4
<1>8. CASE Move(t)
  BY <1>8 DEF Move, Publish
<1>9. CASE CloseLog(t, "misplaced", "unlock")
  BY <1>9 DEF CloseLog
<1>10. CASE CloseLog(t, "closeLow", "settle")
  <2>1. /\ fd = Default /\ pc[t] = "closeLow" /\ fds' = [fds EXCEPT ![Default] = Nothing]
        /\ joined' = Live(fds', joined) /\ UNCHANGED spare /\ pc' = [pc EXCEPT ![t] = "settle"]
    BY <1>10, DefaultIsFd DEF CloseLog, Closed, IsOpen
  <2>2. spare[t] = -1 => FreeFds' \subseteq {Default}
    BY <2>1 DEF FreeFds, Table
  <2>3. spare[t] # -1 => fds'[spare[t]] = fds[spare[t]] /\ spare[t] \in Fds
    BY <2>1 DEF Table
  <2>4. spare[t] # -1 /\ medium = "process" => fds'[spare[t]] \in joined'
    <3>1. spare[t] # -1 /\ medium = "process" => fds[spare[t]] \in joined
      BY <2>1
    <3>2. spare[t] # -1 => spare[t] \in Fds /\ fds'[spare[t]] = fds[spare[t]]
      BY <2>3
    <3>3. joined' = Live(fds', joined)
      BY <2>1
    <3> QED
      BY ONLY <3>1, <3>2, <3>3 DEF Live
  <2>5. /\ pc'[t] = "settle" /\ spare'[t] = spare[t] /\ UNCHANGED medium
        /\ spare'[t] = -1 => FreeFds' \subseteq {Default}
        /\ spare'[t] # -1 /\ medium' = "process" => fds'[spare'[t]] \in joined'
    BY <2>1, <2>2, <2>4
  <2> QED
    BY <2>5
<1>11. CASE Settle(t)
  <2>1. /\ fd' = spare[t] /\ pc[t] = "settle" /\ UNCHANGED <<fds, joined, spare>>
        /\ pc' = [pc EXCEPT ![t] = IF spare[t] < 0 THEN "unlock" ELSE "cloexec"]
    BY <1>11 DEF Settle, Publish
  <2>2. FreeFds' = FreeFds
    BY <2>1 DEF FreeFds
  <2>3. spare[t] \in Fds \union {-1}
    OBVIOUS
  <2>4. spare[t] < 0 <=> spare[t] = -1
    <3>1. spare[t] \in Nat \/ spare[t] = -1
      BY <2>3
    <3> QED
      BY ONLY <3>1
  <2> QED
    BY <2>1, <2>2, <2>3, <2>4 DEF Spared
<1>12. CASE CloseOnExec(t)
  <2>1. medium = "process" \/ medium = "merged"
    BY DEF TypeInv, TypeOK, Media
  <2> QED
    BY <1>12, <2>1 DEF CloseOnExec, shared, IsOpen
<1>13. CASE Connect(t)
  BY <1>13 DEF Connect, Connects, IsOpen
<1>14. CASE CloseLog(t, "drop", "disable") \/ Disable(t)
  BY <1>14 DEF CloseLog, Disable, Publish
<1>15. CASE Unlock(t)
  BY <1>15 DEF Unlock, FreeFds
<1> QED
  BY <1>4, <1>5, <1>6, <1>7, <1>8, <1>9, <1>10, <1>11, <1>12, <1>13, <1>14, <1>15 DEF Init_file_log

LEMMA CallsDeliver ==
    ASSUME OneThread, TypeInv, PlaceInv, DeliveryInv, NEW t \in process.threads,
           Call(t) \/ Test(t) \/ Check(t) \/ Write(t) \/ Reset(t) \/ Reopen(t) \/ Reinit(t)
    PROVE  DeliveryInv'
<1>1. UNCHANGED <<process, medium, toUse, up>> /\ Spared' = Spared
  BY DEF Call, Test, Check, Write, Reset, Reopen, Reinit, CloseLog, Publish, env, Spared
<1>2. /\ pc \in [Threads -> Labels] /\ fds \in Table /\ err \in [Threads -> 0 .. 1]
      /\ t \in Threads /\ fd \in Fds \union {-1}
  BY PresentThreads DEF TypeInv, TypeOK, Table
<1>3. \A u \in process'.threads : calm'[u] => up'
  <2>1. CASE Call(t)
    BY <1>1, <1>2, <2>1 DEF Call, OneThread, TypeInv, TypeOK
  <2>2. CASE UNCHANGED calm
    BY <1>1, <2>2 DEF DeliveryInv
  <2> QED
    BY <2>1, <2>2 DEF Test, Check, Write, Reset, Reopen, Reinit, CloseLog, Publish, env
<1> SUFFICES ASSUME medium # "stderr", calm'[t] PROVE Delivering(t)'
  BY <1>1, <1>3 DEF DeliveryInv, OneThread
<1>4. WhereLog(t) /\ (calm[t] => Delivering(t))
  BY DEF DeliveryInv, PlaceInv
<1> USE <1>1, <1>2, <1>4, Numbers DEF Goto, Delivering, WhereLog
<1>5. CASE Call(t)
  <2>1. fd # -1
    <3>1. calm'[t] = (up /\ fd # -1)
      BY <1>5, Zenon DEF Call, TypeInv, TypeOK
    <3> QED
      BY <3>1
  <2>2. pc' = [pc EXCEPT ![t] = "test"] /\ err'[t] = 0 /\ fd' = fd
    BY <1>5 DEF Call, shared
  <2> QED
    BY <2>1, <2>2
<1>6. CASE Test(t)
  BY <1>6 DEF Test, shared, env
<1>7. CASE Check(t)
  BY <1>7 DEF Check, shared, env, FreeFds
<1>8. CASE Write(t)
  BY <1>8 DEF Write, shared
<1>9. CASE Reset(t)
  BY <1>9 DEF Reset, env
<1>10. CASE Reopen(t) \/ Reinit(t)
  BY <1>10 DEF Reopen, Publish, Reinit, CloseLog, env
<1> QED
  BY <1>5, <1>6, <1>7, <1>8, <1>9, <1>10

LEMMA WorldDelivers ==
    ASSUME OneThread, TypeInv, DeliveryInv, App \/ MediumFlips \/ UNCHANGED vars
    PROVE  DeliveryInv'
<1>1. CASE App
  BY <1>1 DEF App, locals, OneThread, DeliveryInv, Delivering
<1>2. CASE MediumFlips
  \* A medium that is up comes down, and one that is down has no calm calls.
  <2>1. \A t \in process'.threads : ~calm'[t]
    BY <1>2, PresentThreads DEF MediumFlips, DeliveryInv
  <2> QED
    BY <2>1 DEF DeliveryInv
<1>3. CASE UNCHANGED vars
  BY <1>3 DEF vars, DeliveryInv, Delivering, FreeFds, Spared
<1> QED
  BY <1>1, <1>2, <1>3

LEMMA NextDelivery ==
    OneThread /\ TypeInv /\ PlaceInv /\ DeliveryInv /\ [Next]_vars => DeliveryInv'
BY InitFunctionsDeliver, CallsDeliver, WorldDelivers DEF Next, Step

\* Everything that is known of a process with one printing thread.
LoneInv == TypeInv /\ (OneThread => PlaceInv /\ MessageInv /\ DeliveryInv)

LEMMA NextLone == LoneInv /\ [Next]_vars => LoneInv'
<1>1. [Next]_vars => (OneThread' <=> OneThread)
  BY DEF OneThread, Next, App, MediumFlips, vars, Step, Call, Test, Init_file_log, Check, Write, Reset,
         Reopen, Reinit, Lock, Recheck, Create, Place, Move, CloseLog, Settle, CloseOnExec, Connect,
         Disable, Unlock, Publish, env
<1> QED
  BY <1>1, NextType, NextPlace, NextMessage, NextDelivery DEF LoneInv

THEOREM LoneKept == Spec => []LoneInv
<1>1. Init => LoneInv
  <2>1. Init => MessageInv /\ DeliveryInv
    BY DEF Init, Threads, MessageInv, Range, DeliveryInv
  <2> QED
    BY <2>1, InitType, InitPlace DEF LoneInv
<1> QED
  BY <1>1, NextLone, PTL DEF Spec

\* In a process with one printing thread whose log has a number of its own, no
\* message goes into a file of the application, however the application opens
\* and closes files and the medium comes and goes.
THEOREM LogStaysOut == Spec => []OnlyToLog
<1>1. LoneInv => OnlyToLog
  BY DEF LoneInv, MessageInv, OnlyToLog, NothingAstray, Safe
<1> QED
  BY <1>1, LoneKept, PTL

LEMMA CloseKeepsOthers ==
    ASSUME NEW f \in Fds, NEW n, fds \in Table, fds[f] = AppFile, fds[n] # AppFile
    PROVE  Closed(n)[f] = AppFile
BY DEF Closed, IsOpen, Table

LEMMA StepKeepsOff ==
    ASSUME OneThread, TypeInv, PlaceInv, Next, pc' # pc, NEW f \in Fds, fds[f] = AppFile
    PROVE  \/ fds'[f] = AppFile
           \/ toUse < 0 /\ f = fd /\ \E t \in process.threads : pc'[t] = "reopen"
<1>1. /\ toUse >= 0 => toUse = Top /\ fds[Top] # AppFile
      /\ toUse < 0 <=> ~(toUse >= 0)
      /\ \A t \in process.threads : /\ medium = "stderr" => OnStderr(t)
                                    /\ medium # "stderr" => WhereLog(t)
  BY Placement, TopAssumption DEF PlaceInv, TypeInv, TypeOK, Places
<1>2. fds \in Table /\ process.threads \subseteq Threads /\ pc \in [Threads -> Labels]
  BY PresentThreads DEF TypeInv, TypeOK, Table
<1>3. ASSUME NEW t \in process.threads, Create(t) PROVE fds'[f] = AppFile
  BY <1>2, <1>3, LowestFreeIsFree, Numbers DEF Create, Opens, Table
<1>4. ASSUME NEW t \in process.threads, Place(t) PROVE fds'[f] = AppFile
  BY <1>1, <1>2, <1>4, LowestFreeIsFree, Numbers DEF Place, Table
<1>5. ASSUME NEW t \in process.threads,
             CloseLog(t, "drop", "disable") \/ CloseLog(t, "closeLow", "settle")
      PROVE  fds'[f] = AppFile
  BY <1>1, <1>2, <1>5, CloseKeepsOthers, Numbers DEF CloseLog, OnStderr, WhereLog
<1>6. ASSUME NEW t \in process.threads, CloseLog(t, "misplaced", "unlock") PROVE FALSE
  BY <1>1, <1>6 DEF CloseLog, OnStderr, WhereLog
<1>7. ASSUME NEW t \in process.threads, Reinit(t)
      PROVE  fds'[f] = AppFile \/ (toUse < 0 /\ f = fd /\ pc'[t] = "reopen")
  <2>1. pc'[t] = "reopen" /\ fds' = Closed(fd)
    BY <1>2, <1>7 DEF Reinit, CloseLog, Goto
  <2>2. CASE toUse >= 0
    <3>1. fd = Top
      BY <1>1, <1>7, <2>2, Numbers DEF Reinit, WhereLog, Home
    <3> QED
      BY <1>1, <1>2, <2>1, <2>2, <3>1, CloseKeepsOthers
  <2>3. CASE ~(toUse >= 0)
    BY <1>1, <1>2, <2>1, <2>3 DEF Closed, Table
  <2> QED
    BY <2>2, <2>3
<1>8. CASE App \/ MediumFlips
  BY <1>8 DEF App, MediumFlips, locals
<1> QED
  BY <1>3, <1>4, <1>5, <1>6, <1>7, <1>8
     DEF Next, Step, Call, Test, Init_file_log, Check, Write, Reset, Reopen, Lock, Recheck, Move,
         Settle, CloseOnExec, Connect, Disable, Unlock, Publish, shared, env

\* In a process with one printing thread, a call of the client closes and
\* replaces no file of the application; reinit_debug_log() closes none either if
\* the log has a number of its own, and without one only what has the log's number.
THEOREM AppFilesKept == Spec => KeepsOff
<1>1. LoneInv /\ [Next]_vars
        => [ OneThread /\ pc' # pc =>
               \A f \in Fds :
                 fds[f] = AppFile => \/ fds'[f] = AppFile
                                     \/ /\ toUse < 0 /\ f = fd
                                        /\ \E t \in process.threads : pc'[t] = "reopen" ]_vars
  BY StepKeepsOff DEF LoneInv
<1> QED
  BY <1>1, LoneKept, PTL DEF Spec, KeepsOff

LEMMA StepDelivers ==
    ASSUME OneThread, TypeInv, PlaceInv, MessageInv, DeliveryInv, Next, NEW t \in process.threads,
           pc[t] \in {"check", "write"}, pc'[t] = "idle", medium # "stderr", calm[t],
           FreeFds \ Spared # {}
    PROVE  out'[t] \in {<<"log">>, <<"app">>} /\ (Safe => out'[t] = <<"log">>)
<1>1. Delivering(t) /\ WhereLog(t) /\ out[t] = <<>>
  BY DEF DeliveryInv, PlaceInv, MessageInv
<1>2. /\ pc \in [Threads -> Labels] /\ err[t] \in 0 .. 1 /\ DOMAIN out = Threads
      /\ joined \subseteq LogFiles /\ t \in Threads /\ process.threads \subseteq Threads
  BY PresentThreads DEF TypeInv, TypeOK
<1>3. Check(t) \/ Write(t)
  BY <1>2 DEF OneThread, Next, App, MediumFlips, vars, locals, Step, Call, Test, Init_file_log, Reset,
       Reopen, Reinit, Lock, Recheck, Create, Place, Move, CloseLog, Settle, CloseOnExec, Connect,
       Disable, Unlock, Publish, Goto
<1>4. ~Check(t)
  <2>1. pc[t] = "check" => fd # -1
    BY <1>1 DEF Delivering
  <2>2. fd \in Fds \union {-1}
    BY DEF TypeInv, TypeOK
  <2> QED
    BY <1>2, <2>1, <2>2, Numbers DEF Check, Goto
<1>5. Accepts(fd)
  <2>1. CASE err[t] = 1
    BY <1>1, <1>2, <1>3, <1>4, <2>1, Numbers DEF Write, Delivering, WhereLog, Accepts, IsOpen
  <2>2. CASE err[t] = 0
    BY <1>2, <1>3, <1>4, <2>2 DEF Write, Goto
  <2> QED
    BY <1>2, <2>1, <2>2
<1>6. Append(<<>>, "log") = <<"log">> /\ Append(<<>>, "app") = <<"app">>
  OBVIOUS
<1>7. PICK where \in {"app", "log"} : /\ out' = [out EXCEPT ![t] = Append(@, where)]
                                      /\ Safe => where = "log"
  BY <1>3, <1>4, <1>5, Written
<1> QED
  BY <1>1, <1>2, <1>6, <1>7

\* "Retry will open it again", for a process with one printing thread: a call
\* that finds the medium up from beginning to end, the log not given up, and a
\* descriptor free (besides that of stderr, if the log has no number of its own)
\* writes its message, once, and to the log, whatever the application has closed
\* before.  Only where the log has no number of its own and the application opens
\* and closes descriptors may it be the application's file that gets it.
THEOREM RetryReopens == Spec => RetryDelivers
<1>1. LoneInv /\ [Next]_vars
        => [ \A t \in process.threads :
               (/\ OneThread
                /\ pc[t] \in {"check", "write"}
                /\ pc'[t] = "idle"
                /\ medium # "stderr"
                /\ calm[t]
                /\ FreeFds \ (IF toUse >= 0 THEN {} ELSE {Default}) # {})
               => /\ out'[t] \in {<<"log">>, <<"app">>}
                  /\ toUse >= 0 \/ ~process.appActs => out'[t] = <<"log">> ]_vars
  BY StepDelivers DEF LoneInv, Spared, Safe
<1> QED
  BY <1>1, LoneKept, PTL DEF Spec, RetryDelivers

-----------------------------------------------------------------------------
(* One log file, for any number of threads: a per-process log in a process  *)
(* that leaves its descriptors alone.  A thread that is past the test reads *)
(* a descriptor that is open on the log, wherever the thread in the init    *)
(* section has got to, so no write fails and nothing is opened again.       *)

Opening == {"place", "moved", "closeLow", "settle"}

OneFile(t) ==
    /\ pc[t] \in {"idle", "test", "lock", "locked", "create", "cloexec", "unlock", "check", "write"}
                   \union Opening
    /\ pc[t] \in {"cloexec", "unlock", "check", "write"} => fd # Default
    /\ pc[t] \in {"cloexec", "write"} => fd # -1
    /\ pc[t] = "create" => fd = Default
    /\ pc[t] = "place" => fd \in LogFds /\ LogFds \subseteq {fd}
    /\ pc[t] = "moved" => toUse = Top /\ Top \in LogFds /\ fd # -1
    /\ pc[t] \in {"closeLow", "settle"} =>
         fd = Default /\ spare[t] \in LogFds \ {Default}

LeftAlone == medium = "process" /\ ~process.appActs

OneFileInv ==
    LeftAlone =>
      /\ \A f, g \in LogFds : fds[f] = fds[g]
      /\ \A f \in LogFds : fds[f] \in joined
      /\ \A f \in Fds : fds[f] = AppFile => f = Default
      /\ fd \notin {Default, -1} => fd \in LogFds
      /\ fd = Default /\ (\A t \in Threads : pc[t] \notin Opening) => LogFds = {}
      /\ \A t \in Threads : OneFile(t)

\* Steps that assign nothing but pc and the lock, to a label outside of Opening.
LEMMA QuietKeepsOneFile ==
    ASSUME MutexInv, OneFileInv, NEW t \in Threads, NEW l \in Labels, Goto(t, l),
           UNCHANGED <<process, medium, toUse, fd, fds, joined, spare>>,
           pc[t] \notin Opening,
           l \in {"idle", "test", "lock", "locked", "create", "unlock", "check", "write"},
           LeftAlone /\ l \in {"unlock", "check", "write"} => fd # Default,
           LeftAlone /\ l = "write" => fd # -1,
           LeftAlone /\ l = "create" => fd = Default
    PROVE  OneFileInv'
<1> SUFFICES ASSUME LeftAlone PROVE OneFileInv'
  BY DEF OneFileInv, LeftAlone
<1>1. LogFds' = LogFds
  BY DEF LogFds
<1>2. pc' = [pc EXCEPT ![t] = l] /\ pc \in [Threads -> Labels]
  BY DEF Goto, MutexInv
<1>3. pc'[t] = l /\ \A u \in Threads \ {t} : pc'[u] = pc[u]
  BY <1>2
<1>4. ASSUME NEW u \in Threads PROVE OneFile(u)'
  BY <1>1, <1>3 DEF OneFileInv, OneFile, Opening
<1>5. (\A u \in Threads : pc'[u] \notin Opening) => \A u \in Threads : pc[u] \notin Opening
  BY <1>3
<1> QED
  BY <1>1, <1>4, <1>5 DEF OneFileInv

\* The thread in the init section is the only one there.
LEMMA OthersOutside ==
    ASSUME MutexInv, NEW t \in Threads, NEW u \in Threads, u # t, pc[t] \in Section
    PROVE  pc[u] \notin Section
BY DEF MutexInv, LockHeld

LEMMA CreateKeepsOneFile ==
    ASSUME MutexInv, TypeInv, OneFileInv, NEW t \in Threads, Create(t)
    PROVE  OneFileInv'
<1> SUFFICES ASSUME LeftAlone PROVE OneFileInv'
  BY DEF OneFileInv, LeftAlone, Create, env
<1>1. pc[t] = "create" /\ fd = Default /\ \A u \in Threads \ {t} : pc[u] \notin Section
  BY OthersOutside DEF Create, OneFileInv, OneFile, Section
<1>2. LogFds = {} /\ \A u \in Threads \ {t} : OneFile(u)
  BY <1>1 DEF OneFileInv, Opening, Section
<1>3. UNCHANGED <<process, medium, toUse, spare>> /\ fds \in Table
  BY DEF Create, env, TypeInv, TypeOK, Table
<1>4. \A u \in Threads \ {t} : pc[u] \in {"idle", "test", "lock"}
  BY <1>1, <1>2 DEF OneFile, Opening, Section
<1>5. CASE Opens
  <2>1. /\ LowestFree \in Fds /\ NewFile \in LogFiles /\ fd' = LowestFree
        /\ fds' = [fds EXCEPT ![LowestFree] = NewFile]
        /\ joined' = joined \union {NewFile}
        /\ pc' = [pc EXCEPT ![t] = "place"]
    BY <1>5, LowestFreeIsFree, NewFileType DEF Create, Opens, LeftAlone, TypeInv, Goto
  <2>2. LogFds' = {LowestFree}
    BY <1>2, <1>3, <2>1 DEF LogFds, Table
  <2>3. pc'[t] = "place" /\ \A u \in Threads \ {t} : pc'[u] = pc[u]
    BY <2>1 DEF TypeInv, TypeOK
  <2>4. \A u \in Threads : OneFile(u)'
    BY <1>4, <2>1, <2>2, <2>3 DEF OneFile, Opening
  <2>5. fds'[LowestFree] = NewFile
    BY <1>3, <2>1 DEF Table
  <2>6. \A f \in Fds : fds'[f] = AppFile => f = Default
    BY <1>3, <2>1, Numbers DEF OneFileInv, Table
  <2> QED
    BY <2>1, <2>2, <2>3, <2>4, <2>5, <2>6 DEF OneFileInv, Opening
<1>6. CASE ~Opens
  <2>1. fd' = -1 /\ pc' = [pc EXCEPT ![t] = "unlock"] /\ UNCHANGED <<fds, joined>>
    BY <1>6 DEF Create, Goto
  <2>2. LogFds' = {}
    BY <1>2, <2>1 DEF LogFds
  <2>3. pc'[t] = "unlock" /\ \A u \in Threads \ {t} : pc'[u] = pc[u]
    BY <2>1 DEF TypeInv, TypeOK
  <2>4. \A u \in Threads : OneFile(u)'
    BY <1>4, <2>1, <2>3, Numbers DEF OneFile, Opening
  <2> QED
    BY <2>1, <2>2, <2>4, Numbers DEF OneFileInv
<1> QED
  BY <1>5, <1>6

\* A new number for the log that is valid disturbs no other thread.
LEMMA OthersKeepOneFile ==
    ASSUME MutexInv, OneFileInv, LeftAlone, NEW t \in Threads, pc[t] \in Section,
           NEW u \in Threads, u # t, pc'[u] = pc[u], fd' = fd \/ fd' \notin {Default, -1}
    PROVE  OneFile(u)'
<1>1. pc[u] \notin Section /\ OneFile(u)
  BY OthersOutside DEF OneFileInv
<1> QED
  BY <1>1 DEF OneFile, Section, Opening

LEMMA PlaceKeepsOneFile ==
    ASSUME MutexInv, TypeInv, OneFileInv, NEW t \in Threads, Place(t)
    PROVE  OneFileInv'
<1> SUFFICES ASSUME LeftAlone PROVE OneFileInv'
  BY DEF OneFileInv, LeftAlone, Place, env
<1>1. /\ pc[t] = "place" /\ fd \in LogFds /\ LogFds = {fd} /\ fds[fd] \in joined
      /\ fds \in Table /\ fds[fd] \in LogFiles /\ pc[t] \in Section
  BY DEF Place, OneFileInv, OneFile, TypeInv, TypeOK, Table, LogFds, Section
<1>2. IsOpen(fd) /\ fd \in Fds /\ fd # -1
  BY <1>1, Numbers DEF IsOpen, LogFds
<1>3. UNCHANGED <<process, medium, toUse, fd>>
  BY DEF Place, env
<1>4. toUse < 0 <=> ~(toUse >= 0)
  BY TopAssumption DEF TypeInv, TypeOK, Places
<1>5. CASE toUse >= 0
  <2>1. toUse = Top /\ ~(toUse < 0)
    BY <1>5, Placement, TopAssumption
  <2>2. /\ fds' = [fds EXCEPT ![Top] = fds[fd]] /\ joined' = Live(fds', joined)
        /\ pc' = [pc EXCEPT ![t] = "moved"]
    BY <1>2, <1>5, <2>1 DEF Place, Goto
  <2>3. fds'[Top] = fds[fd] /\ fds'[fd] = fds[fd] /\ \A f \in Fds \ {Top} : fds'[f] = fds[f]
    BY <1>1, <1>2, <2>2, Numbers DEF Table
  <2>4. LogFds' = {fd, Top} /\ fds[fd] \in joined'
    BY <1>1, <1>2, <2>2, <2>3, Numbers DEF LogFds, Live
  <2>5. pc'[t] = "moved" /\ \A u \in Threads \ {t} : pc'[u] = pc[u]
    BY <2>2 DEF TypeInv, TypeOK
  <2>6. OneFile(t)'
    BY <1>2, <1>3, <2>1, <2>4, <2>5 DEF OneFile, Opening
  <2>7. \A u \in Threads : OneFile(u)'
    BY <1>1, <1>3, <2>5, <2>6, OthersKeepOneFile
  <2>8. \A f \in Fds : fds'[f] = AppFile => f = Default
    BY <1>1, <2>3, Numbers DEF OneFileInv
  <2> QED
    BY <1>1, <1>3, <2>3, <2>4, <2>5, <2>7, <2>8 DEF OneFileInv, Opening
<1>6. CASE toUse < 0 /\ fd = Default
  <2>1. Top \in FreeFds
    BY <1>1, <1>6, Numbers DEF FreeFds, OneFileInv, Table, LogFds
  <2>2. LowestFree \in Fds \ {Default} /\ LowestFree # -1
    <3>1. LowestFree \in Fds /\ fds[LowestFree] = Nothing
      BY <2>1, LowestFreeIsFree
    <3> QED
      BY <1>1, <1>6, <3>1, Numbers
  <2>3. /\ fds' = [fds EXCEPT ![LowestFree] = fds[fd]] /\ UNCHANGED joined
        /\ spare' = [spare EXCEPT ![t] = LowestFree]
        /\ pc' = [pc EXCEPT ![t] = "closeLow"]
    BY <1>2, <1>6, <1>4, <2>2 DEF Place, Goto
  <2>4. /\ fds'[LowestFree] = fds[fd] /\ fds'[fd] = fds[fd]
        /\ \A f \in Fds \ {LowestFree} : fds'[f] = fds[f]
    BY <1>1, <1>2, <1>6, <2>2, <2>3 DEF Table
  <2>5. LogFds' = {fd, LowestFree} /\ spare'[t] = LowestFree
    BY <1>1, <1>2, <2>2, <2>3, <2>4 DEF LogFds, TypeInv, TypeOK
  <2>6. pc'[t] = "closeLow" /\ \A u \in Threads \ {t} : pc'[u] = pc[u]
    BY <2>3 DEF TypeInv, TypeOK
  <2>7. OneFile(t)'
    BY <1>3, <1>6, <2>2, <2>5, <2>6 DEF OneFile, Opening
  <2>8. \A u \in Threads : OneFile(u)'
    BY <1>1, <1>3, <2>6, <2>7, OthersKeepOneFile
  <2>9. \A f \in Fds : fds'[f] = AppFile => f = Default
    BY <1>1, <2>4, Numbers DEF OneFileInv
  <2> QED
    BY <1>1, <1>3, <2>3, <2>4, <2>5, <2>6, <2>8, <2>9 DEF OneFileInv, Opening
<1>7. CASE toUse < 0 /\ fd # Default
  <2>1. UNCHANGED <<fds, joined, spare>> /\ pc' = [pc EXCEPT ![t] = "cloexec"]
    BY <1>7, <1>4 DEF Place, Goto
  <2>2. LogFds' = LogFds
    BY <2>1 DEF LogFds
  <2>3. pc'[t] = "cloexec" /\ \A u \in Threads \ {t} : pc'[u] = pc[u]
    BY <2>1 DEF TypeInv, TypeOK
  <2>4. OneFile(t)'
    BY <1>2, <1>3, <1>7, <2>3 DEF OneFile, Opening
  <2>5. \A u \in Threads : OneFile(u)'
    BY <1>1, <1>3, <2>3, <2>4, OthersKeepOneFile
  <2> QED
    BY <1>3, <1>7, <2>1, <2>2, <2>5 DEF OneFileInv
<1> QED
  BY <1>5, <1>6, <1>7, <1>4

\* The numbers that the log settles on.
LEMMA PublishKeepsOneFile ==
    ASSUME MutexInv, TypeInv, OneFileInv, NEW t \in Threads, Move(t) \/ Settle(t)
    PROVE  OneFileInv'
<1> SUFFICES ASSUME LeftAlone PROVE OneFileInv'
  BY DEF OneFileInv, LeftAlone, Move, Settle, Publish, env
<1>1. UNCHANGED <<process, medium, toUse, fds, joined>> /\ LogFds' = LogFds
  BY DEF Move, Settle, Publish, env, LogFds
<1>2. fd' \in LogFds \ {Default, -1} /\ pc' = [pc EXCEPT ![t] = "cloexec"]
  <2>1. CASE Move(t)
    BY <2>1, Numbers DEF Move, Publish, Goto, OneFileInv, OneFile
  <2>2. CASE Settle(t)
    <3>1. spare[t] \in LogFds \ {Default} /\ ~(spare[t] < 0) /\ spare[t] # -1
      <4>1. spare[t] \in LogFds \ {Default}
        BY <2>2 DEF Settle, Publish, OneFileInv, OneFile
      <4>2. spare[t] \in Nat
        BY <4>1, Numbers DEF LogFds
      <4> QED
        BY <4>1, <4>2
    <3> QED
      BY <2>2, <3>1 DEF Settle, Publish, Goto
  <2> QED
    BY <2>1, <2>2
<1>3. pc'[t] = "cloexec" /\ \A u \in Threads \ {t} : pc'[u] = pc[u]
  BY <1>2 DEF TypeInv, TypeOK
<1>4. pc[t] \in Section
  BY DEF Move, Settle, Publish, Section
<1>5. OneFile(t)'
  BY <1>2, <1>3 DEF OneFile, Opening
<1>6. \A u \in Threads : OneFile(u)'
  BY <1>2, <1>3, <1>4, <1>5, OthersKeepOneFile
<1> QED
  BY <1>1, <1>2, <1>6 DEF OneFileInv

\* The number of stderr is given back; the log is open on the spare one.
LEMMA CloseLowKeepsOneFile ==
    ASSUME MutexInv, TypeInv, OneFileInv, NEW t \in Threads, CloseLog(t, "closeLow", "settle")
    PROVE  OneFileInv'
<1> SUFFICES ASSUME LeftAlone PROVE OneFileInv'
  BY DEF OneFileInv, LeftAlone, CloseLog, env
<1>1. /\ pc[t] = "closeLow" /\ fd = Default /\ spare[t] \in LogFds \ {Default}
      /\ fds \in Table /\ pc[t] \in Section
  BY DEF CloseLog, OneFileInv, OneFile, TypeInv, TypeOK, Table, Section
<1>2. /\ UNCHANGED <<process, medium, toUse, fd, spare>> /\ fds' = Closed(fd) /\ joined' = Live(fds', joined)
      /\ pc' = [pc EXCEPT ![t] = "settle"]
  BY DEF CloseLog, env, Goto
<1>3. /\ \A f \in Fds : fds'[f] \in {fds[f], Nothing}
      /\ \A f \in Fds \ {Default} : fds'[f] = fds[f]
  BY <1>1, <1>2 DEF Closed, IsOpen, Table
<1>4. LogFds' \subseteq LogFds /\ spare'[t] \in LogFds' \ {Default}
  BY <1>1, <1>2, <1>3, Numbers DEF LogFds
<1>5. \A f \in LogFds' : fds'[f] = fds[f] /\ fds'[f] \in joined'
  BY <1>2, <1>3, <1>4, Numbers DEF LogFds, Live, OneFileInv
<1>6. pc'[t] = "settle" /\ \A u \in Threads \ {t} : pc'[u] = pc[u]
  BY <1>2 DEF TypeInv, TypeOK
<1>7. OneFile(t)'
  BY <1>1, <1>2, <1>4, <1>6 DEF OneFile, Opening
<1>8. \A u \in Threads : OneFile(u)'
  BY <1>1, <1>2, <1>6, <1>7, OthersKeepOneFile
<1>9. \A f \in Fds : fds'[f] = AppFile => f = Default
  BY <1>3, Numbers DEF OneFileInv
<1> QED
  BY <1>1, <1>2, <1>4, <1>5, <1>6, <1>8, <1>9 DEF OneFileInv, Opening

LEMMA CloseOnExecKeepsOneFile ==
    ASSUME MutexInv, TypeInv, OneFileInv, NEW t \in Threads, CloseOnExec(t)
    PROVE  OneFileInv'
<1> SUFFICES ASSUME LeftAlone PROVE OneFileInv'
  BY DEF OneFileInv, LeftAlone, CloseOnExec, env
<1>1. fd \notin {Default, -1} /\ fd \in LogFds
  BY DEF CloseOnExec, OneFileInv, OneFile
<1>2. IsOpen(fd)
  BY <1>1, Numbers DEF IsOpen, LogFds
<1>3. Goto(t, "unlock")
  BY <1>2 DEF CloseOnExec, LeftAlone
<1> QED
  BY <1>1, <1>3, QuietKeepsOneFile DEF CloseOnExec, env, shared, Opening, Labels

\* The paths of a log that was lost, or of a socket.
LEMMA LostPathsClosed ==
    ASSUME OneFileInv, LeftAlone, NEW t \in Threads
    PROVE  /\ ~CloseLog(t, "misplaced", "unlock") /\ ~CloseLog(t, "drop", "disable")
           /\ ~Disable(t) /\ ~Connect(t) /\ ~Reset(t) /\ ~Reopen(t) /\ ~Reinit(t)
<1>1. pc[t] \notin {"misplaced", "drop", "disable", "connect", "reset", "reopen"}
  BY DEF OneFileInv, OneFile, Opening
<1> QED
  BY <1>1 DEF CloseLog, Disable, Connect, Reset, Reopen, Reinit, Publish, LeftAlone

\* No write fails.
LEMMA WriteKeepsOneFile ==
    ASSUME MutexInv, TypeInv, OneFileInv, NEW t \in Threads, Write(t)
    PROVE  OneFileInv'
<1>1. UNCHANGED <<process, medium, toUse, fd, fds, joined, spare>> /\ pc[t] = "write"
  BY DEF Write, shared
<1>2. CASE LeftAlone
  <2>1. fd \in LogFds /\ fds[fd] \in joined
    BY <1>1, <1>2 DEF OneFileInv, OneFile
  <2>2. Accepts(fd)
    BY <2>1, Numbers DEF Accepts, IsOpen, LogFds
  <2>3. Goto(t, "idle")
    BY <2>2 DEF Write
  <2> QED
    BY <1>1, <2>3, QuietKeepsOneFile DEF Opening, Labels
<1>3. CASE ~LeftAlone
  BY <1>1, <1>3 DEF OneFileInv, LeftAlone
<1> QED
  BY <1>2, <1>3

LEMMA NextOneFile ==
    MutexInv /\ TypeInv /\ OneFileInv /\ [Next]_vars => OneFileInv'
<1> SUFFICES ASSUME MutexInv, TypeInv, OneFileInv, [Next]_vars, LeftAlone PROVE OneFileInv'
  <2>1. [Next]_vars => UNCHANGED <<process, medium>>
    BY DEF Next, App, MediumFlips, vars, Step, Call, Test, Init_file_log, Check, Write, Reset, Reopen,
         Reinit, Lock, Recheck, Create, Place, Move, CloseLog, Settle, CloseOnExec, Connect,
         Disable, Unlock, Publish, env
  <2> QED
    BY <2>1 DEF OneFileInv, LeftAlone
<1> USE DEF Opening, Labels, LeftAlone
<1>1. ASSUME NEW t \in Threads, Call(t) PROVE OneFileInv'
  BY <1>1, QuietKeepsOneFile DEF Call, shared
<1>2. ASSUME NEW t \in Threads, Test(t) PROVE OneFileInv'
  <2>1. fd # Default => pc[t] = "test" /\ Goto(t, "check")
    BY <1>2 DEF Test
  <2>2. fd = Default => pc[t] = "test" /\ Goto(t, "lock")
    BY <1>2 DEF Test
  <2> QED
    BY <1>2, <2>1, <2>2, QuietKeepsOneFile DEF Test, shared, env
<1>3. ASSUME NEW t \in Threads, Lock(t) PROVE OneFileInv'
  BY <1>3, QuietKeepsOneFile DEF Lock, env
<1>4. ASSUME NEW t \in Threads, Recheck(t) PROVE OneFileInv'
  <2>1. fd # Default => Goto(t, "unlock")
    BY <1>4 DEF Recheck
  <2>2. fd = Default => Goto(t, "create")
    BY <1>4 DEF Recheck
  <2> QED
    BY <1>4, <2>1, <2>2, QuietKeepsOneFile DEF Recheck, shared, env
<1>5. ASSUME NEW t \in Threads, Unlock(t) PROVE OneFileInv'
  <2>1. fd # Default
    BY <1>5 DEF Unlock, OneFileInv, OneFile
  <2> QED
    BY <1>5, <2>1, QuietKeepsOneFile DEF Unlock, env
<1>6. ASSUME NEW t \in Threads, Check(t) PROVE OneFileInv'
  <2>1. fd # Default /\ pc[t] = "check"
    BY <1>6 DEF Check, OneFileInv, OneFile
  <2>2. fd < 0 => Goto(t, "idle")
    BY <1>6 DEF Check
  <2>3. ~(fd < 0) => Goto(t, "write") /\ fd # -1
    BY <1>6 DEF Check
  <2> QED
    BY <1>6, <2>1, <2>2, <2>3, QuietKeepsOneFile DEF Check, shared, env
<1>7. ASSUME NEW t \in Threads,
             Create(t) \/ Place(t) \/ Move(t) \/ Settle(t) \/ CloseLog(t, "closeLow", "settle")
               \/ CloseOnExec(t) \/ Write(t)
      PROVE  OneFileInv'
  BY <1>7, CreateKeepsOneFile, PlaceKeepsOneFile, PublishKeepsOneFile, CloseLowKeepsOneFile,
     CloseOnExecKeepsOneFile, WriteKeepsOneFile
<1>8. ~App
  BY DEF App
<1>9. CASE MediumFlips \/ UNCHANGED vars
  <2>1. UNCHANGED <<process, medium, toUse, fd, fds, joined, pc, spare>>
    BY <1>9 DEF MediumFlips, vars, locals
  <2>2. LogFds' = LogFds
    BY <2>1 DEF LogFds
  <2> QED
    BY <2>1, <2>2 DEF OneFileInv, OneFile
<1> QED
  BY <1>1, <1>2, <1>3, <1>4, <1>5, <1>6, <1>7, <1>8, <1>9, LostPathsClosed DEF Next, Step, Init_file_log

LEMMA InitOneFile == Init => OneFileInv
<1> SUFFICES ASSUME Init PROVE OneFileInv
  OBVIOUS
<1>1. LogFds = {}
  BY Numbers DEF Init, LogFds
<1>2. \A f \in Fds : fds[f] = AppFile => f = Default
  BY Numbers DEF Init
<1>3. \A t \in Threads : OneFile(t)
  BY DEF Init, OneFile, Opening
<1> QED
  BY <1>1, <1>2, <1>3 DEF Init, OneFileInv

\* However many threads print their first message at once, they open one log
\* file between them as long as the application leaves its descriptors alone.
THEOREM OneOpens == Spec => []OneLogFile
<1>1. OneFileInv => OneLogFile
  <2> SUFFICES ASSUME OneFileInv, LeftAlone PROVE Cardinality(Used \cap LogFiles) <= 1
    BY DEF OneLogFile, LeftAlone
  <2>1. \A x, y \in Used \cap LogFiles : x = y
    BY DEF OneFileInv, Used, LogFds
  <2>2. CASE Used \cap LogFiles = {}
    BY <2>2, FS_EmptySet
  <2>3. CASE Used \cap LogFiles # {}
    <3>1. PICK x : Used \cap LogFiles = {x}
      BY <2>1, <2>3
    <3> QED
      BY <3>1, FS_Singleton
  <2> QED
    BY <2>2, <2>3
<1>2. Init => MutexInv /\ TypeInv /\ OneFileInv
  BY InitType, InitOneFile DEF Init, MutexInv, LockHeld, Section, Labels
<1> QED
  BY <1>1, <1>2, NextMutex, NextType, NextOneFile, PTL DEF Spec

=============================================================================
