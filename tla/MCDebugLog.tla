----------------------------- MODULE MCDebugLog -----------------------------
(***************************************************************************)
(* Processes with one printing thread and with two, whose application      *)
(* leaves descriptors alone or not.                                        *)
(***************************************************************************)
EXTENDS DebugLog

CONSTANTS t1, t2

Base == [threads |-> {t1}, media |-> {"process", "merged"}, placed |-> BOOLEAN,
         appActs |-> TRUE, mediumActs |-> TRUE]

\* One thread, with all that can happen around it or with an application that
\* touches no descriptor; two threads on a socket, the same; two threads on a
\* file that is left alone.
MCProcesses == {[Base EXCEPT !.media = Media],
                [Base EXCEPT !.appActs = FALSE],
                [Base EXCEPT !.threads = {t1, t2}, !.media = {"merged"}, !.placed = {TRUE}],
                [Base EXCEPT !.threads = {t1, t2}, !.media = {"process"}, !.appActs = FALSE]}

\* A race to the first message of a socket log, and nothing else.
Racing == {[Base EXCEPT !.threads = {t1, t2}, !.media = {"merged"},
                        !.appActs = FALSE, !.mediumActs = FALSE]}

\* The application acts, and the log has no number of its own.
Unplaced == {[Base EXCEPT !.placed = {FALSE}, !.mediumActs = FALSE]}
=============================================================================
