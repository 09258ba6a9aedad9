------------------------------- MODULE MCVlog -------------------------------
\* The instances of Vlog that TLC checks.
EXTENDS Vlog

\* Two lives of the daemon with many messages, a log file that may grow, and
\* nobody at the listeners; or one life with two connections to each of them, or
\* one life with a redirected log and one connection to each.
MCLoads ==
    [msgs : {4}, runs : {2}, requests : {0}, redirected : BOOLEAN]
        \union {[msgs |-> 2, runs |-> 1, requests |-> 2, redirected |-> FALSE],
                [msgs |-> 2, runs |-> 1, requests |-> 1, redirected |-> TRUE]}

\* A second life with a second message.
MCRestart == {[msgs |-> 2, runs |-> 2, requests |-> 0, redirected |-> FALSE]}
=============================================================================
