---------------------------- MODULE SeqTraining ----------------------------
(***************************************************************************)
(* What the distributed training program promises: it behaves as one       *)
(* process with one model that, in every epoch, makes Steps updates,       *)
(* validates the result once, and keeps the best model in a file.          *)
(***************************************************************************)
EXTENDS Naturals, Sequences

CONSTANTS Steps, Epochs, Accuracies

VARIABLES
    updates,    \* optimizer steps applied to the model
    scores,     \* accuracy of the model after each validated epoch
    best,       \* best score so far, 0 at first
    file        \* the model file

vars == <<updates, scores, best, file>>

Unsaved(kind) == [kind |-> kind, epoch |-> 0, accuracy |-> 0, version |-> 0]

Init ==
    /\ updates = 0
    /\ scores = << >>
    /\ best = 0
    /\ file = Unsaved("absent")

\* Update the model once; only when all earlier epochs are validated and saved.
Update ==
    /\ updates < Epochs * Steps
    /\ updates < (Len(scores) + 1) * Steps
    /\ file.kind # "partial"
    /\ updates' = updates + 1
    /\ UNCHANGED <<scores, best, file>>

\* Validate the model at the end of an epoch.
Score(a) ==
    /\ updates = (Len(scores) + 1) * Steps
    /\ file.kind # "partial"
    /\ scores' = Append(scores, a)
    /\ best' = IF best < a THEN a ELSE best
    /\ file' = IF best < a THEN Unsaved("partial") ELSE file
    /\ UNCHANGED updates

\* Finish writing the model that was validated last.
Keep ==
    /\ file.kind = "partial"
    /\ file' = [kind |-> "saved", epoch |-> Len(scores) - 1, accuracy |-> best,
                version |-> updates]
    /\ UNCHANGED <<updates, scores, best>>

Next == Update \/ Keep \/ \E a \in Accuracies : Score(a)

Spec == Init /\ [][Next]_vars
============================================================================
