-------------------------- MODULE MCRefExperiment ---------------------------
(***************************************************************************)
(* Settings of ref.py: several graphs and realizations, several graphs     *)
(* with one realization, the Facebook graph; no figures, no models, no     *)
(* saving; two runs of one second; and lengths of training that the        *)
(* intervals divide or do not.  What the options identify is asked of      *)
(* the same settings, with one run.                                        *)
(***************************************************************************)
EXTENDS RefExperiment

Base == [archs |-> {"SelGNN"}, orders |-> {"deg"}, doFigs |-> TRUE, doSaveVars |-> TRUE,
         facebook |-> FALSE, graphs |-> 1, realizations |-> 1,
         epochs |-> 1, batches |-> 1, interval |-> 1, everyTrain |-> 1, everyValid |-> 1, mayShare |-> FALSE]

Loops == {[Base EXCEPT !.graphs = 2, !.realizations = 2, !.orders = {"deg", "crs"}],
          [Base EXCEPT !.graphs = 3, !.archs = {"SelGNN", "AggGNN"}, !.orders = {"eds"}],
          [Base EXCEPT !.realizations = 3, !.facebook = TRUE, !.archs = {"AggGNN"}, !.orders = {"spr"}]}

Options == {[Base EXCEPT !.doFigs = FALSE],
            [Base EXCEPT !.doFigs = FALSE, !.archs = {}],
            [Base EXCEPT !.archs = {"AggGNN"}, !.orders = {"crs"}],
            [Base EXCEPT !.doSaveVars = FALSE]}

Sharing == {[Base EXCEPT !.mayShare = TRUE],
            [Base EXCEPT !.mayShare = TRUE, !.graphs = 2]}

Figures == {[Base EXCEPT !.epochs = 2, !.batches = b, !.interval = v, !.everyTrain = t, !.everyValid = t] :
                b \in {3, 4}, v \in {1, 2, 3}, t \in {1, 2, 3}}

MCSettings == Loops \union Options \union Sharing \union Figures
=============================================================================
