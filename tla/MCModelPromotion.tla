-------------------------- MODULE MCModelPromotion --------------------------
EXTENDS ModelPromotion

Both == {"u1", "u2"}
Served == [valid |-> Both, eval |-> Both, file |-> TRUE, export |-> TRUE,
           apiKey |-> FALSE, spot |-> {"batch", "ws"}, mlflow |-> TRUE,
           legacy |-> FALSE]

\* The usual one, and one for each thing that may be different.
MCSetups ==
    {Served,
     [Served EXCEPT !.valid = {"u1"}, !.mlflow = FALSE],
     [Served EXCEPT !.valid = {}, !.eval = {}, !.spot = {"ws"}],
     [Served EXCEPT !.valid = {"u1"}, !.eval = {"u2"}, !.apiKey = TRUE],
     [Served EXCEPT !.valid = {"u1"}, !.eval = {"u1"}, !.export = FALSE],
     [Served EXCEPT !.valid = {"u1"}, !.eval = {"u1"}, !.legacy = TRUE, !.spot = {}],
     [Served EXCEPT !.valid = {"u1"}, !.eval = {"u1"}, !.file = FALSE]}
=============================================================================
