---------------------------- MODULE MCKeySurface ----------------------------
EXTENDS KeySurface, TLC
CONSTANTS s1, s2, v1, v2
MCSessions == {s1, s2}
MCLists == {<<>>, <<s1>>, <<s1, s2>>}
MCViewOptions == <<v1, v2>>
Bind(f) == [k \in Keys |-> f[k + 1]]

FullDefault == [reduced |-> FALSE, strip |-> TRUE,
                bind |-> Bind(<<"session", "session", "session", "session">>)]
FullRemapped == [FullDefault EXCEPT
                 !.bind = Bind(<<"session", "session", "none", "page_last">>)]

\* 2 x 2 keys: VIEW top left, PREV bottom left, NEXT bottom right.
ReducedDefault == [reduced |-> TRUE, strip |-> FALSE,
                   bind |-> Bind(<<"view_picker", "session", "page_prev", "page_next">>)]
ReducedRemapped == [ReducedDefault EXCEPT
                      !.bind = Bind(<<"session", "session", "view_picker", "page_first">>)]
MCPlans == {FullDefault, FullRemapped, ReducedDefault, ReducedRemapped}

\* They are the plans that ControlPlan computes for a Stream Deck+ with fewer
\* keys and for a 2 x 2 grid, with and without bindings in config.json.
Plus == [keys |-> 4, rows |-> 1, cols |-> 4, dials |-> 2, touch |-> TRUE]
Grid == [keys |-> 4, rows |-> 2, cols |-> 2, dials |-> 0, touch |-> FALSE]

ASSUME PlansComputed ==
  LET K(k) == Catalog!Key(k) IN
  MCPlans = {Surface(Plus, <<>>), Surface(Grid, <<>>),
             Surface(Plus, K(2) :> "none" @@ K(3) :> "page_last"),
             Surface(Grid, K(0) :> "session" @@ K(2) :> "view_picker" @@ K(3) :> "page_first")}
=============================================================================
