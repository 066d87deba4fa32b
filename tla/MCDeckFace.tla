----------------------------- MODULE MCDeckFace -----------------------------
EXTENDS DeckFace, TLC

Deck(rows, cols, knobs, strip) ==
  [keys |-> rows * cols, rows |-> rows, cols |-> cols, dials |-> knobs, touch |-> strip]

\* A Stream Deck+ with fewer keys, the three-column Mini, a row, and a 2 x 2 grid
\* with one dial and no strip.
MCDecks == {Deck(1, 2, 2, TRUE), Deck(2, 3, 0, FALSE), Deck(1, 3, 0, FALSE), Deck(2, 2, 1, FALSE)}

\* No bindings; keys and dials remapped, some beyond a small deck; every key
\* taken from the sessions; a dial of one kind given an action of the other.
NoControls == <<>>
MCFiles ==
  {NoControls,
   Key(1) :> "page_last" @@ Key(4) :> "session" @@ Turn(0) :> "page_cycle",
   Key(0) :> "session" @@ Push(0) :> "page_first" @@ Turn(2) :> "none",
   Turn(0) :> "none" @@ Push(0) :> "none" @@ Turn(1) :> "none" @@ Push(1) :> "none",
   Turn(0) :> "page_next"}

Id(n, d) == [name |-> n, device |-> d]
\* Two devices with a session of one name.
MCIds == {Id(2, "a"), Id(1, "a"), Id(1, "b")}
MCOrders ==
  {<<Id(2, "a"), Id(1, "a"), Id(1, "b")>>, <<Id(1, "b"), Id(2, "a"), Id(1, "a")>>}
Settings(hides, pinned, rule, new, alpha) ==
  [hidden |-> hides, pins |-> [v |-> pinned], rules |-> [v |-> rule],
   annotates |-> new, alphabetical |-> alpha]
\* A server of today that sorts by name, and an old one with a manual order and
\* bare names.
MCSettingsSets ==
  {Settings({}, {Id(1, "a")}, {2}, TRUE, TRUE),
   Settings({Id(2, "")}, {Id(1, ""), Id(2, "a")}, {}, FALSE, FALSE)}
MCViewNames == {"all", "v", "hidden", "w"}
MCBell == {[needs |-> FALSE, fired |-> 1], [needs |-> TRUE, fired |-> 2]}
=============================================================================
