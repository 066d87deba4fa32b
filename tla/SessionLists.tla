---------------------------- MODULE SessionLists ----------------------------
(***************************************************************************)
(* Which sessions a view shows and in which order: views.py and            *)
(* attention.py.  A session is a record of its name, the device it is on,  *)
(* its bell and the views the server says it is in; names are numbers, in  *)
(* the order of the alphabet.  A bell that never rang has fired at 0.      *)
(***************************************************************************)
EXTENDS Integers, Sequences, FiniteSets

\* A pin or a hidden entry is a session's name with its device, or the bare
\* name; both are matched by name alone.
MemberMatches(name, members) == \E m \in members : m.name = name

\* Defect: a session of which the server names no view is in none.
IsViewMember_ServerOnly(s, view, pins) == view \in s.views

\* The server's answer; its absence may mean that the server is too old.
IsViewMember(s, view, pins) ==
  IF s.views # {} THEN view \in s.views ELSE MemberMatches(s.name, pins)

Shows(settings, view, s) ==
  CASE view = "hidden" -> MemberMatches(s.name, settings.hidden)
    [] view = "all" -> ~MemberMatches(s.name, settings.hidden)
    [] view \in DOMAIN settings.pins \ {"all", "hidden"} ->
         /\ IsViewMember(s, view, settings.pins[view])
         /\ ~MemberMatches(s.name, settings.hidden)
    [] OTHER -> FALSE

-----------------------------------------------------------------------------
\* A list made of the elements at some positions of another, smaller keys
\* first, equals in their old order: Python's filters and sorts.  A sort with
\* reverse=True keeps that order too, so it is one by the opposite key.
Before(key, i, j) == key[i] < key[j] \/ (key[i] = key[j] /\ i < j)
Rank(at, key, i) == Cardinality({j \in at : Before(key, j, i)})
Arrange(list, at, key) ==
  [n \in 1 .. Cardinality(at) |-> list[CHOOSE i \in at : Rank(at, key, i) = n - 1]]

Same(list) == [i \in DOMAIN list |-> 0]
ByName(list) == [i \in DOMAIN list |-> list[i].name]
ByBell(list) == [i \in DOMAIN list |-> -list[i].fired]

ResolveView(sessions, settings, view) ==
  Arrange(sessions, {i \in DOMAIN sessions : Shows(settings, view, sessions[i])},
          IF settings.alphabetical THEN ByName(sessions) ELSE Same(sessions))

Needing(sessions) == {i \in DOMAIN sessions : sessions[i].needs}

\* Defect: the second tier starts from the whole list.
AttentionSort_Twice(sessions) ==
  Arrange(sessions, Needing(sessions), ByBell(sessions))
    \o Arrange(sessions, DOMAIN sessions, ByBell(sessions))

\* Defect: the second tier is by output, as it once was.
AttentionSort_ByActivity(sessions) ==
  Arrange(sessions, Needing(sessions), ByBell(sessions))
    \o Arrange(sessions, DOMAIN sessions \ Needing(sessions),
               [i \in DOMAIN sessions |-> IF sessions[i].busy THEN 0 ELSE 1])

\* apply_attention_sort: sessions that need attention, then the others, each
\* tier by its last bell.  The first tier is taken out of the list by name.
AttentionSort(sessions) ==
  LET names == {sessions[i].name : i \in Needing(sessions)}
      rest == {i \in DOMAIN sessions : sessions[i].name \notin names}
  IN Arrange(sessions, Needing(sessions), ByBell(sessions))
       \o Arrange(sessions, rest, ByBell(sessions))
=============================================================================
