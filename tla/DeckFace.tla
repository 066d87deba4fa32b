------------------------------ MODULE DeckFace ------------------------------
(***************************************************************************)
(* Which session is on which key, for any deck, configuration and server:  *)
(* the plan computed when a deck comes up and when config.json changes     *)
(* (ControlPlan), the order of the sessions each poll brings               *)
(* (SessionLists) and the pages it is cut into (Pager).  Painting, threads *)
(* and pickers are KeySurface's business; here every handler is one step.  *)
(***************************************************************************)
EXTENDS ControlPlan, SessionLists

CONSTANTS
  Decks,        \* capabilities of the decks that may be plugged in
  Files,        \* the `controls` that config.json may hold, good and bad
  Ids,          \* the sessions a server may have
  Orders,       \* the orders in which it may list them
  SettingsSets, \* its settings
  ViewNames,    \* its active views
  Bell,         \* what a session's bell may be when the deck starts
  MaxEvents     \* bound on what happens outside the deck

Ring == [needs : BOOLEAN, fired : Nat]

ASSUME FaceAssumption ==
  /\ Decks \subseteq Capabilities
  /\ IsFiniteSet(Ids) /\ Ids \subseteq [name : Nat, device : STRING]
  /\ \A o \in Orders :
       /\ o \in Seq(Ids) /\ Ids = {o[i] : i \in DOMAIN o}
       /\ \A i, j \in DOMAIN o : o[i] = o[j] => i = j
  /\ Bell \subseteq Ring
  /\ <<>> \in Files  \* nobody has bound anything yet
  /\ MaxEvents \in Nat

VARIABLES
  caps, controls, plan,
  dials,      \* the dial callback is registered
  byBell,     \* sort_mode is "attention"
  live,       \* the server's sessions
  listing,    \* the order it lists them in
  bells, busy, settings, view,
  ordered, page, pageCount,
  lastView,   \* last_seen_active_view, "" for None
  arranged,   \* history: what the last poll sorted by
  events

deckVars == <<caps, controls, plan, dials, byBell>>
serverVars == <<live, listing, bells, busy, settings, view>>
listVars == <<ordered, page, pageCount, lastView, arranged>>
vars == <<deckVars, serverVars, listVars, events>>

FaceTypeOK ==
  /\ caps \in Decks /\ controls \in Files /\ ValidControls(controls)
  /\ plan = PlanLayout(caps, controls)
  /\ dials \in BOOLEAN /\ byBell \in BOOLEAN
  /\ live \subseteq Ids /\ listing \in Orders /\ bells \in [Ids -> Ring] /\ busy \in SUBSET Ids
  /\ settings \in SettingsSets /\ view \in ViewNames /\ lastView \in ViewNames \cup {""}
  /\ Len(ordered) \in Nat /\ DOMAIN ordered = 1 .. Len(ordered)
  /\ \A i \in DOMAIN ordered : [name |-> ordered[i].name, device |-> ordered[i].device] \in Ids
  /\ pageCount \in Nat \ {0} /\ page \in 1 .. pageCount
  /\ arranged.byBell \in BOOLEAN /\ arranged.listing \in Orders
  /\ events \in 0 .. MaxEvents

-----------------------------------------------------------------------------
\* Pager.

\* Defect: a last page that is not full is forgotten.
PagesFor_Floor(count, size) == IF count < size THEN 1 ELSE count \div size

PagesFor(count, size) == IF count = 0 THEN 1 ELSE (count + size - 1) \div size

AtMost(n, high) == IF n > high THEN high ELSE n
Clamp(n) == IF n < 1 THEN 1 ELSE AtMost(n, pageCount)

\* Defect: the page stays where it was when there are fewer.
SetItemCount_NoClamp(count, size, from) ==
  pageCount' = PagesFor(count, size) /\ page' = from

SetItemCount(count, size, from) ==
  /\ pageCount' = PagesFor(count, size)
  /\ page' = AtMost(from, PagesFor(count, size))

-----------------------------------------------------------------------------
\* The server.

\* An entry names a session by its name, alone or with the device it is on.
Names(m, id) == m.name = id.name /\ m.device \in {"", id.device}

\* What it says of a session: a server of today names the views a session is
\* pinned to or matched by, an old one none.
ServerViews(id) ==
  IF settings.annotates
  THEN {v \in DOMAIN settings.pins :
          (\E m \in settings.pins[v] : Names(m, id)) \/ id.name \in settings.rules[v]}
  ELSE {}

Describe(id) ==
  [name |-> id.name, device |-> id.device, needs |-> bells[id].needs,
   fired |-> bells[id].fired, busy |-> id \in busy, views |-> ServerViews(id)]

Listed ==
  Arrange([i \in DOMAIN listing |-> Describe(listing[i])],
          {i \in DOMAIN listing : listing[i] \in live}, Same(listing))

Latest == CHOOSE t \in {bells[id].fired : id \in Ids} : \A id \in Ids : bells[id].fired <= t

Rings(id) ==
  /\ id \in live
  /\ bells' = [bells EXCEPT ![id] = [needs |-> TRUE, fired |-> Latest + 1]]
  /\ UNCHANGED <<live, listing, busy, settings, view>>

Attended(id) ==
  /\ bells[id].needs
  /\ bells' = [bells EXCEPT ![id].needs = FALSE]
  /\ UNCHANGED <<live, listing, busy, settings, view>>

ComesOrGoes(id) ==
  /\ live' = (live \ {id}) \cup ({id} \ live)
  /\ bells' = [bells EXCEPT ![id] = [needs |-> FALSE, fired |-> 0]]
  /\ UNCHANGED <<listing, busy, settings, view>>

Works(id) ==
  /\ busy' = (busy \ {id}) \cup ({id} \ busy)
  /\ UNCHANGED <<live, listing, bells, settings, view>>

Reorders(o) == listing' = o /\ UNCHANGED <<live, bells, busy, settings, view>>

ChangesView(v) == view' = v /\ UNCHANGED <<live, listing, bells, busy, settings>>

ChangesSettings(st) == settings' = st /\ UNCHANGED <<live, listing, bells, busy, view>>

ServerStep ==
  /\ events < MaxEvents /\ events' = events + 1
  /\ \/ \E id \in Ids : Rings(id) \/ Attended(id) \/ ComesOrGoes(id) \/ Works(id)
     \/ \E o \in Orders : Reorders(o)
     \/ \E v \in ViewNames : ChangesView(v)
     \/ \E st \in SettingsSets : ChangesSettings(st)
  /\ UNCHANGED <<deckVars, listVars>>

-----------------------------------------------------------------------------
\* The deck.

\* What a poll sorts by.
Arrangement ==
  [byBell |-> byBell, alphabetical |-> settings.alphabetical, listing |-> listing]

Init ==
  /\ caps \in Decks
  /\ controls = <<>>
  /\ plan = PlanLayout(caps, controls) /\ dials = plan.useDials
  /\ byBell \in BOOLEAN
  /\ live = Ids /\ listing \in Orders /\ bells \in [Ids -> Bell] /\ busy = {}
  /\ settings \in SettingsSets /\ view \in ViewNames
  /\ ordered = <<>> /\ page = 1 /\ pageCount = 1 /\ lastView = ""
  /\ arranged = Arrangement
  /\ events = 0

\* _run_active with another deck, or the same one again.
BringUp(c) ==
  /\ events < MaxEvents /\ events' = events + 1
  /\ caps' = c
  /\ plan' = PlanLayout(c, controls) /\ dials' = plan'.useDials
  /\ ordered' = <<>> /\ page' = 1 /\ pageCount' = 1 /\ lastView' = ""
  /\ UNCHANGED <<controls, byBell, serverVars, arranged>>

\* An edit of config.json that load_config accepts, and apply_reload; the order
\* is left to the next poll.
ApplyReload(file) ==
  /\ events < MaxEvents /\ events' = events + 1
  /\ ValidControls(file)
  /\ controls' = file
  /\ plan' = PlanLayout(caps, file)
  /\ byBell' \in BOOLEAN
  /\ SetItemCount(Len(ordered), plan'.perPage, page)
  /\ UNCHANGED <<caps, dials, serverVars, ordered, lastView, arranged>>

\* refresh and _process
Poll ==
  /\ LET shown == ResolveView(Listed, settings, view)
     IN ordered' = IF byBell THEN AttentionSort(shown) ELSE shown
  /\ lastView' = view /\ arranged' = Arrangement
  /\ SetItemCount(Len(ordered'), plan.perPage, IF lastView \in {"", view} THEN page ELSE 1)
  /\ UNCHANGED <<deckVars, serverVars, events>>

Moves(n) ==
  /\ page' = Clamp(n)
  /\ UNCHANGED <<deckVars, serverVars, ordered, pageCount, lastView, arranged, events>>

\* The actions that page, bound to a key or a dial's push.
Pages(action) ==
  \/ action = "page_prev" /\ Moves(page - 1)
  \/ action = "page_next" /\ Moves(page + 1)
  \/ action = "page_first" /\ Moves(1)
  \/ action = "page_last" /\ Moves(pageCount)

PressKey(k) == Pages(ClassifyKey(plan, k).action)
PushDial(d) == dials /\ Pages(plan.bindings[Push(d)])
TurnDial(d, ticks) == dials /\ plan.bindings[Turn(d)] = "page_cycle" /\ Moves(page + ticks)

DeckStep ==
  \/ Poll
  \/ \E c \in Decks : BringUp(c)
  \/ \E file \in Files : ApplyReload(file)
  \/ \E k \in KeysOf(caps) : PressKey(k)
  \/ \E d \in DialsOf(caps) : PushDial(d) \/ \E ticks \in {-1, 1} : TurnDial(d, ticks)

Next == ServerStep \/ DeckStep

Spec == Init /\ [][Next]_vars

-----------------------------------------------------------------------------
\* Properties

\* The session that key k connects on page p, as a position in the order.
Position(p, k) == (p - 1) * plan.perPage + ClassifyKey(plan, k).slot + 1
ConnectsFrom(p, k) ==
  ClassifyKey(plan, k).action = "session" /\ ClassifyKey(plan, k).slot >= 0

\* Every listed session is on exactly one key of exactly one page, whatever
\* reloads move the slots and whatever lists polls bring; the keys are the
\* deck's (layout.py, plan_layout and classify_key; interaction.py, Pager).
SessionsPlaced ==
  plan.slots # {} =>
    \A n \in DOMAIN ordered :
      \E p \in 1 .. pageCount, k \in KeysOf(caps) :
        /\ ConnectsFrom(p, k) /\ Position(p, k) = n
        /\ \A q \in 1 .. pageCount, j \in KeysOf(caps) :
             ConnectsFrom(q, j) /\ Position(q, j) = n => q = p /\ j = k

\* A binding of config.json is in force on a control of this deck, or it is
\* reported as one the deck has no control for; all other controls keep their
\* defaults (layout.py, _split_overrides).
BindingsAccounted ==
  /\ \A a \in DOMAIN controls :
       IF a \in AddressesOf(caps)
       THEN a \notin plan.unapplied /\ plan.bindings[a] = controls[a]
       ELSE a \in plan.unapplied /\ a \notin DOMAIN plan.bindings
  /\ \A a \in AddressesOf(caps) \ DOMAIN controls : plan.bindings[a] = DefaultBindings(caps)[a]

\* A deck nobody configured shows sessions, and one of two rows and columns, or
\* with dials and a strip, can reach every page and every view without a
\* warning (layout.py, default_bindings and _advisories).
FreshDeckWorks ==
  controls = <<>> =>
    /\ plan.slots # {}
    /\ (caps.rows >= 2 /\ caps.cols >= 2) \/ Full(caps) =>
         /\ plan.advisories = {}
         /\ \/ {"page_prev", "page_next"} \subseteq {plan.bindings[Key(k)] : k \in KeysOf(caps)}
            \/ plan.useDials /\ "page_cycle" \in BoundActions(plan.bindings)

\* Whatever is edited, reloaded and plugged in, no turn of a dial drives an
\* action that wants a press, and no press one that wants ticks (config.py,
\* _validate_controls).
KindsRespected ==
  \A a \in DOMAIN plan.bindings :
    plan.bindings[a] = "none" \/ (plan.bindings[a] \in Relative <=> a.control = "turn")

IdOf(s) == [name |-> s.name, device |-> s.device]
Visible == {s \in {Listed[i] : i \in DOMAIN Listed} : Shows(settings, view, s)}

\* A session that needs nothing shares its name with one that needs attention:
\* the case in which apply_attention_sort, which takes its first tier out of the
\* list by name, loses a session it is to put in the second (attention.py:3-9
\* and 67-69).
Loses == byBell /\ \E s, t \in Visible : s.needs /\ ~t.needs /\ s.name = t.name

\* But for that, a poll lists each session that the view shows, and each once,
\* those that need attention first and the last bell first (attention.py,
\* apply_attention_sort; views.py, resolve_view).
OrderHonest ==
  [][Poll /\ ~Loses =>
       /\ {ordered'[i] : i \in DOMAIN ordered'} = Visible
       /\ \A i, j \in DOMAIN ordered' : i < j =>
            /\ ordered'[i] # ordered'[j]
            /\ byBell => \/ ordered'[i].needs /\ ~ordered'[j].needs
                         \/ /\ ordered'[i].needs = ordered'[j].needs
                            /\ ordered'[i].fired >= ordered'[j].fired
    ]_vars

SameBell(s, t) == IdOf(s) = IdOf(t) /\ s.needs = t.needs /\ s.fired = t.fired

\* What decides between s and t is as it was at the last poll: the bells, of a
\* deck that sorts by them, or else the server's sort_order and its own order.
SameRule(s, t) ==
  /\ arranged.byBell <=> byBell
  /\ \/ byBell /\ (s.needs # t.needs \/ s.fired # t.fired)
     \/ arranged = Arrangement

\* Two sessions change places between polls only when a bell of theirs changed
\* or a setting that orders them: output, the active session, other sessions,
\* hiding and pinning do not reorder the keys under the user's finger, nor does
\* the server where bells decide (attention.py:10-18).
OrderSteady ==
  [][Poll =>
       \A i, j \in DOMAIN ordered, m, n \in DOMAIN ordered' :
         (/\ i < j /\ SameBell(ordered[i], ordered'[m]) /\ SameBell(ordered[j], ordered'[n])
          /\ SameRule(ordered[i], ordered[j]))
           => m < n
    ]_vars

NoNamesakes ==
  \A id \in live :
    /\ \A other \in live : other.name = id.name => other = id
    /\ \A m \in settings.hidden \cup UNION {settings.pins[v] : v \in DOMAIN settings.pins} :
         m.name = id.name => Names(m, id)

InView(id) ==
  LET hidden == \E m \in settings.hidden : Names(m, id)
  IN CASE view = "hidden" -> hidden
       [] view = "all" -> ~hidden
       [] view \in DOMAIN settings.pins \ {"all", "hidden"} ->
            /\ ~hidden
            /\ \/ \E m \in settings.pins[view] : Names(m, id)
               \/ settings.annotates /\ id.name \in settings.rules[view]
       [] OTHER -> FALSE

\* Where no two devices have sessions of one name, the deck shows exactly what
\* the server has in the view, whether the server resolves views or is too old
\* to, and however it writes its entries (views.py, _is_view_member).
ViewTruthful ==
  [][Poll /\ NoNamesakes =>
       {IdOf(ordered'[i]) : i \in DOMAIN ordered'} = {id \in live : InView(id)}]_vars
=============================================================================
