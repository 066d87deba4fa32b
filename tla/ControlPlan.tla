---------------------------- MODULE ControlPlan ----------------------------
(***************************************************************************)
(* What each control of a deck does: the catalog of actions and the        *)
(* grammar of addresses (controls.py), the two gates a configured binding  *)
(* passes (config.py for what the file alone decides, layout.py for what   *)
(* the deck at hand can do) and the plan computed from both.  A deck is    *)
(* its capabilities; an address is a control and its number.               *)
(***************************************************************************)
EXTENDS Integers, FiniteSets

\* ACTIONS by kind.
Relative == {"view_cycle", "page_cycle", "brightness_cycle"}
Momentary ==
  {"session", "view_picker", "page_picker", "target_picker", "page_prev", "page_next", "none",
   "view_all", "page_first", "page_last", "view_prev", "view_next", "focus_app",
   "refresh_now", "toggle_last", "brightness_up", "brightness_down"}
Actions == Relative \cup Momentary

\* key.N, dial.N.turn and dial.N.push
Address == [control : {"key", "turn", "push"}, index : Nat]
Key(n) == [control |-> "key", index |-> n]
Turn(n) == [control |-> "turn", index |-> n]
Push(n) == [control |-> "push", index |-> n]

\* read_capabilities
Capabilities ==
  {c \in [keys : Nat, rows : Nat, cols : Nat, dials : Nat, touch : BOOLEAN] :
     c.keys = c.rows * c.cols}

KeysOf(caps) == 0 .. (caps.keys - 1)
DialsOf(caps) == 0 .. (caps.dials - 1)
AddressesOf(caps) ==
  {Key(k) : k \in KeysOf(caps)} \cup {Turn(d) : d \in DialsOf(caps)}
    \cup {Push(d) : d \in DialsOf(caps)}

-----------------------------------------------------------------------------
\* Gate 1: _validate_controls refuses the whole file for one bad entry.

ValidActions(a) == (IF a.control = "turn" THEN Relative ELSE Momentary) \cup {"none"}

\* Defect: an action is only looked up in the catalog.
ValidBinding_AnyKind(a, action) == a \in Address /\ action \in Actions

ValidBinding(a, action) == a \in Address /\ action \in ValidActions(a)

ValidControls(controls) ==
  \A a \in DOMAIN controls : ValidBinding(a, controls[a])

-----------------------------------------------------------------------------
\* The defaults.

Full(caps) == caps.dials >= 2 /\ caps.touch

\* Defect: three columns hold VIEW, PREV and NEXT one key further on.
ReservedControlKeys_OffByOne(rows, cols) ==
  LET start == (rows - 1) * cols + 1
  IN IF cols = 3 /\ rows >= 2
     THEN [view |-> start + 1, prev |-> start, next |-> start + 2]
     ELSE [view |-> 0, prev |-> (rows - 1) * cols, next |-> rows * cols - 1]

\* VIEW, PREV and NEXT: the bottom row of three columns, or else three corners.
ReservedControlKeys(rows, cols) ==
  LET start == (rows - 1) * cols
  IN IF cols = 3 /\ rows >= 2
     THEN [view |-> start + 1, prev |-> start, next |-> start + 2]
     ELSE [view |-> 0, prev |-> start, next |-> rows * cols - 1]

\* The keys that control views and pages, none on FULL and degenerate decks.
ControlKeys(caps) ==
  LET r == ReservedControlKeys(caps.rows, caps.cols)
      three == {r.view, r.prev, r.next}
  IN IF Full(caps) \/ caps.keys < 4 \/ Cardinality(three) < 3 \/ ~(three \subseteq KeysOf(caps))
     THEN {} ELSE three

DefaultKey(caps, k) ==
  LET r == ReservedControlKeys(caps.rows, caps.cols)
  IN CASE k \notin ControlKeys(caps) -> "session"
       [] k \in ControlKeys(caps) /\ k = r.view -> "view_picker"
       [] k \in ControlKeys(caps) /\ k = r.prev -> "page_prev"
       [] k \in ControlKeys(caps) /\ k = r.next -> "page_next"

DefaultDial(caps, a) ==
  CASE Full(caps) /\ a = Turn(0) -> "view_cycle"
    [] Full(caps) /\ a = Push(0) -> "view_picker"
    [] Full(caps) /\ a = Turn(1) -> "page_cycle"
    [] Full(caps) /\ a = Push(1) -> "page_picker"
    [] OTHER -> "none"

DefaultBindings(caps) ==
  [a \in AddressesOf(caps) |->
     IF a.control = "key" THEN DefaultKey(caps, a.index) ELSE DefaultDial(caps, a)]

-----------------------------------------------------------------------------
\* Gate 2 and the plan.

\* Defect: a deck is taken to have a control with the number of its controls.
Applies_OffByOne(caps, a) ==
  a.index <= (IF a.control = "key" THEN caps.keys ELSE caps.dials)

\* _split_overrides: an index that this deck has.
Applies(caps, a) == a.index < (IF a.control = "key" THEN caps.keys ELSE caps.dials)

Bindings(caps, controls) ==
  LET applicable == {a \in DOMAIN controls : Applies(caps, a)}
  IN [a \in AddressesOf(caps) \cup applicable |->
        IF a \in applicable THEN controls[a] ELSE DefaultBindings(caps)[a]]

BoundActions(bindings) == {bindings[a] : a \in DOMAIN bindings}

\* Legal and self-defeating configurations.
Advisories(bindings) ==
  LET bound == BoundActions(bindings) IN
  {w \in {"no session", "picker not paged", "view fixed"} :
     \/ w = "no session" /\ "session" \notin bound
     \/ /\ w = "picker not paged" /\ "view_picker" \in bound
        /\ {"page_prev", "page_next", "page_cycle"} \cap bound = {}
     \/ w = "view fixed" /\ {"view_picker", "view_cycle", "view_all"} \cap bound = {}}

SessionSlots(bindings) ==
  {a.index : a \in {b \in DOMAIN bindings : b.control = "key" /\ bindings[b] = "session"}}

UseDials(bindings) ==
  \E a \in DOMAIN bindings : a.control # "key" /\ bindings[a] # "none"

PlanLayout(caps, controls) ==
  LET bindings == Bindings(caps, controls) IN
  [full |-> Full(caps),
   bindings |-> bindings,
   slots |-> SessionSlots(bindings),
   perPage |-> IF SessionSlots(bindings) = {} THEN 1 ELSE Cardinality(SessionSlots(bindings)),
   useDials |-> UseDials(bindings),
   unapplied |-> {a \in DOMAIN controls : ~Applies(caps, a)},
   advisories |-> Advisories(bindings)]

\* classify_key: the action of key k and, for a session key, its slot.
ClassifyKey(plan, k) ==
  IF Key(k) \notin DOMAIN plan.bindings THEN [action |-> "session", slot |-> -1]
  ELSE [action |-> plan.bindings[Key(k)],
        slot |-> IF k \in plan.slots THEN Cardinality({j \in plan.slots : j < k}) ELSE -1]
=============================================================================
