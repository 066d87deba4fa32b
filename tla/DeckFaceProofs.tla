--------------------------- MODULE DeckFaceProofs ---------------------------
(***************************************************************************)
(* What a plan guarantees for any decks, files, servers and number of      *)
(* events: bindings are in force or reported, kinds are respected, and a   *)
(* deck that nobody configured works.  Only three handlers touch the plan, *)
(* and each computes it anew, so most of the work is about PlanLayout.     *)
(***************************************************************************)
EXTENDS DeckFace, SessionListsProofs

\* The plan is the one of this deck and of valid bindings.
PlanCurrent ==
  /\ caps \in Decks /\ ValidControls(controls)
  /\ plan = PlanLayout(caps, controls)

LEMMA NothingBound == DOMAIN << >> = {}
<1>1. << >> \in Seq({}) /\ Len(<< >>) = 0
  BY EmptySeq
<1>2. DOMAIN << >> = 1 .. 0
  BY <1>1, LenProperties
<1>3. QED
  BY <1>2

LEMMA ThreeApart ==
  ASSUME NEW x, NEW y, NEW z, x # y, x # z, y # z
  PROVE  Cardinality({x, y, z}) = 3
<1>1. IsFiniteSet({x}) /\ Cardinality({x}) = 1
  BY FS_Singleton
<1>2. IsFiniteSet({x} \cup {y}) /\ Cardinality({x} \cup {y}) = 2
  BY <1>1, FS_AddElement
<1>3. Cardinality(({x} \cup {y}) \cup {z}) = 3
  BY <1>2, FS_AddElement
<1>4. {x, y, z} = ({x} \cup {y}) \cup {z}
  OBVIOUS
<1>5. QED
  BY <1>3, <1>4

LEMMA PlanInit == Init => PlanCurrent
<1> SUFFICES ASSUME Init PROVE PlanCurrent
  OBVIOUS
<1>1. DOMAIN controls = {}
  <2>1. controls = << >>
    BY DEF Init
  <2>2. QED
    BY <2>1, NothingBound
<1>2. QED
  BY <1>1 DEF Init, PlanCurrent, ValidControls

LEMMA PlanStep == PlanCurrent /\ [Next]_vars => PlanCurrent'
<1> SUFFICES ASSUME PlanCurrent, [Next]_vars PROVE PlanCurrent'
  OBVIOUS
<1>1. ASSUME UNCHANGED <<caps, controls, plan>> PROVE PlanCurrent'
  BY <1>1 DEF PlanCurrent, ValidControls
<1>2. CASE UNCHANGED vars \/ ServerStep
  BY <1>1, <1>2 DEF vars, deckVars, ServerStep
<1>3. CASE Poll
  BY <1>1, <1>3 DEF Poll, deckVars
<1>4. ASSUME NEW n, Moves(n) PROVE PlanCurrent'
  BY <1>1, <1>4 DEF Moves, deckVars
<1>5. ASSUME NEW action, Pages(action) PROVE PlanCurrent'
  BY <1>4, <1>5 DEF Pages
<1>6. ASSUME NEW c \in Decks, BringUp(c) PROVE PlanCurrent'
  BY <1>6 DEF BringUp, PlanCurrent, ValidControls
<1>7. ASSUME NEW file \in Files, ApplyReload(file) PROVE PlanCurrent'
  BY <1>7 DEF ApplyReload, PlanCurrent, ValidControls
<1>8. CASE \E k \in KeysOf(caps) : PressKey(k)
  BY <1>5, <1>8 DEF PressKey
<1>9. CASE \E d \in DialsOf(caps) : PushDial(d) \/ \E ticks \in {-1, 1} : TurnDial(d, ticks)
  BY <1>4, <1>5, <1>9 DEF PushDial, TurnDial
<1>10. QED
  BY <1>2, <1>3, <1>6, <1>7, <1>8, <1>9 DEF Next, DeckStep

LEMMA PlanAlways == Spec => []PlanCurrent
<1>1. QED
  BY PlanInit, PlanStep, PTL DEF Spec

-----------------------------------------------------------------------------
\* An address is one of the deck's controls when its index is in range.
LEMMA AppliesToOwn ==
  ASSUME NEW c \in Capabilities, NEW a \in Address
  PROVE  Applies(c, a) <=> a \in AddressesOf(c)
<1>1. c.keys \in Nat /\ c.dials \in Nat
  BY DEF Capabilities
<1>2. a.index \in Nat /\ a.control \in {"key", "turn", "push"} /\ a = [control |-> a.control, index |-> a.index]
  BY DEF Address
<1>3. CASE a.control = "key"
  BY <1>1, <1>2, <1>3 DEF Applies, AddressesOf, Key, Turn, Push, KeysOf, DialsOf
<1>4. CASE a.control = "turn"
  BY <1>1, <1>2, <1>4 DEF Applies, AddressesOf, Key, Turn, Push, KeysOf, DialsOf
<1>5. CASE a.control = "push"
  BY <1>1, <1>2, <1>5 DEF Applies, AddressesOf, Key, Turn, Push, KeysOf, DialsOf
<1>6. QED
  BY <1>2, <1>3, <1>4, <1>5

\* What a plan's bindings are made of.
LEMMA BindingsOf ==
  ASSUME NEW c \in Capabilities, NEW ctrls, ValidControls(ctrls)
  PROVE  /\ DOMAIN Bindings(c, ctrls) = AddressesOf(c)
         /\ \A a \in AddressesOf(c) :
              Bindings(c, ctrls)[a] = IF a \in DOMAIN ctrls THEN ctrls[a] ELSE DefaultBindings(c)[a]
<1>1. \A a \in DOMAIN ctrls : Applies(c, a) <=> a \in AddressesOf(c)
  BY AppliesToOwn DEF ValidControls, ValidBinding
<1>2. QED
  BY <1>1 DEF Bindings

\* Every binding of a valid file is in force or reported, and nothing else is
\* overridden, on every deck (layout.py, _split_overrides).
THEOREM BindingsAlwaysAccounted == Spec => []BindingsAccounted
<1>1. ASSUME PlanCurrent PROVE BindingsAccounted
  <2>1. caps \in Capabilities /\ ValidControls(controls)
    BY <1>1, FaceAssumption DEF PlanCurrent
  <2>2. /\ plan.bindings = Bindings(caps, controls)
        /\ plan.unapplied = {a \in DOMAIN controls : ~Applies(caps, a)}
    BY <1>1 DEF PlanCurrent, PlanLayout
  <2>3. \A a \in DOMAIN controls : Applies(caps, a) <=> a \in AddressesOf(caps)
    BY <2>1, AppliesToOwn DEF ValidControls, ValidBinding
  <2>4. QED
    BY <2>1, <2>2, <2>3, BindingsOf DEF BindingsAccounted
<1>2. QED
  BY <1>1, PlanAlways, PTL

-----------------------------------------------------------------------------
\* A default is of the kind of its control.
LEMMA DefaultKinds ==
  ASSUME NEW c \in Capabilities, NEW a \in AddressesOf(c)
  PROVE  /\ a.control \in {"key", "turn", "push"}
         /\ DefaultBindings(c)[a] \in ValidActions(a)
<1>1. a.control \in {"key", "turn", "push"}
  BY DEF AddressesOf, Key, Turn, Push
<1>2. CASE a.control = "key"
  <2>1. DefaultKey(c, a.index) \in {"session", "view_picker", "page_prev", "page_next"}
    BY DEF DefaultKey, ControlKeys
  <2>2. QED
    BY <1>2, <2>1 DEF DefaultBindings, ValidActions, Momentary
<1>3. CASE a.control # "key"
  <2>1. DefaultBindings(c)[a] = DefaultDial(c, a)
    BY <1>3 DEF DefaultBindings
  <2>2. CASE a.control = "turn"
    BY <2>1, <2>2 DEF DefaultDial, ValidActions, Relative, Turn, Push
  <2>3. CASE a.control = "push"
    BY <2>1, <2>3 DEF DefaultDial, ValidActions, Momentary, Turn, Push
  <2>4. QED
    BY <1>1, <1>3, <2>2, <2>3
<1>4. QED
  BY <1>1, <1>2, <1>3

\* Whatever is edited, reloaded and plugged in, no turn drives an action for a
\* press and no press one for ticks (config.py, _validate_controls).
THEOREM KindsAlwaysRespected == Spec => []KindsRespected
<1>1. ASSUME PlanCurrent PROVE KindsRespected
  <2>1. caps \in Capabilities /\ ValidControls(controls)
    BY <1>1, FaceAssumption DEF PlanCurrent
  <2>2. plan.bindings = Bindings(caps, controls)
    BY <1>1 DEF PlanCurrent, PlanLayout
  <2>3. ASSUME NEW a \in AddressesOf(caps)
        PROVE  plan.bindings[a] \in ValidActions(a) /\ a.control \in {"key", "turn", "push"}
    BY <2>1, <2>2, BindingsOf, DefaultKinds DEF ValidControls, ValidBinding
  <2>4. DOMAIN plan.bindings = AddressesOf(caps)
    BY <2>1, <2>2, BindingsOf
  <2>5. QED
    BY <2>3, <2>4 DEF KindsRespected, ValidActions, Relative, Momentary
<1>2. QED
  BY <1>1, PlanAlways, PTL

-----------------------------------------------------------------------------
\* On a deck that is not FULL and has two rows and columns, VIEW, PREV and NEXT
\* are three of its keys, and there are others.
LEMMA GridControls ==
  ASSUME NEW c \in Capabilities, ~Full(c), c.rows >= 2, c.cols >= 2
  PROVE  LET r == ReservedControlKeys(c.rows, c.cols) IN
         /\ ControlKeys(c) = {r.view, r.prev, r.next}
         /\ r.view # r.prev /\ r.view # r.next /\ r.prev # r.next
         /\ {r.view, r.prev, r.next} \subseteq KeysOf(c)
<1> DEFINE P == (c.rows - 1) * c.cols
           C == c.cols
           r == ReservedControlKeys(c.rows, c.cols)
<1>1. c.rows \in Nat /\ C \in Nat /\ c.keys = c.rows * C
  BY DEF Capabilities
<1>2. P \in Nat /\ P >= C /\ c.keys = P + C
  <2>1. \A m, n \in Nat : m >= 2 /\ n >= 2 =>
          (m - 1) * n \in Nat /\ (m - 1) * n >= n /\ m * n = (m - 1) * n + n
    OBVIOUS
  <2>2. QED
    BY <1>1, <2>1
<1> HIDE DEF P
<1> DEFINE Apart == /\ {r.view, r.prev, r.next} \subseteq 0 .. (P + C - 1)
                    /\ r.view # r.prev /\ r.view # r.next /\ r.prev # r.next
<1>3. ASSUME C = 3 PROVE Apart
  <2>1. r = [view |-> P + 1, prev |-> P, next |-> P + 2]
    BY <1>3 DEF ReservedControlKeys, P
  <2>2. QED
    BY <1>2, <1>3, <2>1
<1>4. ASSUME C # 3 PROVE Apart
  <2>1. r = [view |-> 0, prev |-> P, next |-> c.rows * c.cols - 1]
    BY <1>4 DEF ReservedControlKeys, P
  <2>2. QED
    BY <1>1, <1>2, <1>4, <2>1
<1>5. Apart
  BY <1>3, <1>4
<1>6. {r.view, r.prev, r.next} \subseteq KeysOf(c) /\ c.keys >= 4
  BY <1>1, <1>2, <1>5 DEF KeysOf
<1>7. Cardinality({r.view, r.prev, r.next}) = 3
  BY <1>5, ThreeApart
<1>8. ControlKeys(c) = {r.view, r.prev, r.next}
  <2>1. ~(c.keys < 4)
    BY <1>2, <1>6 DEF Capabilities
  <2>2. ~(Cardinality({r.view, r.prev, r.next}) < 3)
    BY <1>7
  <2>3. QED
    BY <1>6, <2>1, <2>2, Zenon DEF ControlKeys
<1>9. QED
  BY <1>5, <1>6, <1>8

\* Sessions have a key on every deck that has one.
LEMMA SessionsHaveKeys ==
  ASSUME NEW c \in Capabilities, c.keys > 0
  PROVE  \E k \in KeysOf(c) : DefaultKey(c, k) = "session"
<1> DEFINE r == ReservedControlKeys(c.rows, c.cols)
<1>1. ControlKeys(c) = {} \/ (ControlKeys(c) = {r.view, r.prev, r.next} /\ ~(c.keys < 4))
  BY DEF ControlKeys
<1>2. c.keys \in Nat
  BY DEF Capabilities
<1>3. \E k \in KeysOf(c) : k \notin ControlKeys(c)
  <2>1. CASE ControlKeys(c) = {}
    BY <1>2, <2>1 DEF KeysOf
  <2>2. CASE ControlKeys(c) = {r.view, r.prev, r.next} /\ ~(c.keys < 4)
    <3> HIDE DEF r
    <3>1. {0, 1, 2, 3} \subseteq KeysOf(c)
      BY <1>2, <2>2 DEF KeysOf
    <3>2. \E k \in {0, 1, 2, 3} : k \notin {r.view, r.prev, r.next}
      OBVIOUS
    <3>3. QED
      BY <2>2, <3>1, <3>2
  <2>3. QED
    BY <1>1, <2>1, <2>2
<1>4. QED
  BY <1>3 DEF DefaultKey

\* What nobody configured is bound as the defaults say.
LEMMA FreshBindings ==
  ASSUME PlanCurrent, controls = << >>
  PROVE  /\ caps \in Capabilities /\ plan.bindings = DefaultBindings(caps)
         /\ DOMAIN plan.bindings = AddressesOf(caps)
<1>1. caps \in Capabilities /\ plan.bindings = Bindings(caps, controls) /\ ValidControls(controls)
  BY FaceAssumption DEF PlanCurrent, PlanLayout
<1>2. DOMAIN controls = {}
  BY NothingBound
<1>3. QED
  BY <1>1, <1>2, BindingsOf DEF Bindings, DefaultBindings

\* A deck with keys that nobody configured shows sessions; with two rows and
\* columns, or dials and a strip, it reaches every page and view without a
\* warning (layout.py, default_bindings and _advisories).
THEOREM FreshDecksWork ==
  ASSUME \A c \in Decks : c.keys > 0
  PROVE  Spec => []FreshDeckWorks
<1>1. ASSUME PlanCurrent, controls = << >> PROVE FreshDeckWorks
  <2> DEFINE b == plan.bindings
             r == ReservedControlKeys(caps.rows, caps.cols)
  <2>1. caps \in Capabilities /\ b = DefaultBindings(caps) /\ DOMAIN b = AddressesOf(caps) /\ caps.keys > 0
    BY <1>1, FreshBindings DEF PlanCurrent
  <2>2. /\ plan.slots = SessionSlots(b) /\ plan.advisories = Advisories(b)
        /\ plan.useDials = UseDials(b)
    BY <1>1 DEF PlanCurrent, PlanLayout
  <2> HIDE DEF b, r
  <2>3. \A k \in KeysOf(caps) : Key(k) \in DOMAIN b /\ b[Key(k)] = DefaultKey(caps, k)
    BY <2>1 DEF AddressesOf, DefaultBindings, Key
  <2>4. \A a \in DOMAIN b : b[a] \in BoundActions(b)
    BY DEF BoundActions
  <2>5. PICK k \in KeysOf(caps) : Key(k) \in DOMAIN b /\ b[Key(k)] = "session"
    BY <2>1, <2>3, SessionsHaveKeys
  <2>6. plan.slots # {} /\ "session" \in BoundActions(b)
    <3>1. Key(k).index = k /\ Key(k).control = "key"
      BY DEF Key
    <3>2. Key(k) \in {a \in DOMAIN b : a.control = "key" /\ b[a] = "session"}
      BY <2>5, <3>1
    <3>3. QED
      BY <2>2, <2>4, <2>5, <3>2 DEF SessionSlots
  <2>7. ASSUME ~Full(caps), caps.rows >= 2, caps.cols >= 2
        PROVE  /\ plan.advisories = {}
               /\ {"page_prev", "page_next"} \subseteq {b[Key(j)] : j \in KeysOf(caps)}
    <3>1. /\ ControlKeys(caps) = {r.view, r.prev, r.next}
          /\ r.view # r.prev /\ r.view # r.next /\ r.prev # r.next
          /\ {r.view, r.prev, r.next} \subseteq KeysOf(caps)
      BY <2>1, <2>7, GridControls DEF r
    <3>2. /\ DefaultKey(caps, r.view) = "view_picker" /\ DefaultKey(caps, r.prev) = "page_prev"
          /\ DefaultKey(caps, r.next) = "page_next"
      BY <3>1 DEF DefaultKey, r
    <3>3. /\ b[Key(r.view)] = "view_picker" /\ b[Key(r.prev)] = "page_prev" /\ b[Key(r.next)] = "page_next"
          /\ Key(r.view) \in DOMAIN b /\ Key(r.prev) \in DOMAIN b
      BY <2>3, <3>1, <3>2
    <3>4. {"view_picker", "page_prev"} \subseteq BoundActions(b)
      BY <2>4, <3>3
    <3>5. QED
      BY <2>2, <2>6, <3>1, <3>3, <3>4 DEF Advisories
  <2>8. ASSUME Full(caps)
        PROVE  plan.advisories = {} /\ plan.useDials /\ "page_cycle" \in BoundActions(b)
    <3>1. {0, 1} \subseteq DialsOf(caps)
      BY <2>1, <2>8 DEF Full, DialsOf, Capabilities
    <3>2. Turn(0) \in DOMAIN b /\ Turn(1) \in DOMAIN b /\ Push(0) \in DOMAIN b
      BY <2>1, <3>1 DEF AddressesOf
    <3>3. b[Turn(0)] = "view_cycle" /\ b[Turn(1)] = "page_cycle" /\ b[Push(0)] = "view_picker"
      BY <2>1, <2>8, <3>2 DEF DefaultBindings, DefaultDial, Turn, Push
    <3>4. {"view_cycle", "page_cycle", "view_picker"} \subseteq BoundActions(b)
      BY <2>4, <3>2, <3>3
    <3>5. UseDials(b)
      BY <3>2, <3>3 DEF UseDials, Turn
    <3>6. QED
      BY <2>2, <2>6, <3>4, <3>5 DEF Advisories
  <2>9. QED
    BY <2>6, <2>7, <2>8 DEF FreshDeckWorks, b
<1>2. ASSUME PlanCurrent PROVE FreshDeckWorks
  BY <1>1, <1>2 DEF FreshDeckWorks
<1>3. QED
  BY <1>2, PlanAlways, PTL

-----------------------------------------------------------------------------
\* The slot of a session key: its rank among them.
Slot(S, k) == Cardinality({j \in S : j < k})

\* Slots are the numbers below the number of session keys, each once.
LEMMA SlotsOnce ==
  ASSUME NEW S \in SUBSET Nat, IsFiniteSet(S)
  PROVE  /\ \A k \in S : Slot(S, k) \in 0 .. (Cardinality(S) - 1)
         /\ \A j, k \in S : Slot(S, j) = Slot(S, k) => j = k
         /\ \A n \in 0 .. (Cardinality(S) - 1) : \E k \in S : Slot(S, k) = n
<1> DEFINE key == [k \in S |-> 0]
<1>1. \A k \in S : Rank(S, key, k) = Slot(S, k)
  <2> SUFFICES ASSUME NEW k \in S PROVE Rank(S, key, k) = Slot(S, k)
    OBVIOUS
  <2>1. \A j \in S : Before(key, j, k) <=> j < k
    BY DEF Before
  <2>2. {j \in S : Before(key, j, k)} = {j \in S : j < k}
    BY <2>1
  <2>3. QED
    BY <2>2 DEF Rank, Slot
<1>2. \A k \in S : key[k] \in Int
  OBVIOUS
<1> HIDE DEF key
<1>3. QED
  BY <1>1, <1>2, RanksOnce

\* Pages of one size: a position is on one page and in one slot.
LEMMA PageAndSlot ==
  ASSUME NEW size \in Nat \ {0}, NEW count \in Nat, NEW n \in 1 .. count
  PROVE  \E p \in 1 .. PagesFor(count, size), u \in 0 .. (size - 1) : (p - 1) * size + u + 1 = n
<1> DEFINE p == (n - 1) \div size + 1
           u == (n - 1) % size
<1>1. u \in 0 .. (size - 1) /\ p - 1 \in Nat /\ (p - 1) * size + u + 1 = n
  OBVIOUS
<1>2. PagesFor(count, size) = (count + size - 1) \div size /\ PagesFor(count, size) \in Int
  BY DEF PagesFor
<1>3. p <= (count + size - 1) \div size
  <2>1. n - 1 + size <= count + size - 1
    OBVIOUS
  <2>2. (n - 1 + size) \div size = (n - 1) \div size + 1
    OBVIOUS
  <2>3. \A x, y \in Nat : x <= y => x \div size <= y \div size
    OBVIOUS
  <2>4. QED
    BY <2>1, <2>2, <2>3
<1>4. p \in 1 .. PagesFor(count, size)
  <2>1. p \in Int /\ p >= 1
    BY <1>1
  <2> HIDE DEF p
  <2>2. QED
    BY <1>2, <1>3, <2>1
<1>5. QED
  BY <1>1, <1>4

LEMMA OnePageAndSlot ==
  ASSUME NEW size \in Nat, NEW p \in Nat, NEW q \in Nat,
         NEW u \in 0 .. (size - 1), NEW v \in 0 .. (size - 1),
         (p - 1) * size + u + 1 = (q - 1) * size + v + 1
  PROVE  p = q /\ u = v
<1>1. ASSUME NEW x \in Nat, NEW y \in Nat, x < y PROVE (x - 1) * size + size <= (y - 1) * size
  <2>1. (y - 1) * size = (x - 1) * size + (y - x) * size
    OBVIOUS
  <2>2. (y - x) * size >= size
    BY <1>1
  <2>3. QED
    BY <2>1, <2>2
<1>2. (p - 1) * size \in Int /\ (q - 1) * size \in Int
  OBVIOUS
<1>3. ~(p < q) /\ ~(q < p)
  BY <1>1, <1>2
<1>4. QED
  BY <1>2, <1>3

\* The number of pages is that of the list and the plan.
PagesCurrent == pageCount = PagesFor(Len(ordered), plan.perPage)

LEMMA PagesInit == Init => PagesCurrent
<1>1. Len(<< >>) = 0
  BY EmptySeq
<1>2. QED
  BY <1>1 DEF Init, PagesCurrent, PagesFor

LEMMA PagesStep == PagesCurrent /\ [Next]_vars => PagesCurrent'
<1> SUFFICES ASSUME PagesCurrent, [Next]_vars PROVE PagesCurrent'
  OBVIOUS
<1>1. ASSUME UNCHANGED <<pageCount, ordered, plan>> PROVE PagesCurrent'
  BY <1>1 DEF PagesCurrent
<1>2. CASE UNCHANGED vars \/ ServerStep
  BY <1>1, <1>2 DEF vars, deckVars, listVars, ServerStep
<1>3. CASE Poll
  <2>1. SetItemCount(Len(ordered'), plan.perPage, IF lastView \in {"", view} THEN page ELSE 1) /\ plan' = plan
    BY <1>3 DEF Poll, deckVars
  <2>2. QED
    BY <2>1 DEF SetItemCount, PagesCurrent
<1>4. ASSUME NEW n, Moves(n) PROVE PagesCurrent'
  BY <1>1, <1>4 DEF Moves, deckVars
<1>5. ASSUME NEW action, Pages(action) PROVE PagesCurrent'
  BY <1>4, <1>5 DEF Pages
<1>6. ASSUME NEW c \in Decks, BringUp(c) PROVE PagesCurrent'
  <2>1. \A size : PagesFor(Len(<< >>), size) = 1
    BY EmptySeq DEF PagesFor
  <2>2. ordered' = << >> /\ pageCount' = 1
    BY <1>6 DEF BringUp
  <2>3. QED
    BY <2>1, <2>2 DEF PagesCurrent
<1>7. ASSUME NEW file \in Files, ApplyReload(file) PROVE PagesCurrent'
  BY <1>7 DEF ApplyReload, SetItemCount, PagesCurrent
<1>8. CASE \E k \in KeysOf(caps) : PressKey(k)
  BY <1>5, <1>8 DEF PressKey
<1>9. CASE \E d \in DialsOf(caps) : PushDial(d) \/ \E ticks \in {-1, 1} : TurnDial(d, ticks)
  BY <1>4, <1>5, <1>9 DEF PushDial, TurnDial
<1>10. QED
  BY <1>2, <1>3, <1>6, <1>7, <1>8, <1>9 DEF Next, DeckStep

\* What a key connects, when it connects a session.
LEMMA KeySlots ==
  ASSUME PlanCurrent
  PROVE  /\ plan.slots \in SUBSET Nat /\ IsFiniteSet(plan.slots)
         /\ plan.slots \subseteq KeysOf(caps)
         /\ \A k \in KeysOf(caps) :
              /\ ConnectsFrom(1, k) <=> k \in plan.slots
              /\ k \in plan.slots => ClassifyKey(plan, k).slot = Slot(plan.slots, k)
<1> DEFINE b == plan.bindings
<1>1. caps \in Capabilities /\ ValidControls(controls)
  BY FaceAssumption DEF PlanCurrent
<1>2. b = Bindings(caps, controls) /\ plan.slots = SessionSlots(b) /\ DOMAIN b = AddressesOf(caps)
  BY <1>1, BindingsOf DEF PlanCurrent, PlanLayout
<1> HIDE DEF b
<1>3. \A a \in AddressesOf(caps) : a.control = "key" => a.index \in KeysOf(caps) /\ a = Key(a.index)
  BY DEF AddressesOf, Key, Turn, Push
<1>4. \A k \in KeysOf(caps) : Key(k) \in AddressesOf(caps) /\ Key(k).control = "key" /\ Key(k).index = k
  BY DEF AddressesOf, Key
<1>5. \A k \in KeysOf(caps) : k \in plan.slots <=> b[Key(k)] = "session"
  BY <1>2, <1>3, <1>4 DEF SessionSlots
<1>6. plan.slots \subseteq KeysOf(caps)
  BY <1>2, <1>3 DEF SessionSlots
<1>7. IsFiniteSet(plan.slots) /\ KeysOf(caps) \subseteq Nat
  <2>1. caps.keys \in Nat
    BY <1>1 DEF Capabilities
  <2>2. IsFiniteSet(KeysOf(caps)) /\ KeysOf(caps) \subseteq Nat
    BY <2>1, FS_Interval DEF KeysOf
  <2>3. QED
    BY <1>6, <2>2, FS_Subset
<1>8. ASSUME NEW k \in KeysOf(caps)
      PROVE  /\ ConnectsFrom(1, k) <=> k \in plan.slots
             /\ k \in plan.slots => ClassifyKey(plan, k).slot = Slot(plan.slots, k)
  <2>1. ClassifyKey(plan, k) =
          [action |-> b[Key(k)], slot |-> IF k \in plan.slots THEN Slot(plan.slots, k) ELSE -1]
    BY <1>2, <1>4 DEF ClassifyKey, Slot, b
  <2>2. k \in plan.slots => Slot(plan.slots, k) >= 0
    BY <1>6, <1>7, SlotsOnce, FS_CardinalityType
  <2>3. QED
    BY <1>5, <2>1, <2>2 DEF ConnectsFrom
<1>9. QED
  BY <1>6, <1>7, <1>8

-----------------------------------------------------------------------------
\* A finite, non-empty set of numbers has a greatest one: the last by rank.
LEMMA Greatest ==
  ASSUME NEW S \in SUBSET Nat, IsFiniteSet(S), S # {}
  PROVE  \E t \in S : \A u \in S : u <= t
<1> DEFINE key == [k \in S |-> 0]
           size == Cardinality(S)
<1>1. size \in Nat /\ size # 0
  BY FS_CardinalityType, FS_EmptySet
<1>2. \A k \in S : key[k] \in Int
  OBVIOUS
<1>3. \A j, k \in S : Before(key, j, k) <=> j < k
  BY DEF Before
<1> HIDE DEF key
<1>4. /\ \A k \in S : Rank(S, key, k) \in 0 .. (size - 1)
      /\ \A j, k \in S : j < k => Rank(S, key, j) < Rank(S, key, k)
      /\ \A n \in 0 .. (size - 1) : \E k \in S : Rank(S, key, k) = n
  BY <1>2, <1>3, RanksOnce
<1> HIDE DEF size
<1>5. size - 1 \in 0 .. (size - 1)
  BY <1>1
<1>6. PICK t \in S : Rank(S, key, t) = size - 1
  BY <1>4, <1>5
<1>7. ASSUME NEW u \in S PROVE u <= t
  <2>1. ~(t < u)
    BY <1>1, <1>4, <1>6
  <2>2. u \in Nat /\ t \in Nat
    OBVIOUS
  <2>3. QED
    BY <2>1, <2>2
<1>8. QED
  BY <1>7

\* The server's sessions are finitely many, and each order lists them all once.
LEMMA IdsFinite ==
  /\ IsFiniteSet(Ids)
  /\ \A id \in Ids : id.name \in Nat /\ id = [name |-> id.name, device |-> id.device]
BY FaceAssumption

LEMMA OrderLists ==
  ASSUME NEW o \in Orders
  PROVE  /\ Len(o) \in Nat /\ DOMAIN o = 1 .. Len(o) /\ IsFiniteSet(DOMAIN o)
         /\ Ids = {o[i] : i \in DOMAIN o}
         /\ \A i \in DOMAIN o : o[i] \in Ids
         /\ \A i, j \in DOMAIN o : o[i] = o[j] => i = j
<1>1. /\ o \in Seq(Ids) /\ Ids = {o[i] : i \in DOMAIN o}
      /\ \A i, j \in DOMAIN o : o[i] = o[j] => i = j
  BY FaceAssumption
<1>2. Len(o) \in Nat /\ DOMAIN o = 1 .. Len(o)
  BY <1>1, LenProperties
<1>3. IsFiniteSet(DOMAIN o)
  BY <1>2, FS_Interval
<1>4. QED
  BY <1>1, <1>2, <1>3

\* There is a latest bell as long as there are sessions.
LEMMA LatestBell ==
  ASSUME bells \in [Ids -> Ring], NEW id \in Ids
  PROVE  Latest \in Nat
<1> DEFINE times == {bells[i].fired : i \in Ids}
           f == [i \in Ids |-> bells[i].fired]
<1>1. \A i \in Ids : bells[i].fired \in Nat
  BY DEF Ring
<1>2. times \in SUBSET Nat /\ bells[id].fired \in times
  BY <1>1
<1>3. f \in Surjection(Ids, times)
  BY DEF Surjection
<1>4. IsFiniteSet(times)
  BY <1>3, IdsFinite, FS_Surjection
<1>5. PICK t \in times : \A u \in times : u <= t
  BY <1>2, <1>4, Greatest
<1>6. \A i \in Ids : bells[i].fired <= t
  BY <1>5
<1>7. Latest \in times
  BY <1>6 DEF Latest
<1>8. QED
  BY <1>2, <1>7

-----------------------------------------------------------------------------
\* What the server says of a session, by fields.
LEMMA Described ==
  ASSUME bells \in [Ids -> Ring]
  PROVE  \A id \in Ids :
           /\ IdOf(Describe(id)) = id
           /\ Describe(id).name = id.name /\ Describe(id).name \in Nat
           /\ Describe(id).needs = bells[id].needs /\ Describe(id).needs \in BOOLEAN
           /\ Describe(id).fired = bells[id].fired /\ Describe(id).fired \in Nat
           /\ Describe(id).views = ServerViews(id)
<1> SUFFICES ASSUME NEW id \in Ids
    PROVE  /\ IdOf(Describe(id)) = id
           /\ Describe(id).name = id.name /\ Describe(id).name \in Nat
           /\ Describe(id).needs = bells[id].needs /\ Describe(id).needs \in BOOLEAN
           /\ Describe(id).fired = bells[id].fired /\ Describe(id).fired \in Nat
           /\ Describe(id).views = ServerViews(id)
  OBVIOUS
<1>1. id.name \in Nat /\ id = [name |-> id.name, device |-> id.device]
  BY IdsFinite
<1>2. bells[id].needs \in BOOLEAN /\ bells[id].fired \in Nat
  BY DEF Ring
<1>3. /\ Describe(id).name = id.name /\ Describe(id).device = id.device
      /\ Describe(id).fired = bells[id].fired
      /\ Describe(id).views = ServerViews(id)
  BY DEF Describe
<1>4. Describe(id).needs = bells[id].needs
  BY DEF Describe
<1>5. IdOf(Describe(id)) = id
  BY <1>1, <1>3 DEF IdOf
<1>6. Describe(id).needs \in BOOLEAN
  BY <1>2, <1>4
<1>7. QED
  BY <1>1, <1>2, <1>3, <1>4, <1>5, <1>6

\* The place of a session in an order of the server's.
Where(o, id) == CHOOSE i \in DOMAIN o : o[i] = id

LEMMA WhereIs ==
  ASSUME NEW o \in Orders
  PROVE  /\ \A i \in DOMAIN o : Where(o, o[i]) = i
         /\ \A id \in Ids : Where(o, id) \in DOMAIN o /\ o[Where(o, id)] = id
<1>1. /\ Ids = {o[i] : i \in DOMAIN o}
      /\ \A i, j \in DOMAIN o : o[i] = o[j] => i = j
  BY OrderLists
<1>2. \A id \in Ids : Where(o, id) \in DOMAIN o /\ o[Where(o, id)] = id
  BY <1>1 DEF Where
<1>3. QED
  BY <1>1, <1>2

Answers == {Describe(id) : id \in live}

\* The server lists its live sessions once each, in its order.
LEMMA ListedOnce ==
  ASSUME live \subseteq Ids, listing \in Orders, bells \in [Ids -> Ring]
  PROVE  /\ Listed \in Seq(Answers)
         /\ {Listed[i] : i \in DOMAIN Listed} = Answers
         /\ \A m, n \in DOMAIN Listed : m < n => Where(listing, IdOf(Listed[m])) < Where(listing, IdOf(Listed[n]))
<1> DEFINE list == [i \in DOMAIN listing |-> Describe(listing[i])]
           at == {i \in DOMAIN listing : listing[i] \in live}
           key == Same(listing)
<1>1. Listed = Arrange(list, at, key)
  BY DEF Listed
<1>2. at \in SUBSET (DOMAIN listing) /\ DOMAIN listing \in SUBSET Nat
  BY OrderLists
<1>3. at \in SUBSET Nat /\ IsFiniteSet(at)
  BY <1>2, OrderLists, FS_Subset
<1>4. \A i \in at : list[i] = Describe(listing[i]) /\ listing[i] \in live /\ list[i] \in Answers
  BY DEF Answers
<1>5. \A i \in at : key[i] = 0
  BY <1>2 DEF Same
<1>6. \A i \in at : key[i] \in Int
  BY <1>5
<1>7. \A id \in live : \E i \in at : listing[i] = id
  BY OrderLists
<1> HIDE DEF list, at, key
<1>8. \A i \in at : list[i] \in Answers
  BY <1>4
<1>9. EachOnce(Listed, Answers, list, at, key)
  BY <1>1, <1>3, <1>6, <1>8, ArrangedOnce, Zenon
<1>10. Listed \in Seq(Answers) /\ DOMAIN Listed = 1 .. Len(Listed)
  BY <1>9 DEF EachOnce
<1>11. PICK pos \in [DOMAIN Listed -> at] :
         /\ \A n \in DOMAIN Listed : Listed[n] = list[pos[n]]
         /\ \A i \in at : \E n \in DOMAIN Listed : pos[n] = i
         /\ \A m, n \in DOMAIN Listed : m < n => Before(key, pos[m], pos[n])
  BY <1>9, <1>10 DEF EachOnce
<1>12. \A n \in DOMAIN Listed : pos[n] \in at /\ Listed[n] = Describe(listing[pos[n]]) /\ listing[pos[n]] \in live
  BY <1>4, <1>11
<1>13. ASSUME NEW m \in DOMAIN Listed, NEW n \in DOMAIN Listed, m < n
       PROVE  Where(listing, IdOf(Listed[m])) < Where(listing, IdOf(Listed[n]))
  <2>1. Before(key, pos[m], pos[n])
    BY <1>11, <1>13
  <2>2. pos[m] < pos[n]
    BY <1>5, <1>12, <2>1 DEF Before
  <2>3. \A k \in DOMAIN Listed : Where(listing, IdOf(Listed[k])) = pos[k]
    <3> SUFFICES ASSUME NEW k \in DOMAIN Listed PROVE Where(listing, IdOf(Listed[k])) = pos[k]
      OBVIOUS
    <3>1. IdOf(Listed[k]) = listing[pos[k]]
      BY <1>12, Described
    <3>2. QED
      BY <1>2, <1>12, <3>1, WhereIs
  <2>4. QED
    BY <2>2, <2>3
<1>14. \A n \in DOMAIN Listed : Listed[n] \in Answers
  BY <1>12 DEF Answers
<1>15. ASSUME NEW s \in Answers PROVE \E n \in DOMAIN Listed : Listed[n] = s
  <2>1. PICK id \in live : s = Describe(id)
    BY DEF Answers
  <2>2. PICK i \in at : listing[i] = id
    BY <1>7
  <2>3. PICK n \in DOMAIN Listed : pos[n] = i
    BY <1>11
  <2>4. QED
    BY <1>12, <2>1, <2>2, <2>3
<1>16. QED
  BY <1>10, <1>13, <1>14, <1>15

-----------------------------------------------------------------------------
\* The order of the keys, from what a session carries with it: attention and
\* bell if it was arranged so, then the server's order.
ListedBefore(a, s, t) ==
  \/ a.alphabetical /\ s.name < t.name
  \/ /\ a.alphabetical => s.name = t.name
     /\ Where(a.listing, IdOf(s)) < Where(a.listing, IdOf(t))
Precedes(a, s, t) ==
  \/ a.byBell /\ s.needs /\ ~t.needs
  \/ /\ a.byBell => (s.needs <=> t.needs)
     /\ \/ a.byBell /\ s.fired > t.fired
        \/ (a.byBell => s.fired = t.fired) /\ ListedBefore(a, s, t)

LEMMA NowArranged ==
  /\ Arrangement.byBell = byBell /\ Arrangement.alphabetical = settings.alphabetical
  /\ Arrangement.listing = listing
BY DEF Arrangement

\* The first tier is taken out by name, a namesake that needs nothing with it.
Shadowed(s) == byBell /\ ~s.needs /\ \E t \in Visible : t.needs /\ t.name = s.name

\* What the view shows of the server's list.
ShownNow == ResolveView(Listed, settings, view)

LEMMA ShownOnce ==
  ASSUME live \subseteq Ids, listing \in Orders, bells \in [Ids -> Ring]
  PROVE  /\ ShownNow \in Seq(Answers)
         /\ {ShownNow[n] : n \in DOMAIN ShownNow} = Visible
         /\ \A m, n \in DOMAIN ShownNow : m < n => ListedBefore(Arrangement, ShownNow[m], ShownNow[n])
<1>1. /\ Listed \in Seq(Answers)
      /\ \A m, n \in DOMAIN Listed : m < n => Where(listing, IdOf(Listed[m])) < Where(listing, IdOf(Listed[n]))
  BY ListedOnce
<1>2. \A s \in Answers : s.name \in Nat
  BY Described DEF Answers
<1>3. ViewOnce(ShownNow, Answers, Listed, settings, view)
  BY <1>1, <1>2, ViewResolved, Zenon DEF ShownNow
<1>4. ShownNow \in Seq(Answers) /\ DOMAIN ShownNow = 1 .. Len(ShownNow)
  BY <1>3, LenProperties DEF ViewOnce
<1>5. PICK pos \in [DOMAIN ShownNow -> DOMAIN Listed] :
        /\ \A n \in DOMAIN ShownNow :
             ShownNow[n] = Listed[pos[n]] /\ Shows(settings, view, ShownNow[n])
        /\ \A i \in DOMAIN Listed :
             Shows(settings, view, Listed[i]) => \E n \in DOMAIN ShownNow : pos[n] = i
        /\ \A m, n \in DOMAIN ShownNow : m < n =>
             \/ settings.alphabetical /\ ShownNow[m].name < ShownNow[n].name
             \/ /\ settings.alphabetical => ShownNow[m].name = ShownNow[n].name
                /\ pos[m] < pos[n]
  BY <1>3, <1>4 DEF ViewOnce
<1>6. ASSUME NEW m \in DOMAIN ShownNow, NEW n \in DOMAIN ShownNow, m < n
      PROVE  ListedBefore(Arrangement, ShownNow[m], ShownNow[n])
  <2>1. /\ pos[m] \in DOMAIN Listed /\ pos[n] \in DOMAIN Listed
        /\ ShownNow[m] = Listed[pos[m]] /\ ShownNow[n] = Listed[pos[n]]
    BY <1>5
  <2>2. pos[m] < pos[n] => Where(listing, IdOf(ShownNow[m])) < Where(listing, IdOf(ShownNow[n]))
    BY <1>1, <2>1
  <2>3. \/ settings.alphabetical /\ ShownNow[m].name < ShownNow[n].name
        \/ /\ settings.alphabetical => ShownNow[m].name = ShownNow[n].name
           /\ pos[m] < pos[n]
    BY <1>5, <1>6
  <2>4. \/ Arrangement.alphabetical /\ ShownNow[m].name < ShownNow[n].name
        \/ /\ Arrangement.alphabetical => ShownNow[m].name = ShownNow[n].name
           /\ Where(Arrangement.listing, IdOf(ShownNow[m])) < Where(Arrangement.listing, IdOf(ShownNow[n]))
    <3>1. CASE settings.alphabetical /\ ShownNow[m].name < ShownNow[n].name
      BY <3>1, NowArranged, Zenon
    <3>2. CASE /\ settings.alphabetical => ShownNow[m].name = ShownNow[n].name
               /\ pos[m] < pos[n]
      BY <2>2, <3>2, NowArranged, Zenon
    <3>3. QED
      BY <2>3, <3>1, <3>2, Zenon
  <2>5. QED
    BY <2>4, Zenon DEF ListedBefore
<1>7. \A n \in DOMAIN ShownNow : ShownNow[n] \in Visible
  BY <1>5 DEF Visible
<1>8. ASSUME NEW s \in Visible PROVE \E n \in DOMAIN ShownNow : ShownNow[n] = s
  <2>1. PICK i \in DOMAIN Listed : s = Listed[i] /\ Shows(settings, view, Listed[i])
    BY DEF Visible
  <2>2. PICK n \in DOMAIN ShownNow : pos[n] = i
    BY <1>5, <2>1
  <2>3. QED
    BY <1>5, <2>1, <2>2
<1>9. QED
  BY <1>4, <1>6, <1>7, <1>8

\* What a poll leaves: a list of what the view shows and no bell shadows, in
\* the order of the keys.
LEMMA PolledOnce ==
  ASSUME live \subseteq Ids, listing \in Orders, bells \in [Ids -> Ring], Poll
  PROVE  /\ ordered' \in Seq(Answers)
         /\ {ordered'[i] : i \in DOMAIN ordered'} = {s \in Visible : ~Shadowed(s)}
         /\ \A i, j \in DOMAIN ordered' : i < j => Precedes(Arrangement, ordered'[i], ordered'[j])
<1>1. ordered' = IF byBell THEN AttentionSort(ShownNow) ELSE ShownNow
  BY DEF Poll, ShownNow
<1>2. /\ ShownNow \in Seq(Answers)
      /\ {ShownNow[n] : n \in DOMAIN ShownNow} = Visible
      /\ \A m, n \in DOMAIN ShownNow : m < n => ListedBefore(Arrangement, ShownNow[m], ShownNow[n])
  BY ShownOnce
<1>3. CASE ~byBell
  <2>1. ordered' = ShownNow
    BY <1>1, <1>3
  <2>2. \A s : ~Shadowed(s)
    BY <1>3 DEF Shadowed
  <2>3. {s \in Visible : ~Shadowed(s)} = Visible
    BY <2>2
  <2>4. \A s, t : ListedBefore(Arrangement, s, t) => Precedes(Arrangement, s, t)
    BY <1>3, NowArranged, Zenon DEF Precedes
  <2>5. QED
    BY <1>2, <2>1, <2>3, <2>4
<1>4. CASE byBell
  <2> DEFINE now == ordered'
  <2>1. now = AttentionSort(ShownNow)
    BY <1>1, <1>4
  <2>2. \A s \in Answers : s.needs \in BOOLEAN /\ s.fired \in Nat
    BY Described DEF Answers
  <2>3. AttentionOnce(now, Answers, ShownNow)
    BY <1>2, <2>1, <2>2, AttentionSorted, Zenon
  <2>4. now \in Seq(Answers) /\ DOMAIN now = 1 .. Len(now)
    BY <2>3, LenProperties DEF AttentionOnce
  <2> HIDE DEF now
  <2>5. PICK pos \in [1 .. Len(now) -> DOMAIN ShownNow] :
          /\ \A n \in 1 .. Len(now) : now[n] = ShownNow[pos[n]] /\ Remains(ShownNow, pos[n])
          /\ \A i \in DOMAIN ShownNow : Remains(ShownNow, i) => \E n \in 1 .. Len(now) : pos[n] = i
          /\ \A m, n \in 1 .. Len(now) : m < n =>
               \/ now[m].needs /\ ~now[n].needs
               \/ /\ now[m].needs <=> now[n].needs
                  /\ \/ now[m].fired > now[n].fired
                     \/ now[m].fired = now[n].fired /\ pos[m] < pos[n]
    BY <2>3, <2>4 DEF AttentionOnce
  <2>6. ASSUME NEW m \in 1 .. Len(now), NEW n \in 1 .. Len(now), m < n
        PROVE  Precedes(Arrangement, now[m], now[n])
    <3>1. /\ pos[m] \in DOMAIN ShownNow /\ pos[n] \in DOMAIN ShownNow
          /\ now[m] = ShownNow[pos[m]] /\ now[n] = ShownNow[pos[n]]
      BY <2>5
    <3>2. pos[m] < pos[n] => ListedBefore(Arrangement, now[m], now[n])
      BY <1>2, <3>1
    <3>3. \/ now[m].needs /\ ~now[n].needs
          \/ /\ now[m].needs <=> now[n].needs
             /\ \/ now[m].fired > now[n].fired
                \/ now[m].fired = now[n].fired /\ pos[m] < pos[n]
      BY <2>5, <2>6
    <3>4. QED
      BY <1>4, <3>2, <3>3, NowArranged, Zenon DEF Precedes
  <2>7. \A i \in DOMAIN ShownNow : Remains(ShownNow, i) <=> ~Shadowed(ShownNow[i])
    <3>1. \A i \in DOMAIN ShownNow :
            (\E t \in Visible : t.needs /\ t.name = ShownNow[i].name) <=>
            (\E j \in DOMAIN ShownNow : ShownNow[j].needs /\ ShownNow[j].name = ShownNow[i].name)
      BY <1>2
    <3>2. QED
      BY <1>4, <3>1, Zenon DEF Remains, Shadowed
  <2>8. \A n \in 1 .. Len(now) : now[n] \in Visible /\ ~Shadowed(now[n])
    BY <1>2, <2>5, <2>7
  <2>9. ASSUME NEW s \in Visible, ~Shadowed(s) PROVE \E n \in 1 .. Len(now) : now[n] = s
    <3>1. PICK i \in DOMAIN ShownNow : ShownNow[i] = s
      BY <1>2
    <3>2. PICK n \in 1 .. Len(now) : pos[n] = i
      BY <2>5, <2>7, <2>9, <3>1
    <3>3. QED
      BY <2>5, <3>1, <3>2
  <2>10. {now[i] : i \in 1 .. Len(now)} = {s \in Visible : ~Shadowed(s)}
    BY <2>8, <2>9
  <2>11. QED
    BY <2>4, <2>6, <2>10 DEF now
<1>5. QED
  BY <1>3, <1>4

\* No session precedes itself, and no two precede each other.
LEMMA PrecedesOneWay ==
  ASSUME NEW a, a.listing \in Orders, NEW s, NEW t, s.name \in Nat, t.name \in Nat, s.fired \in Nat, t.fired \in Nat,
         IdOf(s) \in Ids, IdOf(t) \in Ids,
         Precedes(a, s, t)
  PROVE  ~Precedes(a, t, s)
<1>1. Where(a.listing, IdOf(s)) \in Nat /\ Where(a.listing, IdOf(t)) \in Nat
  BY WhereIs, OrderLists
<1>2. \A x, y \in Nat : ~(x < y /\ y < x) /\ ~(x < y /\ x = y) /\ (x > y <=> y < x)
  OBVIOUS
<1>3. ~(ListedBefore(a, s, t) /\ ListedBefore(a, t, s))
  <2>1. ~(s.name < t.name /\ t.name < s.name) /\ ~(s.name < t.name /\ t.name = s.name)
        /\ ~(t.name < s.name /\ s.name = t.name)
    BY <1>2
  <2>2. ~(Where(a.listing, IdOf(s)) < Where(a.listing, IdOf(t)) /\ Where(a.listing, IdOf(t)) < Where(a.listing, IdOf(s)))
    BY <1>1, <1>2
  <2>3. QED
    BY <2>1, <2>2, Zenon DEF ListedBefore
<1>4. ~(s.fired > t.fired /\ t.fired > s.fired) /\ ~(s.fired > t.fired /\ t.fired = s.fired)
      /\ ~(t.fired > s.fired /\ s.fired = t.fired)
  BY <1>2
<1>5. QED
  BY <1>3, <1>4, Zenon DEF Precedes

-----------------------------------------------------------------------------
\* There is always a page, and it holds something.
LEMMA PagesPositive ==
  ASSUME NEW count \in Nat, NEW size \in Nat \ {0}
  PROVE  PagesFor(count, size) \in Nat \ {0}
<1>1. ASSUME count # 0 PROVE (count + size - 1) \div size \in Nat \ {0}
  <2>1. count + size - 1 >= size
    BY <1>1
  <2>2. \A x \in Nat : x >= size => x \div size \in Nat \ {0}
    OBVIOUS
  <2>3. QED
    BY <2>1, <2>2
<1>2. QED
  BY <1>1 DEF PagesFor

LEMMA PerPagePositive == PlanCurrent => plan.perPage \in Nat \ {0}
<1> SUFFICES ASSUME PlanCurrent PROVE plan.perPage \in Nat \ {0}
  OBVIOUS
<1>1. IsFiniteSet(plan.slots)
  BY KeySlots
<1>2. plan.perPage = IF plan.slots = {} THEN 1 ELSE Cardinality(plan.slots)
  BY DEF PlanCurrent, PlanLayout
<1>3. QED
  BY <1>1, <1>2, FS_CardinalityType, FS_EmptySet

\* The variables the deck's handlers leave to each other, typed.
ServerTypes ==
  /\ live \subseteq Ids /\ listing \in Orders /\ bells \in [Ids -> Ring] /\ busy \in SUBSET Ids
  /\ settings \in SettingsSets /\ view \in ViewNames
DeckTypes == PlanCurrent /\ controls \in Files /\ dials \in BOOLEAN /\ byBell \in BOOLEAN
OrderTypes ==
  /\ Len(ordered) \in Nat /\ DOMAIN ordered = 1 .. Len(ordered)
  /\ \A i \in DOMAIN ordered : IdOf(ordered[i]) \in Ids
PageTypes == pageCount \in Nat \ {0} /\ page \in 1 .. pageCount
LastPollTyped ==
  /\ lastView \in ViewNames \cup {""}
  /\ arranged.byBell \in BOOLEAN /\ arranged.listing \in Orders

LEMMA TypeParts ==
  /\ FaceTypeOK <=> /\ ServerTypes /\ DeckTypes /\ OrderTypes /\ PageTypes
                    /\ LastPollTyped /\ events \in 0 .. MaxEvents
  /\ FaceTypeOK' <=> /\ ServerTypes' /\ DeckTypes' /\ OrderTypes' /\ PageTypes'
                     /\ LastPollTyped' /\ events' \in 0 .. MaxEvents
<1>1. FaceTypeOK <=> /\ ServerTypes /\ DeckTypes /\ OrderTypes /\ PageTypes
                     /\ LastPollTyped /\ events \in 0 .. MaxEvents
  BY DEF FaceTypeOK, ServerTypes, DeckTypes, OrderTypes, PageTypes, PlanCurrent, IdOf, LastPollTyped
<1>2. FaceTypeOK' <=> /\ ServerTypes' /\ DeckTypes' /\ OrderTypes' /\ PageTypes'
                      /\ LastPollTyped' /\ events' \in 0 .. MaxEvents
  BY DEF FaceTypeOK, ServerTypes, DeckTypes, OrderTypes, PageTypes, PlanCurrent, IdOf, LastPollTyped
<1>3. QED
  BY <1>1, <1>2

LEMMA ArrangementTyped ==
  ASSUME ServerTypes, DeckTypes
  PROVE  Arrangement.byBell \in BOOLEAN /\ Arrangement.listing \in Orders
BY NowArranged, Zenon DEF ServerTypes, DeckTypes

\* The dials of a plan are in use or not.
LEMMA UseDialsBoolean == \A c, ctrls : PlanLayout(c, ctrls).useDials \in BOOLEAN
<1>1. \A b : UseDials(b) \in BOOLEAN
  BY DEF UseDials
<1>2. QED
  BY <1>1 DEF PlanLayout

LEMMA EmptyList == Len(<< >>) \in Nat /\ DOMAIN << >> = 1 .. Len(<< >>) /\ DOMAIN << >> = {}
<1>1. << >> \in Seq({}) /\ Len(<< >>) = 0
  BY EmptySeq
<1>2. QED
  BY <1>1, NothingBound

LEMMA TypeInit == Init => FaceTypeOK
<1> SUFFICES ASSUME Init PROVE FaceTypeOK
  OBVIOUS
<1>1. ServerTypes
  BY FaceAssumption DEF Init, ServerTypes
<1>2. DeckTypes
  <2>1. controls \in Files
    BY FaceAssumption DEF Init
  <2>2. dials \in BOOLEAN /\ byBell \in BOOLEAN
    BY UseDialsBoolean DEF Init
  <2>3. QED
    BY <2>1, <2>2, PlanInit DEF DeckTypes
<1>3. OrderTypes
  <2>1. ordered = << >>
    BY DEF Init
  <2>2. QED
    BY <2>1, EmptyList DEF OrderTypes
<1>4. PageTypes /\ LastPollTyped /\ events \in 0 .. MaxEvents
  <2>1. MaxEvents \in Nat
    BY FaceAssumption
  <2>2. page = 1 /\ pageCount = 1 /\ events = 0
    BY DEF Init
  <2>3. LastPollTyped
    BY <1>1, <1>2, ArrangementTyped, Zenon DEF Init, LastPollTyped
  <2>4. QED
    BY <2>1, <2>2, <2>3 DEF PageTypes
<1>5. QED
  BY <1>1, <1>2, <1>3, <1>4, TypeParts

\* What one event at the server changes.
LEMMA ServerTypesStep ==
  ASSUME ServerTypes, ServerStep
  PROVE  ServerTypes'
<1>1. ASSUME NEW id \in Ids, Rings(id) PROVE ServerTypes'
  <2>1. [needs |-> TRUE, fired |-> Latest + 1] \in Ring
    BY LatestBell DEF ServerTypes, Ring
  <2>2. bells' \in [Ids -> Ring]
    BY <1>1, <2>1 DEF ServerTypes, Rings
  <2>3. QED
    BY <1>1, <2>2 DEF ServerTypes, Rings
<1>2. ASSUME NEW id \in Ids, Attended(id) PROVE ServerTypes'
  <2>1. [bells[id] EXCEPT !.needs = FALSE] \in Ring
    BY DEF ServerTypes, Ring
  <2>2. bells' \in [Ids -> Ring]
    BY <1>2, <2>1 DEF ServerTypes, Attended
  <2>3. QED
    BY <1>2, <2>2 DEF ServerTypes, Attended
<1>3. ASSUME NEW id \in Ids, ComesOrGoes(id) PROVE ServerTypes'
  <2>1. [needs |-> FALSE, fired |-> 0] \in Ring
    BY DEF Ring
  <2>2. bells' \in [Ids -> Ring] /\ live' \subseteq Ids
    BY <1>3, <2>1 DEF ServerTypes, ComesOrGoes
  <2>3. QED
    BY <1>3, <2>2 DEF ServerTypes, ComesOrGoes
<1>4. ASSUME NEW id \in Ids, Works(id) PROVE ServerTypes'
  BY <1>4 DEF ServerTypes, Works
<1>5. ASSUME NEW v \in ViewNames, ChangesView(v) PROVE ServerTypes'
  BY <1>5 DEF ServerTypes, ChangesView
<1>6. ASSUME NEW st \in SettingsSets, ChangesSettings(st) PROVE ServerTypes'
  BY <1>6 DEF ServerTypes, ChangesSettings
<1>7. ASSUME NEW o \in Orders, Reorders(o) PROVE ServerTypes'
  BY <1>7 DEF ServerTypes, Reorders
<1>8. QED
  BY <1>1, <1>2, <1>3, <1>4, <1>5, <1>6, <1>7 DEF ServerStep

\* The list and the pages that one step leaves.
LEMMA ListTypesStep ==
  ASSUME FaceTypeOK, [Next]_vars
  PROVE  OrderTypes' /\ PageTypes' /\ LastPollTyped'
<1>0. /\ ServerTypes /\ DeckTypes /\ OrderTypes /\ PageTypes
      /\ LastPollTyped /\ PlanCurrent /\ PlanCurrent'
  BY TypeParts, PlanStep DEF DeckTypes
<1>1. ASSUME UNCHANGED listVars PROVE OrderTypes' /\ PageTypes' /\ LastPollTyped'
  BY <1>0, <1>1, Zenon DEF listVars, OrderTypes, PageTypes, IdOf, LastPollTyped
<1>2. ASSUME NEW count \in Nat, NEW size \in Nat \ {0}, NEW from \in Nat \ {0},
             SetItemCount(count, size, from)
      PROVE  PageTypes'
  <2>1. PagesFor(count, size) \in Nat \ {0}
    BY PagesPositive
  <2>2. AtMost(from, PagesFor(count, size)) \in 1 .. PagesFor(count, size)
    BY <2>1 DEF AtMost
  <2>3. QED
    BY <1>2, <2>1, <2>2 DEF SetItemCount, PageTypes
<1>3. page \in Nat \ {0} /\ plan.perPage \in Nat \ {0} /\ plan'.perPage \in Nat \ {0}
  <2>1. page \in Nat \ {0}
    BY <1>0 DEF PageTypes
  <2>2. PlanCurrent' => (plan.perPage \in Nat \ {0})'
    BY PerPagePositive, PTL
  <2>3. QED
    BY <1>0, <2>1, <2>2, PerPagePositive
<1>4. CASE UNCHANGED vars \/ ServerStep
  BY <1>1, <1>4 DEF vars, ServerStep
<1>5. CASE Poll
  <2>1. ordered' \in Seq(Answers)
    BY <1>0, <1>5, PolledOnce DEF ServerTypes
  <2>2. \A s \in Answers : IdOf(s) \in Ids
    BY <1>0, Described DEF Answers, ServerTypes
  <2>3. Len(ordered') \in Nat /\ DOMAIN ordered' = 1 .. Len(ordered')
        /\ \A i \in DOMAIN ordered' : ordered'[i] \in Answers
    BY <2>1, LenProperties
  <2>4. OrderTypes'
    BY <2>2, <2>3 DEF OrderTypes, IdOf
  <2>5. PageTypes'
    <3>1. \E from \in {page, 1} : SetItemCount(Len(ordered'), plan.perPage, from)
      BY <1>5, Zenon DEF Poll
    <3>2. QED
      BY <1>2, <1>3, <2>3, <3>1
  <2>6. LastPollTyped'
    BY <1>0, <1>5, ArrangementTyped, Zenon DEF Poll, ServerTypes, LastPollTyped
  <2>7. QED
    BY <2>4, <2>5, <2>6
<1>6. ASSUME NEW n \in Int, Moves(n) PROVE OrderTypes' /\ PageTypes' /\ LastPollTyped'
  <2>1. Clamp(n) \in 1 .. pageCount
    BY <1>0 DEF Clamp, AtMost, PageTypes
  <2>2. PageTypes'
    BY <1>0, <1>6, <2>1 DEF Moves, PageTypes
  <2>3. OrderTypes' /\ LastPollTyped'
    BY <1>0, <1>6, Zenon DEF Moves, OrderTypes, IdOf, LastPollTyped
  <2>4. QED
    BY <1>0, <2>2, <2>3
<1>7. ASSUME NEW action, Pages(action) PROVE OrderTypes' /\ PageTypes' /\ LastPollTyped'
  <2>1. page - 1 \in Int /\ page + 1 \in Int /\ 1 \in Int /\ pageCount \in Int
    BY <1>0 DEF PageTypes
  <2>2. QED
    BY <1>6, <1>7, <2>1 DEF Pages
<1>8. ASSUME NEW c \in Decks, BringUp(c) PROVE OrderTypes' /\ PageTypes' /\ LastPollTyped'
  <2>1. ordered' = << >> /\ page' = 1 /\ pageCount' = 1 /\ LastPollTyped'
    BY <1>0, <1>8, Zenon DEF BringUp, LastPollTyped
  <2>2. OrderTypes'
    BY <2>1, EmptyList DEF OrderTypes
  <2>3. QED
    BY <2>1, <2>2 DEF PageTypes
<1>9. ASSUME NEW file \in Files, ApplyReload(file)
      PROVE  OrderTypes' /\ PageTypes' /\ LastPollTyped'
  <2>1. SetItemCount(Len(ordered), plan'.perPage, page) /\ ordered' = ordered /\ LastPollTyped'
    BY <1>0, <1>9, Zenon DEF ApplyReload, LastPollTyped
  <2>2. Len(ordered) \in Nat
    BY <1>0 DEF OrderTypes
  <2>3. PageTypes'
    BY <1>2, <1>3, <2>1, <2>2
  <2>4. QED
    BY <1>0, <2>1, <2>3 DEF OrderTypes, IdOf
<1>10. CASE \E k \in KeysOf(caps) : PressKey(k)
  BY <1>7, <1>10 DEF PressKey
<1>11. CASE \E d \in DialsOf(caps) : PushDial(d) \/ \E ticks \in {-1, 1} : TurnDial(d, ticks)
  <2>1. \A ticks \in {-1, 1} : page + ticks \in Int
    BY <1>3
  <2>2. QED
    BY <1>6, <1>7, <1>11, <2>1 DEF PushDial, TurnDial
<1>12. QED
  BY <1>4, <1>5, <1>8, <1>9, <1>10, <1>11 DEF Next, DeckStep

\* What one step leaves of the server's and the deck's own variables.
LEMMA TypeStep == FaceTypeOK /\ [Next]_vars => FaceTypeOK'
<1> SUFFICES ASSUME FaceTypeOK, [Next]_vars PROVE FaceTypeOK'
  OBVIOUS
<1>1. ServerTypes /\ DeckTypes /\ events \in 0 .. MaxEvents /\ MaxEvents \in Nat /\ PlanCurrent'
  BY TypeParts, PlanStep, FaceAssumption DEF DeckTypes
<1>2. OrderTypes' /\ PageTypes' /\ LastPollTyped'
  BY ListTypesStep
<1> DEFINE Rest == ServerTypes' /\ (controls \in Files /\ dials \in BOOLEAN /\ byBell \in BOOLEAN)'
                   /\ events' \in 0 .. MaxEvents
<1>3. ASSUME UNCHANGED <<deckVars, serverVars, events>> PROVE Rest
  BY <1>1, <1>3 DEF deckVars, serverVars, ServerTypes, DeckTypes
<1>4. ASSUME UNCHANGED serverVars PROVE ServerTypes'
  BY <1>1, <1>4 DEF serverVars, ServerTypes
<1>5. ASSUME ServerStep PROVE Rest
  <2>1. UNCHANGED deckVars /\ events < MaxEvents /\ events' = events + 1
    BY <1>5 DEF ServerStep
  <2>2. ServerTypes'
    BY <1>1, <1>5, ServerTypesStep
  <2>3. QED
    BY <1>1, <2>1, <2>2 DEF deckVars, DeckTypes
<1>6. ASSUME NEW c \in Decks, BringUp(c) PROVE Rest
  <2>1. /\ events < MaxEvents /\ events' = events + 1 /\ dials' = plan'.useDials
        /\ plan' = PlanLayout(c, controls) /\ UNCHANGED <<controls, byBell, serverVars>>
    BY <1>6 DEF BringUp
  <2>2. dials' \in BOOLEAN
    BY <2>1, UseDialsBoolean
  <2>3. QED
    BY <1>1, <1>4, <2>1, <2>2 DEF DeckTypes
<1>7. ASSUME NEW file \in Files, ApplyReload(file) PROVE Rest
  <2>1. /\ events < MaxEvents /\ events' = events + 1 /\ controls' = file
        /\ byBell' \in BOOLEAN /\ UNCHANGED <<dials, serverVars>>
    BY <1>7 DEF ApplyReload
  <2>2. QED
    BY <1>1, <1>4, <2>1 DEF DeckTypes
<1>8. ASSUME UNCHANGED vars PROVE Rest
  BY <1>3, <1>8 DEF vars
<1>9. ASSUME Poll PROVE Rest
  BY <1>3, <1>9 DEF Poll
<1>10. ASSUME NEW n, Moves(n) PROVE Rest
  BY <1>3, <1>10 DEF Moves
<1>11. ASSUME NEW action, Pages(action) PROVE Rest
  BY <1>10, <1>11 DEF Pages
<1>12. ASSUME \E k \in KeysOf(caps) : PressKey(k) PROVE Rest
  BY <1>11, <1>12 DEF PressKey
<1>13. ASSUME \E d \in DialsOf(caps) : PushDial(d) \/ \E ticks \in {-1, 1} : TurnDial(d, ticks) PROVE Rest
  BY <1>10, <1>11, <1>13 DEF PushDial, TurnDial
<1> HIDE DEF Rest
<1>14. Rest
  BY <1>5, <1>6, <1>7, <1>8, <1>9, <1>12, <1>13 DEF Next, DeckStep
<1>15. QED
  BY <1>1, <1>2, <1>14, TypeParts DEF Rest, DeckTypes

\* Whatever a deck, its files and its server do, the keys hold a list of the
\* server's sessions and the page is one of the list's.
THEOREM FaceTypeCorrect == Spec => []FaceTypeOK
<1>1. QED
  BY TypeInit, TypeStep, PTL DEF Spec

-----------------------------------------------------------------------------
\* Every listed session is on exactly one key of exactly one page, on every
\* deck and under every configuration, whatever polls and reloads bring
\* (layout.py, plan_layout and classify_key; interaction.py, Pager).
THEOREM SessionsHaveOnePlace == Spec => []SessionsPlaced
<1>1. ASSUME PlanCurrent, PagesCurrent, FaceTypeOK PROVE SessionsPlaced
  <2> DEFINE S == plan.slots
             size == Cardinality(S)
  <2>1. CASE S = {}
    BY <2>1 DEF SessionsPlaced
  <2>2. CASE S # {}
    <3>1. S \in SUBSET Nat /\ IsFiniteSet(S) /\ S \subseteq KeysOf(caps)
      BY <1>1, KeySlots
    <3>2. size \in Nat \ {0}
      BY <2>2, <3>1, FS_CardinalityType, FS_EmptySet
    <3>3. plan.perPage = size
      BY <1>1, <2>2 DEF PlanCurrent, PlanLayout
    <3>4. \A q : \A k \in KeysOf(caps) : ConnectsFrom(q, k) <=> k \in S
      BY <1>1, KeySlots DEF ConnectsFrom
    <3>5. \A q : \A k \in S : Position(q, k) = (q - 1) * size + Slot(S, k) + 1
      BY <1>1, <3>1, <3>3, KeySlots DEF Position
    <3>6. /\ \A k \in S : Slot(S, k) \in 0 .. (size - 1)
          /\ \A j, k \in S : Slot(S, j) = Slot(S, k) => j = k
          /\ \A n \in 0 .. (size - 1) : \E k \in S : Slot(S, k) = n
      BY <3>1, SlotsOnce
    <3> HIDE DEF S, size
    <3>7. ASSUME NEW n \in DOMAIN ordered
          PROVE  \E p \in 1 .. pageCount, k \in KeysOf(caps) :
                   /\ ConnectsFrom(p, k) /\ Position(p, k) = n
                   /\ \A q \in 1 .. pageCount, j \in KeysOf(caps) :
                        ConnectsFrom(q, j) /\ Position(q, j) = n => q = p /\ j = k
      <4>1. Len(ordered) \in Nat /\ n \in 1 .. Len(ordered) /\ pageCount = PagesFor(Len(ordered), size)
        BY <1>1, <3>3, <3>7, TypeParts DEF OrderTypes, PagesCurrent
      <4>2. PICK p \in 1 .. pageCount, u \in 0 .. (size - 1) : (p - 1) * size + u + 1 = n
        BY <3>2, <4>1, PageAndSlot
      <4>3. PICK k \in S : Slot(S, k) = u
        BY <3>6
      <4>4. ConnectsFrom(p, k) /\ Position(p, k) = n /\ k \in KeysOf(caps)
        BY <3>1, <3>4, <3>5, <4>2, <4>3
      <4>5. ASSUME NEW q \in 1 .. pageCount, NEW j \in KeysOf(caps), ConnectsFrom(q, j), Position(q, j) = n
            PROVE  q = p /\ j = k
        <5>1. j \in S /\ Slot(S, j) \in 0 .. (size - 1) /\ (q - 1) * size + Slot(S, j) + 1 = n
          BY <3>4, <3>5, <3>6, <4>5
        <5>2. q \in Nat /\ p \in Nat
          OBVIOUS
        <5>3. q = p /\ Slot(S, j) = u
          BY <3>2, <4>2, <5>1, <5>2, OnePageAndSlot
        <5>4. QED
          BY <3>6, <4>3, <5>1, <5>3
      <4>6. QED
        BY <4>4, <4>5
    <3>8. QED
      BY <3>7 DEF SessionsPlaced
  <2>3. QED
    BY <2>1, <2>2
<1>2. Spec => []PagesCurrent
  BY PagesInit, PagesStep, PTL DEF Spec
<1>3. QED
  BY <1>1, <1>2, PlanAlways, FaceTypeCorrect, PTL

-----------------------------------------------------------------------------
\* Answers tell sessions apart.
LEMMA AnswersTyped ==
  ASSUME ServerTypes
  PROVE  /\ \A s \in Answers : /\ IdOf(s) \in live /\ IdOf(s) \in Ids /\ s = Describe(IdOf(s))
                               /\ s.name = IdOf(s).name /\ s.name \in Nat /\ s.fired \in Nat
         /\ \A s \in Answers : s.needs \in BOOLEAN
<1>1. live \subseteq Ids /\ bells \in [Ids -> Ring]
  BY DEF ServerTypes
<1>2. \A s \in Answers : \E id \in live : s = Describe(id) /\ IdOf(s) = id
  BY <1>1, Described DEF Answers
<1>3. QED
  BY <1>1, <1>2, Described

\* Where no session that needs nothing shares its name with one that needs
\* attention, each poll lists every session that the view shows, and each once,
\* those that need attention first and the last bell first, for any server,
\* settings and number of sessions (attention.py, apply_attention_sort; views.py,
\* resolve_view).
THEOREM OrderAlwaysHonest == Spec => OrderHonest
<1> DEFINE Honest ==
      /\ {ordered'[i] : i \in DOMAIN ordered'} = Visible
      /\ \A i, j \in DOMAIN ordered' : i < j =>
           /\ ordered'[i] # ordered'[j]
           /\ byBell => \/ ordered'[i].needs /\ ~ordered'[j].needs
                        \/ /\ ordered'[i].needs = ordered'[j].needs
                           /\ ordered'[i].fired >= ordered'[j].fired
<1>1. ASSUME FaceTypeOK, Poll, ~Loses PROVE Honest
  <2>1. ServerTypes /\ live \subseteq Ids /\ listing \in Orders /\ bells \in [Ids -> Ring]
    BY <1>1, TypeParts DEF ServerTypes
  <2>2. /\ ordered' \in Seq(Answers)
        /\ {ordered'[i] : i \in DOMAIN ordered'} = {s \in Visible : ~Shadowed(s)}
        /\ \A i, j \in DOMAIN ordered' : i < j => Precedes(Arrangement, ordered'[i], ordered'[j])
    BY <1>1, <2>1, PolledOnce
  <2>3. \A i \in DOMAIN ordered' : ordered'[i] \in Answers
    BY <2>2, LenProperties
  <2>4. \A s \in Visible : ~Shadowed(s)
    BY <1>1, Zenon DEF Loses, Shadowed
  <2>5. {ordered'[i] : i \in DOMAIN ordered'} = Visible
    BY <2>2, <2>4
  <2>6. ASSUME NEW i \in DOMAIN ordered', NEW j \in DOMAIN ordered', i < j
        PROVE  /\ ordered'[i] # ordered'[j]
               /\ byBell => \/ ordered'[i].needs /\ ~ordered'[j].needs
                            \/ /\ ordered'[i].needs = ordered'[j].needs
                               /\ ordered'[i].fired >= ordered'[j].fired
    <3> DEFINE s == ordered'[i]
               t == ordered'[j]
    <3>1. s \in Answers /\ t \in Answers /\ Precedes(Arrangement, s, t)
      BY <2>2, <2>3, <2>6
    <3>2. /\ s.name \in Nat /\ s.fired \in Nat /\ IdOf(s) \in Ids
          /\ t.name \in Nat /\ t.fired \in Nat /\ IdOf(t) \in Ids
      BY <2>1, <3>1, AnswersTyped
    <3>3. s.needs \in BOOLEAN /\ t.needs \in BOOLEAN
      BY <2>1, <3>1, AnswersTyped
    <3> HIDE DEF s, t
    <3>4. ~Precedes(Arrangement, t, s)
      BY <2>1, <3>1, <3>2, NowArranged, PrecedesOneWay
    <3>5. s # t
      BY <3>1, <3>4
    <3>6. (s.fired > t.fired => s.fired >= t.fired) /\ (s.fired = t.fired => s.fired >= t.fired)
      BY <3>2
    <3>7. (s.needs <=> t.needs) => s.needs = t.needs
      BY <3>3
    <3>8. byBell => \/ s.needs /\ ~t.needs
                    \/ s.needs = t.needs /\ s.fired >= t.fired
      BY <3>1, <3>6, <3>7, NowArranged, Zenon DEF Precedes
    <3>9. QED
      BY <3>5, <3>8, Zenon DEF s, t
  <2>7. QED
    BY <2>5, <2>6, Zenon
<1>2. FaceTypeOK /\ [Next]_vars => [Poll /\ ~Loses => Honest]_vars
  BY <1>1
<1>3. QED
  BY <1>2, FaceTypeCorrect, PTL DEF Spec, OrderHonest

-----------------------------------------------------------------------------
\* Between polls the keys stay in the order that the last poll found, by what it
\* sorted by: what the order is made of is in the list itself.
OrderKept ==
  \A i, j \in DOMAIN ordered : i < j => Precedes(arranged, ordered[i], ordered[j])

LEMMA KeptInit == Init => OrderKept
<1>1. QED
  BY NothingBound DEF Init, OrderKept

LEMMA KeptStep == FaceTypeOK /\ OrderKept /\ [Next]_vars => OrderKept'
<1> SUFFICES ASSUME FaceTypeOK, OrderKept, [Next]_vars PROVE OrderKept'
  OBVIOUS
<1>1. ASSUME UNCHANGED <<ordered, arranged>> PROVE OrderKept'
  BY <1>1 DEF OrderKept
<1>2. CASE UNCHANGED vars \/ ServerStep
  BY <1>1, <1>2 DEF vars, listVars, ServerStep
<1>3. CASE Poll
  <2>1. live \subseteq Ids /\ listing \in Orders /\ bells \in [Ids -> Ring]
    BY TypeParts DEF ServerTypes
  <2>2. \A i, j \in DOMAIN ordered' : i < j => Precedes(Arrangement, ordered'[i], ordered'[j])
    BY <1>3, <2>1, PolledOnce
  <2>3. arranged' = Arrangement
    BY <1>3 DEF Poll
  <2>4. QED
    BY <2>2, <2>3 DEF OrderKept
<1>4. ASSUME NEW n, Moves(n) PROVE OrderKept'
  BY <1>1, <1>4 DEF Moves
<1>5. ASSUME NEW action, Pages(action) PROVE OrderKept'
  BY <1>4, <1>5 DEF Pages
<1>6. ASSUME NEW c \in Decks, BringUp(c) PROVE OrderKept'
  BY <1>6, NothingBound DEF BringUp, OrderKept
<1>7. ASSUME NEW file \in Files, ApplyReload(file) PROVE OrderKept'
  BY <1>1, <1>7 DEF ApplyReload
<1>8. CASE \E k \in KeysOf(caps) : PressKey(k)
  BY <1>5, <1>8 DEF PressKey
<1>9. CASE \E d \in DialsOf(caps) : PushDial(d) \/ \E ticks \in {-1, 1} : TurnDial(d, ticks)
  BY <1>4, <1>5, <1>9 DEF PushDial, TurnDial
<1>10. QED
  BY <1>2, <1>3, <1>6, <1>7, <1>8, <1>9 DEF Next, DeckStep

\* Two sessions change places between polls only when a bell of theirs changed or
\* a setting that orders them, whatever else the server, its settings, the files
\* and the pages do (attention.py:10-18).
THEOREM OrderAlwaysSteady == Spec => OrderSteady
<1> DEFINE Steady ==
      \A i, j \in DOMAIN ordered, m, n \in DOMAIN ordered' :
        (/\ i < j /\ SameBell(ordered[i], ordered'[m]) /\ SameBell(ordered[j], ordered'[n])
         /\ SameRule(ordered[i], ordered[j]))
          => m < n
<1>1. ASSUME FaceTypeOK, OrderKept, Poll PROVE Steady
  <2>1. ServerTypes /\ live \subseteq Ids /\ listing \in Orders /\ bells \in [Ids -> Ring]
    BY <1>1, TypeParts DEF ServerTypes
  <2>2. /\ ordered' \in Seq(Answers)
        /\ \A i, j \in DOMAIN ordered' : i < j => Precedes(Arrangement, ordered'[i], ordered'[j])
    BY <1>1, <2>1, PolledOnce
  <2>3. DOMAIN ordered' \subseteq Nat /\ \A i \in DOMAIN ordered' : ordered'[i] \in Answers
    BY <2>2, LenProperties
  <2>4. ASSUME NEW i \in DOMAIN ordered, NEW j \in DOMAIN ordered,
               NEW m \in DOMAIN ordered', NEW n \in DOMAIN ordered',
               i < j, SameBell(ordered[i], ordered'[m]), SameBell(ordered[j], ordered'[n]),
               SameRule(ordered[i], ordered[j])
        PROVE  m < n
    <3> DEFINE s == ordered'[m]
               t == ordered'[n]
    <3>1. s \in Answers /\ t \in Answers
      BY <2>3
    <3>2. /\ s.name \in Nat /\ s.fired \in Nat /\ IdOf(s) \in Ids
          /\ t.name \in Nat /\ t.fired \in Nat /\ IdOf(t) \in Ids
      BY <2>1, <3>1, AnswersTyped
    <3>3. Precedes(arranged, ordered[i], ordered[j])
      BY <1>1, <2>4 DEF OrderKept
    <3>4. /\ IdOf(ordered[i]) = IdOf(s) /\ ordered[i].needs = s.needs /\ ordered[i].fired = s.fired
          /\ IdOf(ordered[j]) = IdOf(t) /\ ordered[j].needs = t.needs /\ ordered[j].fired = t.fired
      BY <2>4 DEF SameBell
    <3> HIDE DEF s, t
    <3>5. \A x, y : IdOf(x) = IdOf(y) => x.name = y.name
      BY DEF IdOf
    <3>6. Precedes(arranged, s, t)
      BY <3>3, <3>4, <3>5, Zenon DEF Precedes, ListedBefore
    <3>7. Precedes(Arrangement, s, t)
      <4>1. CASE arranged = Arrangement
        BY <3>6, <4>1
      <4>2. CASE arranged # Arrangement
        <5>1. arranged.byBell /\ byBell /\ (s.needs # t.needs \/ s.fired # t.fired)
          BY <2>4, <3>4, <4>2, Zenon DEF SameRule
        <5>2. s.needs \in BOOLEAN /\ t.needs \in BOOLEAN
          BY <2>1, <3>1, AnswersTyped
        <5>3. (s.needs <=> t.needs) => s.needs = t.needs
          BY <5>2
        <5>4. QED
          BY <3>6, <5>1, <5>3, NowArranged, Zenon DEF Precedes
      <4>3. QED
        BY <4>1, <4>2
    <3>8. ~Precedes(Arrangement, t, s)
      BY <2>1, <3>2, <3>7, NowArranged, PrecedesOneWay
    <3>9. ~(n < m) /\ m # n
      BY <2>2, <3>7, <3>8 DEF s, t
    <3>10. m \in Nat /\ n \in Nat
      BY <2>3
    <3>11. QED
      BY <3>9, <3>10
  <2>5. QED
    BY <2>4
<1>2. FaceTypeOK /\ OrderKept /\ [Next]_vars => [Poll => Steady]_vars
  BY <1>1
<1>3. Spec => []OrderKept
  <2>1. Init /\ [][Next]_vars /\ []FaceTypeOK => []OrderKept
    BY KeptInit, KeptStep, PTL
  <2>2. QED
    BY <2>1, FaceTypeCorrect, PTL DEF Spec
<1>4. QED
  BY <1>2, <1>3, FaceTypeCorrect, PTL DEF Spec, OrderSteady

-----------------------------------------------------------------------------
\* Where names are unique and entries name one session, the deck's matching by
\* name is the server's.
LEMMA ShowsWhatTheServerHas ==
  ASSUME ServerTypes, NoNamesakes, NEW id \in live
  PROVE  Shows(settings, view, Describe(id)) <=> InView(id)
<1> DEFINE s == Describe(id)
           hides == \E m \in settings.hidden : Names(m, id)
<1>1. s.name = id.name /\ s.views = ServerViews(id)
  BY Described DEF ServerTypes
<1> HIDE DEF s
<1>2. \A m \in settings.hidden : m.name = id.name <=> Names(m, id)
  BY Zenon DEF NoNamesakes, Names
<1>3. \A v \in DOMAIN settings.pins : \A m \in settings.pins[v] : m.name = id.name <=> Names(m, id)
  BY Zenon DEF NoNamesakes, Names
<1>4. MemberMatches(s.name, settings.hidden) <=> hides
  BY <1>1, <1>2, Zenon DEF MemberMatches
<1>5. ASSUME view \in DOMAIN settings.pins
      PROVE  IsViewMember(s, view, settings.pins[view]) <=>
               \/ \E m \in settings.pins[view] : Names(m, id)
               \/ settings.annotates /\ id.name \in settings.rules[view]
  <2>1. MemberMatches(s.name, settings.pins[view]) <=> \E m \in settings.pins[view] : Names(m, id)
    BY <1>1, <1>3, <1>5, Zenon DEF MemberMatches
  <2>2. CASE settings.annotates
    <3>1. view \in s.views <=> \/ \E m \in settings.pins[view] : Names(m, id)
                               \/ id.name \in settings.rules[view]
      BY <1>1, <1>5, <2>2, Zenon DEF ServerViews
    <3>2. CASE s.views # {}
      BY <2>2, <3>1, <3>2, Zenon DEF IsViewMember
    <3>3. CASE s.views = {}
      <4>1. view \notin s.views
        BY <3>3
      <4>2. QED
        BY <2>1, <3>1, <3>3, <4>1, Zenon DEF IsViewMember
    <3>4. QED
      BY <3>2, <3>3
  <2>3. CASE ~settings.annotates
    <3>1. s.views = {}
      BY <1>1, <2>3, Zenon DEF ServerViews
    <3>2. QED
      BY <2>1, <2>3, <3>1, Zenon DEF IsViewMember
  <2>4. QED
    BY <2>2, <2>3
<1>6. CASE view = "hidden"
  BY <1>4, <1>6 DEF Shows, InView, s
<1>7. CASE view = "all"
  BY <1>4, <1>7 DEF Shows, InView, s
<1>8. CASE view \in DOMAIN settings.pins \ {"all", "hidden"}
  BY <1>4, <1>5, <1>8 DEF Shows, InView, s
<1>9. CASE view \notin {"all", "hidden"} /\ view \notin DOMAIN settings.pins
  BY <1>9 DEF Shows, InView
<1>10. QED
  BY <1>6, <1>7, <1>8, <1>9

\* Where no two devices have sessions of one name, each poll shows exactly what
\* the server has in the view, whether it resolves views or is too old to, and
\* however it writes its entries (views.py, _is_view_member).
THEOREM ViewAlwaysTruthful == Spec => ViewTruthful
<1> DEFINE Truthful ==
      {IdOf(ordered'[i]) : i \in DOMAIN ordered'} = {id \in live : InView(id)}
<1>1. ASSUME FaceTypeOK, Poll, NoNamesakes PROVE Truthful
  <2>1. ServerTypes /\ live \subseteq Ids /\ listing \in Orders /\ bells \in [Ids -> Ring]
    BY <1>1, TypeParts DEF ServerTypes
  <2>2. {ordered'[i] : i \in DOMAIN ordered'} = {s \in Visible : ~Shadowed(s)}
    BY <1>1, <2>1, PolledOnce
  <2>3. Visible = {s \in Answers : Shows(settings, view, s)}
    BY <2>1, ListedOnce DEF Visible
  <2>4. ASSUME NEW s \in Visible PROVE ~Shadowed(s)
    <3>1. \A t \in Visible : t.name = s.name => t = s
      <4>1. \A t \in Visible : /\ IdOf(t) \in live /\ t = Describe(IdOf(t))
                               /\ t.name = IdOf(t).name
        BY <2>1, <2>3, AnswersTyped
      <4>2. QED
        BY <1>1, <2>4, <4>1 DEF NoNamesakes
    <3>2. QED
      BY <3>1, Zenon DEF Shadowed
  <2>5. {ordered'[i] : i \in DOMAIN ordered'} = Visible
    BY <2>2, <2>4
  <2>6. \A id \in live : /\ Describe(id) \in Visible <=> InView(id)
                         /\ IdOf(Describe(id)) = id
    BY <1>1, <2>1, <2>3, ShowsWhatTheServerHas, Described DEF Answers
  <2>7. \A s \in Visible : IdOf(s) \in live /\ s = Describe(IdOf(s))
    BY <2>1, <2>3, AnswersTyped
  <2>8. \A i \in DOMAIN ordered' : IdOf(ordered'[i]) \in {id \in live : InView(id)}
    BY <2>5, <2>6, <2>7
  <2>9. ASSUME NEW id \in live, InView(id) PROVE \E i \in DOMAIN ordered' : IdOf(ordered'[i]) = id
    BY <2>5, <2>6, <2>9
  <2>10. QED
    BY <2>8, <2>9
<1>2. FaceTypeOK /\ [Next]_vars => [Poll /\ NoNamesakes => Truthful]_vars
  BY <1>1
<1>3. QED
  BY <1>2, FaceTypeCorrect, PTL DEF Spec, ViewTruthful
=============================================================================
