----------------------------- MODULE KeySurface -----------------------------
(***************************************************************************)
(* What the keys of the deck show and what pressing them does: the paging, *)
(* picking, painting and reloading parts of class _ActiveRuntime           *)
(* (main.py), with Pager and PickerController (interaction.py) and         *)
(* LayoutPlan (layout.py).  The poll loop and the device-callback thread   *)
(* both paint.  A paint holds paint_lock and the deck's lock and is one    *)
(* step; repaint's look at the picker's mode comes before it, unlocked.    *)
(* The status screen takes the deck's lock only.                           *)
(***************************************************************************)
EXTENDS Integers, Sequences, FiniteSets

CONSTANTS
  Sessions,     \* sessions by (name, remote_id)
  NoSession,    \* active_session is None
  Lists,        \* the ordered session lists a poll can produce
  ViewOptions,  \* ViewCycler.names(), the options of the view picker
  NumKeys,      \* keys are numbered from 0
  Plans,        \* the layout plans config.json can give a deck
  Poll, Hid     \* the two painting threads

Keys == 0 .. (NumKeys - 1)
Threads == {Poll, Hid}

\* The actions of the catalog that concern what the keys show.
PageActions == {"page_picker", "page_prev", "page_next", "page_first", "page_last"}
KeyActions == {"session", "none", "view_picker"} \cup PageActions

\* `reduced`: mode is MODE_REDUCED; `strip`: use_strip; `bind`: each key's
\* action.  On a FULL deck the dials drive the pickers and the pages.
LayoutPlan == [reduced : BOOLEAN, strip : BOOLEAN, bind : [Keys -> KeyActions]]

ASSUME SurfaceAssumption ==
  /\ NumKeys \in Nat \ {0}
  /\ NoSession \notin Sessions
  /\ Lists \subseteq Seq(Sessions)
  /\ Plans \subseteq LayoutPlan
  /\ Len(ViewOptions) \in Nat
  /\ Poll # Hid

VARIABLES
  plan,
  ordered, activeSession,
  page, pageCount,           \* Pager
  mode, window,              \* PickerController
  pageSessions,              \* session_names / page_sessions
  shown,                     \* what each key physically shows
  cache,                     \* last_key_state
  shownError,                \* shown_error_state
  pc,                        \* where each thread is
  todo                       \* the mode repaint read; where the thread goes next

listVars == <<ordered, activeSession>>
pagerVars == <<page, pageCount>>
pickerVars == <<mode, window>>
paintVars == <<shown, cache, pageSessions>>
threadVars == <<pc, todo>>
vars == <<plan, listVars, pagerVars, pickerVars, paintVars, shownError, threadVars>>

Modes == {"none", "view", "page"}
Errors == {"none", "auth", "unreachable"}
PC == {"process", "repaint", "paint", "reload", "invalidate", "idle"}

-----------------------------------------------------------------------------
\* An identity is what last_key_state compares: None for an empty slot or a
\* forgotten key, else a tuple of what the key's picture is made of.
None == <<"None">>
Tile(s, active) == <<"session", s, active>>
Option(o) == <<"picker", o>>
Control(action, text) == <<"control", action, text>>
PickerBlank == <<"picker-blank">>

\* What a key painted under an identity shows.
Blank == <<"blank">>
Status == <<"status">>
Face(id) == IF id \in {None, PickerBlank, Control("none", <<>>)} THEN Blank ELSE id

PageText(n, count) == IF count > 1 THEN <<n, count>> ELSE <<>>

KeyTypeOK ==
  /\ plan \in Plans
  /\ ordered \in Seq(Sessions) /\ pageSessions \in Seq(Sessions)
  /\ activeSession \in Sessions \cup {NoSession}
  /\ page \in Nat \ {0} /\ pageCount \in Nat \ {0}
  /\ mode \in Modes /\ window \in Nat
  /\ DOMAIN shown = Keys /\ DOMAIN cache = Keys
  /\ shownError \in Errors
  /\ pc \in [Threads -> PC]
  /\ todo \in [Threads -> [mode : Modes, then : PC]]

-----------------------------------------------------------------------------
\* LayoutPlan.

\* What the surface uses of the plan that plan_layout computes for a deck.
Catalog == INSTANCE ControlPlan
Surface(caps, controls) ==
  LET computed == Catalog!PlanLayout(caps, controls)
  IN [reduced |-> ~computed.full, strip |-> caps.touch,
      bind |-> [k \in Keys |-> computed.bindings[Catalog!Key(k)]]]

IsSlot(pl, k) == pl.bind[k] = "session"
SessionSlots(pl) == {k \in Keys : IsSlot(pl, k)}
AtLeastOne(n) == IF n < 1 THEN 1 ELSE n
SessionsPerPage(pl) == AtLeastOne(Cardinality(SessionSlots(pl)))

\* The slots are numbered from 0 in the order of their keys.
SlotOf(pl, k) == Cardinality({j \in SessionSlots(pl) : j < k})
IsFirstBound(pl, k, a) ==
  pl.bind[k] = a /\ \A j \in Keys : pl.bind[j] = a => k <= j
HasViewKey(pl) == \E k \in Keys : pl.bind[k] = "view_picker"

\* The picker of dial-less decks: options on the session slots only.
ReducedPicker(pl) == pl.reduced /\ HasViewKey(pl)

StatusScreen(pl) ==
  [k \in Keys |->
     IF ~pl.strip /\ IF HasViewKey(pl) THEN IsFirstBound(pl, k, "view_picker") ELSE k = 0
     THEN Status ELSE Blank]

-----------------------------------------------------------------------------
\* Pager.

AtMost(n, high) == IF n > high THEN high ELSE n
Clamp(n, low, high) == AtMost(IF n < low THEN low ELSE n, high)
PagesFor(count, size) == AtLeastOne((count + size - 1) \div size)

\* Defect: the page is not clamped when the list shrinks below it.
SetItemCount_NoClamp(count, size, from) ==
  pageCount' = PagesFor(count, size) /\ page' = from

SetItemCount(count, size, from) ==
  /\ pageCount' = PagesFor(count, size)
  /\ page' = AtMost(from, PagesFor(count, size))

\* Defect: turning back from the first page is not clamped.
GoToPage_Unclamped(n) == page' = AtMost(n, pageCount) /\ UNCHANGED pageCount

GoToPage(n) == page' = Clamp(n, 1, pageCount) /\ UNCHANGED pageCount

PageStart == (page - 1) * SessionsPerPage(plan)
PageOfSessions ==
  SubSeq(ordered, PageStart + 1, AtMost(PageStart + SessionsPerPage(plan), Len(ordered)))

-----------------------------------------------------------------------------
\* PickerController and the options it windows.

ClampWindow(start, total, size) ==
  Clamp(start, 0, IF total <= size THEN 0 ELSE ((total - 1) \div size) * size)

PickerPageSize == IF ReducedPicker(plan) THEN SessionsPerPage(plan) ELSE NumKeys
PickerTotal(m) == IF m = "view" THEN Len(ViewOptions) ELSE pageCount
PickerOption(m, i) == IF m = "view" THEN ViewOptions[i + 1] ELSE i + 1

TogglePicker(m) == mode' = (IF mode = m THEN "none" ELSE m) /\ window' = 0
ExitPicker == mode' = "none" /\ window' = 0

-----------------------------------------------------------------------------
\* The painters: _paint_keys and _paint_control_keys; _paint_picker_keys and
\* _paint_reduced_picker.

SessionIdentity(k) ==
  CASE IsSlot(plan, k) /\ SlotOf(plan, k) < Len(PageOfSessions) ->
         LET s == PageOfSessions[SlotOf(plan, k) + 1] IN Tile(s, s = activeSession)
    [] IsSlot(plan, k) /\ SlotOf(plan, k) >= Len(PageOfSessions) -> None
    [] plan.bind[k] \in PageActions -> Control(plan.bind[k], PageText(page, pageCount))
    [] OTHER -> Control(plan.bind[k], <<>>)

WindowIdentity(m, i) == IF i < PickerTotal(m) THEN Option(PickerOption(m, i)) ELSE None

PickerIdentity(m, start, k) ==
  LET size == PickerPageSize
      text == PageText(start \div size + 1, PagesFor(PickerTotal(m), size))
  IN CASE ~ReducedPicker(plan) -> WindowIdentity(m, start + k)
       [] ReducedPicker(plan) /\ IsSlot(plan, k) -> WindowIdentity(m, start + SlotOf(plan, k))
       [] ReducedPicker(plan) /\ IsFirstBound(plan, k, "view_picker") -> Control("back", m)
       [] ReducedPicker(plan) /\ \E a \in {"page_prev", "page_next"} : IsFirstBound(plan, k, a) ->
            Control(plan.bind[k], text)
       [] OTHER -> PickerBlank

\* What a paint in mode m wants on key k.
Wanted(m, k) ==
  IF m = "none" THEN SessionIdentity(k)
  ELSE PickerIdentity(m, ClampWindow(window, PickerTotal(m), PickerPageSize), k)

-----------------------------------------------------------------------------
Init ==
  /\ plan \in Plans
  /\ ordered = <<>> /\ activeSession = NoSession
  /\ page = 1 /\ pageCount = 1
  /\ mode = "none" /\ window = 0
  /\ pageSessions = <<>>
  /\ shown = StatusScreen(plan)
  /\ cache = [k \in Keys |-> None]
  /\ shownError = "none"
  /\ pc = [p \in Threads |-> IF p = Poll THEN "process" ELSE "idle"]
  /\ todo = [p \in Threads |-> [mode |-> "none", then |-> "idle"]]

At(p, l) == pc[p] = l
Goto(p, l) == pc' = [pc EXCEPT ![p] = l] /\ UNCHANGED todo

\* Go to repaint, then to the step `next`.
GotoRepaint(p, next) ==
  /\ pc' = [pc EXCEPT ![p] = "repaint"]
  /\ todo' = [todo EXCEPT ![p].then = next]

\* refresh answered: _process, whose view may have changed since the last one.
\* A commit from a picker repaints once more after its refresh.
Process(p) ==
  /\ At(p, "process")
  /\ ordered' \in Lists
  /\ activeSession' \in Sessions \cup {NoSession}
  /\ \E from \in {1, page} : SetItemCount(Len(ordered'), SessionsPerPage(plan), from)
  /\ shownError' = IF p = Poll THEN "none" ELSE shownError
  /\ GotoRepaint(p, IF p = Poll THEN "reload" ELSE "repaint")
  /\ UNCHANGED <<plan, pickerVars, paintVars>>

\* A failed commit is reported on the strip; the keys are repainted.
CommitFails ==
  /\ At(Hid, "process")
  /\ GotoRepaint(Hid, "idle")
  /\ UNCHANGED <<plan, listVars, pagerVars, pickerVars, paintVars, shownError>>

\* Defect: the status screen leaves the diff cache as it was.
PollFails_KeepsCache(error) ==
  /\ At(Poll, "process")
  /\ IF shownError = error THEN UNCHANGED shown ELSE shown' = StatusScreen(plan)
  /\ shownError' = error
  /\ UNCHANGED <<plan, listVars, pagerVars, pickerVars, pageSessions, cache, threadVars>>

\* A failed poll shows the status screen once per kind of error.
PollFails(error) ==
  /\ At(Poll, "process")
  /\ IF shownError = error THEN UNCHANGED <<shown, threadVars>>
     ELSE shown' = StatusScreen(plan) /\ Goto(Poll, "invalidate")
  /\ shownError' = error
  /\ UNCHANGED <<plan, listVars, pagerVars, pickerVars, pageSessions, cache>>

\* invalidate_paint_cache
Invalidate ==
  /\ At(Poll, "invalidate")
  /\ cache' = [k \in Keys |-> None]
  /\ Goto(Poll, "process")
  /\ UNCHANGED <<plan, listVars, pagerVars, pickerVars, pageSessions, shown, shownError>>

\* repaint reads the picker's mode, then takes paint_lock.
Repaint(p) ==
  /\ At(p, "repaint")
  /\ pc' = [pc EXCEPT ![p] = "paint"]
  /\ todo' = [todo EXCEPT ![p].mode = mode]
  /\ UNCHANGED <<plan, listVars, pagerVars, pickerVars, paintVars, shownError>>

\* _repaint_sessions or _repaint_picker: only keys whose identity changed are
\* sent a new image.
Paint(p) ==
  /\ At(p, "paint")
  /\ LET m == todo[p].mode
     IN /\ cache' = [k \in Keys |-> Wanted(m, k)]
        /\ shown' = [k \in Keys |-> IF cache[k] = cache'[k] THEN shown[k] ELSE Face(cache'[k])]
        /\ IF m = "none" THEN pageSessions' = PageOfSessions /\ UNCHANGED window
           ELSE /\ window' = ClampWindow(window, PickerTotal(m), PickerPageSize)
                /\ UNCHANGED pageSessions
  /\ pc' = [pc EXCEPT ![p] = todo[p].then]
  /\ todo' = [todo EXCEPT ![p].then = "idle"]
  /\ UNCHANGED <<plan, listVars, pagerVars, mode, shownError>>

\* Defect: the diff cache outlives the plan it was painted under.
Reload_KeepsCache ==
  /\ At(Poll, "reload")
  /\ plan' \in {pl \in Plans : pl.reduced = plan.reduced /\ pl.strip = plan.strip}
  /\ SetItemCount(Len(ordered), SessionsPerPage(plan'), page)
  /\ GotoRepaint(Poll, "process") \/ Goto(Poll, "process")
  /\ UNCHANGED <<listVars, pickerVars, pageSessions, shown, cache, shownError>>

\* watcher.poll() and apply_reload; a changed appearance repaints at once.
\* What the deck is built like does not change.
Reload ==
  /\ At(Poll, "reload")
  /\ plan' \in {pl \in Plans : pl.reduced = plan.reduced /\ pl.strip = plan.strip}
  /\ SetItemCount(Len(ordered), SessionsPerPage(plan'), page)
  /\ cache' = [k \in Keys |-> None]
  /\ GotoRepaint(Poll, "process") \/ Goto(Poll, "process")
  /\ UNCHANGED <<listVars, pickerVars, pageSessions, shown, shownError>>

NoReload ==
  /\ At(Poll, "reload")
  /\ Goto(Poll, "process")
  /\ UNCHANGED <<plan, listVars, pagerVars, pickerVars, paintVars, shownError>>

-----------------------------------------------------------------------------
\* Device events, on the callback thread: handle_key by the picker's mode and
\* the key's binding, handle_dial_push, handle_dial_turn.

ReducedViewPicker == mode = "view" /\ ReducedPicker(plan)

\* handle_picker_key clamps the window it is given, the other pickers do not.
WindowStart ==
  IF ReducedViewPicker THEN ClampWindow(window, PickerTotal(mode), PickerPageSize) ELSE window

\* Defect: the reduced picker counts its options by key, not by session slot.
OptionIndex_ByKey(k) == WindowStart + k

OptionIndex(k) == WindowStart + IF ReducedViewPicker THEN SlotOf(plan, k) ELSE k

\* A press on k selects an option of the open picker.
Selects(k) ==
  /\ mode # "none"
  /\ ReducedViewPicker => IsSlot(plan, k)
  /\ OptionIndex(k) < PickerTotal(mode)

Selected(k) == PickerOption(mode, OptionIndex(k))

\* _commit_view follows: refresh, then repaint.
PickView(k) ==
  /\ At(Hid, "idle") /\ mode = "view" /\ Selects(k)
  /\ ExitPicker
  /\ Goto(Hid, "process")
  /\ UNCHANGED <<plan, listVars, pagerVars, paintVars, shownError>>

PickPage(k) ==
  /\ At(Hid, "idle") /\ mode = "page" /\ Selects(k)
  /\ ExitPicker
  /\ GoToPage(Selected(k))
  /\ GotoRepaint(Hid, "idle")
  /\ UNCHANGED <<plan, listVars, paintVars, shownError>>

\* An empty key closes the picker; on the reduced view picker it is ignored,
\* and the reserved keys mean BACK, PREV and NEXT.
PressEmptyOption(k) ==
  /\ At(Hid, "idle") /\ mode # "none" /\ ~ReducedViewPicker /\ ~Selects(k)
  /\ ExitPicker
  /\ GotoRepaint(Hid, "idle")
  /\ UNCHANGED <<plan, listVars, pagerVars, paintVars, shownError>>

PressReserved(k) ==
  /\ At(Hid, "idle") /\ ReducedViewPicker /\ ~Selects(k)
  /\ \/ plan.bind[k] \in {"view_picker", "page_picker"} /\ ExitPicker
     \/ /\ plan.bind[k] = "page_prev"
        /\ window' = ClampWindow(WindowStart - PickerPageSize, PickerTotal(mode), PickerPageSize)
        /\ UNCHANGED mode
     \/ /\ plan.bind[k] = "page_next"
        /\ window' = ClampWindow(WindowStart + PickerPageSize, PickerTotal(mode), PickerPageSize)
        /\ UNCHANGED mode
     \/ /\ plan.bind[k] \notin {"view_picker", "page_picker", "page_prev", "page_next"}
        /\ UNCHANGED pickerVars
  /\ GotoRepaint(Hid, "idle")
  /\ UNCHANGED <<plan, listVars, pagerVars, paintVars, shownError>>

Connects(k) == mode = "none" /\ IsSlot(plan, k) /\ SlotOf(plan, k) < Len(pageSessions)
Connected(k) == pageSessions[SlotOf(plan, k) + 1]

\* connect_slot: the highlight moves at once.
PressSession(k) ==
  /\ At(Hid, "idle") /\ Connects(k)
  /\ activeSession' = Connected(k)
  /\ GotoRepaint(Hid, "idle")
  /\ UNCHANGED <<plan, ordered, pagerVars, pickerVars, paintVars, shownError>>

\* _dispatch_control_action, for a key or a dial push.
Dispatch(action) ==
  \/ action = "view_picker" /\ TogglePicker("view") /\ UNCHANGED pagerVars
  \/ action = "page_picker" /\ TogglePicker("page") /\ UNCHANGED pagerVars
  \/ action = "page_prev" /\ GoToPage(page - 1) /\ UNCHANGED pickerVars
  \/ action = "page_next" /\ GoToPage(page + 1) /\ UNCHANGED pickerVars
  \/ action = "page_first" /\ GoToPage(1) /\ UNCHANGED pickerVars
  \/ action = "page_last" /\ GoToPage(pageCount) /\ UNCHANGED pickerVars

PressControl(k) ==
  /\ At(Hid, "idle") /\ mode = "none"
  /\ Dispatch(plan.bind[k])
  /\ GotoRepaint(Hid, "idle")
  /\ UNCHANGED <<plan, listVars, paintVars, shownError>>

PushDial(action) ==
  /\ At(Hid, "idle") /\ ~plan.reduced
  /\ Dispatch(action)
  /\ GotoRepaint(Hid, "idle")
  /\ UNCHANGED <<plan, listVars, paintVars, shownError>>

\* page_cycle and, when its picker is open, either dial's scrolling.
TurnDial(ticks) ==
  /\ At(Hid, "idle") /\ ~plan.reduced
  /\ \/ mode = "none" /\ GoToPage(page + ticks) /\ UNCHANGED pickerVars
     \/ /\ mode # "none"
        /\ window' = ClampWindow(window + ticks * NumKeys, PickerTotal(mode), NumKeys)
        /\ UNCHANGED <<mode, pagerVars>>
  /\ GotoRepaint(Hid, "idle")
  /\ UNCHANGED <<plan, listVars, paintVars, shownError>>

DeviceEvent ==
  \/ \E k \in Keys :
       PickView(k) \/ PickPage(k) \/ PressEmptyOption(k) \/ PressReserved(k)
       \/ PressSession(k) \/ PressControl(k)
  \/ \E a \in {"view_picker", "page_picker"} : PushDial(a)
  \/ \E ticks \in {-1, 1} : TurnDial(ticks)

PollStep ==
  \/ Process(Poll) \/ Invalidate \/ Repaint(Poll) \/ Paint(Poll) \/ Reload \/ NoReload
  \/ \E error \in Errors \ {"none"} : PollFails(error)

HidStep == Process(Hid) \/ CommitFails \/ Repaint(Hid) \/ Paint(Hid)

Next == PollStep \/ HidStep \/ DeviceEvent

\* The loop keeps polling; a handler that started a repaint finishes it.
Spec == Init /\ [][Next]_vars /\ WF_vars(PollStep) /\ WF_vars(HidStep)

-----------------------------------------------------------------------------
\* The diff cache never claims a key shows what it does not, so a skipped
\* image is never missing; only between the status screen and the
\* invalidation that follows it is the cache known to be wrong.
CacheHonest ==
  ~At(Poll, "invalidate") =>
    \A k \in Keys : cache[k] # None => shown[k] = Face(cache[k])

\* Whatever list a poll brings and whatever page size a reload brings, the
\* page the deck is on has a session on it, if there is a session at all.
PageNeverEmpty == ordered # <<>> => PageOfSessions # <<>>

\* What a press on key k does, as the picture that announces it.
Meaning(k) ==
  CASE Selects(k) -> Option(Selected(k))
    [] ReducedViewPicker /\ plan.bind[k] \in {"view_picker", "page_picker"} ->
         Control("back", "view")
    [] ReducedViewPicker /\ plan.bind[k] \in {"page_prev", "page_next"} ->
         Control(plan.bind[k], PageText(WindowStart \div PickerPageSize + 1,
                                        PagesFor(PickerTotal(mode), PickerPageSize)))
    [] Connects(k) -> Tile(Connected(k), Connected(k) = activeSession)
    [] mode = "none" /\ plan.bind[k] \in PageActions ->
         Control(plan.bind[k], PageText(page, pageCount))
    [] mode = "none" /\ plan.bind[k] = "view_picker" -> Control("view_picker", <<>>)
    [] OTHER -> None

\* Every key whose press does something shows what that is.
Faithful == \A k \in Keys : Meaning(k) # None => shown[k] = Meaning(k)

\* A paint in the picker mode that is in force leaves no key that does one
\* thing and shows another, and puts no picture on a key that does nothing.
\* Further keys bound like the reduced picker's BACK, PREV and NEXT act like
\* them but are blank; between the status screen and the invalidation after it
\* the cache is wrong; the page picker of a dial-less deck paints slots and
\* reads keys (_paint_keys, _paint_control_keys, _paint_picker_keys,
\* _paint_reduced_picker).
PaintsTellTruth ==
  [][\A p \in Threads : Paint(p) =>
       \/ todo[p].mode # mode \/ At(Poll, "invalidate")
       \/ mode = "page" /\ ReducedPicker(plan)
       \/ \A k \in Keys :
            \/ shown'[k] = Meaning(k)'
            \/ Meaning(k)' = None /\ shown'[k] \in {Blank, shown[k]}
            \/ /\ ReducedViewPicker /\ ~IsSlot(plan, k) /\ shown'[k] = Blank
               /\ \A a \in {"view_picker", "page_prev", "page_next"} : ~IsFirstBound(plan, k, a)]_vars

\* A poll that succeeds and brings nothing new, and no event or reload.
Quiet ==
  /\ ~DeviceEvent
  /\ shownError' = "none"
  /\ UNCHANGED <<plan, ordered, activeSession>>

\* Once polls succeed and nothing changes any more, the keys tell the truth for
\* good: no interleaving of the two painters, a status screen, a reload and a
\* picker leaves a key that shows one thing and does another.
EventuallyFaithful == <>[][Quiet]_vars => <>[]Faithful

\* apply_reload's docstring: the paint cache is invalidated "so the next
\* `repaint()` redraws every key under the new bindings"; a repaint leaves no
\* picture on a key that has nothing to show.
EmptySlotsBlank ==
  [][\A p \in Threads : Paint(p) =>
       \A k \in Keys : cache'[k] = None => shown'[k] = Blank]_vars

\* A key that was painted as a session since the plan last changed connects
\* that session, whatever polls, pages, pickers and other threads' paints came
\* between the picture and the press (connect_slot: the mapping from slot to
\* session "is kept in lockstep with what's actually painted", main.py:1922).
ConnectsPainted ==
  [][\A k \in Keys : PressSession(k) =>
       \A s \in Sessions : cache[k] \in {Tile(s, TRUE), Tile(s, FALSE)} =>
         activeSession' = s]_vars
=============================================================================
