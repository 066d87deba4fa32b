-------------------------- MODULE KeySurfaceProofs --------------------------
(***************************************************************************)
(* What the keys guarantee for every layout plan, session list and picker: *)
(* the page in view is never past the end, and the diff cache never skips  *)
(* an image that is missing.  The inductive invariant adds to the types    *)
(* that the pager is in lockstep with the list and the plan.               *)
(***************************************************************************)
EXTENDS KeySurface, FiniteSetTheorems, SequenceTheorems, TLAPS

PagerInLockstep ==
  /\ pageCount = PagesFor(Len(ordered), SessionsPerPage(plan))
  /\ page <= pageCount

KeyInv == KeyTypeOK /\ PagerInLockstep /\ CacheHonest

-----------------------------------------------------------------------------
\* Sizes and counts.

LEMMA PageSize == \A pl \in LayoutPlan : SessionsPerPage(pl) \in Nat \ {0}
<1> TAKE pl \in LayoutPlan
<1>1. IsFiniteSet(Keys)
  BY SurfaceAssumption, FS_Interval DEF Keys
<1>2. IsFiniteSet(SessionSlots(pl))
  BY <1>1, FS_Subset DEF SessionSlots
<1>3. Cardinality(SessionSlots(pl)) \in Nat
  BY <1>2, FS_CardinalityType
<1>4. QED
  BY <1>3 DEF SessionsPerPage, AtLeastOne

LEMMA SlotType == \A pl \in LayoutPlan, k \in Keys : SlotOf(pl, k) \in Nat
<1> TAKE pl \in LayoutPlan, k \in Keys
<1>1. IsFiniteSet(Keys)
  BY SurfaceAssumption, FS_Interval DEF Keys
<1>2. IsFiniteSet({j \in SessionSlots(pl) : j < k})
  BY <1>1, FS_Subset DEF SessionSlots
<1>3. QED
  BY <1>2, FS_CardinalityType DEF SlotOf

LEMMA PagesType ==
  ASSUME NEW count \in Nat, NEW size \in Nat \ {0}
  PROVE  PagesFor(count, size) \in Nat \ {0}
BY SMT DEF PagesFor, AtLeastOne

\* The last page PagesFor grants still begins before the end of the list.
LEMMA LastPageOccupied ==
  ASSUME NEW count \in Nat \ {0}, NEW size \in Nat \ {0}, NEW n \in Nat \ {0},
         n <= PagesFor(count, size)
  PROVE  (n - 1) * size < count
<1>1. (count + size - 1) \div size >= 1
  <2>1. \A a \in Nat, b \in Nat \ {0} : a < b * (a \div b) + b /\ a \div b \in Nat
    BY SMT
  <2>2. count + size - 1 \in Nat
    OBVIOUS
  <2>3. CASE (count + size - 1) \div size = 0
    BY <2>1, <2>2, <2>3
  <2>4. QED
    BY <2>1, <2>2, <2>3
<1>2. n <= (count + size - 1) \div size
  BY <1>1 DEF PagesFor, AtLeastOne
<1>3. QED
  BY <1>2, SMT

LEMMA WindowType ==
  ASSUME NEW start \in Int, NEW total \in Nat, NEW size \in Nat \ {0}
  PROVE  ClampWindow(start, total, size) \in Nat
<1>1. CASE total <= size
  BY <1>1 DEF ClampWindow, Clamp, AtMost
<1>2. CASE total > size
  <2>1. (total - 1) \div size \in Nat
    BY <1>2, SMT
  <2>2. ((total - 1) \div size) * size \in Nat
    BY <2>1, SMT
  <2>3. QED
    BY <1>2, <2>2 DEF ClampWindow, Clamp, AtMost
<1>3. QED
  BY <1>1, <1>2

LEMMA SizesType ==
  ASSUME KeyTypeOK
  PROVE  /\ PickerPageSize \in Nat \ {0}
         /\ SessionsPerPage(plan) \in Nat \ {0}
         /\ \A m \in {"view", "page"} : PickerTotal(m) \in Nat
BY PageSize, SurfaceAssumption DEF KeyTypeOK, PickerPageSize, PickerTotal

LEMMA WindowClamped ==
  ASSUME KeyTypeOK, NEW m \in {"view", "page"}, NEW start \in Int
  PROVE  ClampWindow(start, PickerTotal(m), PickerPageSize) \in Nat
BY SizesType, WindowType

\* What Pager.set_item_count leaves behind.
LEMMA ItemCountSet ==
  ASSUME NEW count \in Nat, NEW size \in Nat \ {0}, NEW from \in Nat \ {0},
         SetItemCount(count, size, from)
  PROVE  /\ pageCount' = PagesFor(count, size) /\ pageCount' \in Nat \ {0}
         /\ page' \in Nat \ {0} /\ page' <= pageCount'
BY PagesType DEF SetItemCount, AtMost

LEMMA PageGoneTo ==
  ASSUME KeyTypeOK, PagerInLockstep, NEW n \in Int, GoToPage(n)
  PROVE  /\ pageCount' = pageCount
         /\ page' \in Nat \ {0} /\ page' <= pageCount
BY DEF KeyTypeOK, GoToPage, Clamp, AtMost, PagerInLockstep

-----------------------------------------------------------------------------
LEMMA KeyInvInit == Init => KeyInv
<1> SUFFICES ASSUME Init PROVE KeyInv
  OBVIOUS
<1>1. SessionsPerPage(plan) \in Nat \ {0}
  BY PageSize, SurfaceAssumption DEF Init
<1>2. PagesFor(0, SessionsPerPage(plan)) \in Nat \ {0}
  BY <1>1, PagesType
<1>3. (0 + SessionsPerPage(plan) - 1) \div SessionsPerPage(plan) = 0
  BY <1>1, SMT
<1>4. PagesFor(0, SessionsPerPage(plan)) = 1
  BY <1>3 DEF PagesFor, AtLeastOne
<1>5. KeyTypeOK
  BY SurfaceAssumption DEF Init, KeyTypeOK, StatusScreen, Modes, Errors, PC, Threads
<1>6. PagerInLockstep
  BY <1>4 DEF Init, PagerInLockstep
<1>7. CacheHonest
  BY DEF Init, CacheHonest
<1>8. QED
  BY <1>5, <1>6, <1>7 DEF KeyInv

\* A step that paints nothing keeps the cache honest, if it does not leave the
\* gap between the status screen and the invalidation.
LEMMA CacheKept ==
  ASSUME CacheHonest, UNCHANGED paintVars, ~At(Poll, "invalidate")
  PROVE  CacheHonest'
BY DEF CacheHonest, paintVars

LEMMA CacheKeptByHid ==
  ASSUME CacheHonest, UNCHANGED paintVars, pc'[Poll] = pc[Poll]
  PROVE  CacheHonest'
BY DEF CacheHonest, paintVars, At

\* The poll loop's and the handlers' steps.

LEMMA ProcessKeeps ==
  ASSUME KeyInv, NEW p \in Threads, Process(p)
  PROVE  KeyInv'
<1> USE DEF KeyInv
<1>1. PICK from \in {1, page} : SetItemCount(Len(ordered'), SessionsPerPage(plan), from)
  BY DEF Process
<1>2. ordered' \in Seq(Sessions)
  BY SurfaceAssumption DEF Process
<1>3. /\ pageCount' = PagesFor(Len(ordered'), SessionsPerPage(plan)) /\ pageCount' \in Nat \ {0}
      /\ page' \in Nat \ {0} /\ page' <= pageCount'
  <2>1. Len(ordered') \in Nat /\ from \in Nat \ {0}
    BY <1>2 DEF KeyTypeOK
  <2>2. QED
    BY <1>1, <2>1, SizesType, ItemCountSet
<1>4. KeyTypeOK'
  BY <1>2, <1>3 DEF Process, KeyTypeOK, GotoRepaint, pickerVars, paintVars, Errors, PC
<1>5. PagerInLockstep'
  BY <1>3 DEF Process, PagerInLockstep
<1>6. CacheHonest'
  <2>1. CASE p = Poll
    BY <2>1, CacheKept DEF Process, At
  <2>2. CASE p # Poll
    BY <2>2, CacheKeptByHid DEF Process, GotoRepaint, KeyTypeOK
  <2>3. QED
    BY <2>1, <2>2
<1>7. QED
  BY <1>4, <1>5, <1>6

LEMMA RepaintKeeps ==
  ASSUME KeyInv, NEW p \in Threads, Repaint(p)
  PROVE  KeyInv'
<1> USE DEF KeyInv
<1>1. KeyTypeOK'
  BY DEF Repaint, KeyTypeOK, listVars, pagerVars, pickerVars, paintVars, PC
<1>2. PagerInLockstep'
  BY DEF Repaint, PagerInLockstep, listVars, pagerVars
<1>3. CacheHonest'
  <2>1. CASE p = Poll
    BY <2>1, CacheKept DEF Repaint, At
  <2>2. CASE p # Poll
    BY <2>2, CacheKeptByHid DEF Repaint, KeyTypeOK
  <2>3. QED
    BY <2>1, <2>2
<1>4. QED
  BY <1>1, <1>2, <1>3

\* The only step that sends images: every key either gets the picture of its
\* new identity, or had it.
LEMMA PaintKeeps ==
  ASSUME KeyInv, NEW p \in Threads, Paint(p)
  PROVE  KeyInv'
<1> USE DEF KeyInv
<1>1. todo[p].mode \in Modes /\ todo[p].then \in PC
  BY DEF KeyTypeOK
<1>2. pageSessions' \in Seq(Sessions)
  <2>1. CASE todo[p].mode = "none"
    <3>1. PageStart \in Nat
      BY SizesType, SMT DEF PageStart, KeyTypeOK
    <3>2. PageStart + SessionsPerPage(plan) \in Nat /\ Len(ordered) \in Nat
      BY <3>1, SizesType DEF KeyTypeOK
    <3>3. AtMost(PageStart + SessionsPerPage(plan), Len(ordered)) \in 0 .. Len(ordered)
      BY <3>2 DEF AtMost
    <3>4. \A i \in (PageStart + 1) .. AtMost(PageStart + SessionsPerPage(plan), Len(ordered)) :
             ordered[i] \in Sessions
      BY <3>1, <3>3 DEF KeyTypeOK
    <3>5. PageOfSessions \in Seq(Sessions)
      BY <3>1, <3>3, <3>4, SubSeqProperties DEF PageOfSessions
    <3>6. QED
      BY <2>1, <3>5 DEF Paint
  <2>2. CASE todo[p].mode # "none"
    BY <2>2 DEF Paint, KeyTypeOK
  <2>3. QED
    BY <2>1, <2>2
<1>3. window' \in Nat
  <2>1. CASE todo[p].mode = "none"
    BY <2>1 DEF Paint, KeyTypeOK
  <2>2. CASE todo[p].mode # "none"
    <3>1. todo[p].mode \in {"view", "page"}
      BY <1>1, <2>2 DEF Modes
    <3>2. window \in Int
      BY DEF KeyTypeOK
    <3>3. ClampWindow(window, PickerTotal(todo[p].mode), PickerPageSize) \in Nat
      BY <3>1, <3>2, WindowClamped
    <3>4. QED
      BY <2>2, <3>3 DEF Paint
  <2>3. QED
    BY <2>1, <2>2
<1>4. KeyTypeOK'
  BY <1>1, <1>2, <1>3 DEF Paint, KeyTypeOK, listVars, pagerVars, PC
<1>5. PagerInLockstep'
  BY DEF Paint, PagerInLockstep, listVars, pagerVars
<1>6. CacheHonest'
  <2> SUFFICES ASSUME ~At(Poll, "invalidate")', NEW k \in Keys, cache'[k] # None
               PROVE  shown'[k] = Face(cache'[k])
    BY DEF CacheHonest
  <2>1. shown'[k] = IF cache[k] = cache'[k] THEN shown[k] ELSE Face(cache'[k])
    BY DEF Paint
  <2>2. ~At(Poll, "invalidate")
    BY DEF Paint, At, KeyTypeOK
  <2>3. QED
    BY <2>1, <2>2 DEF CacheHonest
<1>7. QED
  BY <1>4, <1>5, <1>6

LEMMA ReloadKeeps ==
  ASSUME KeyInv, Reload
  PROVE  KeyInv'
<1> USE DEF KeyInv
<1>1. SessionsPerPage(plan') \in Nat \ {0}
  BY PageSize, SurfaceAssumption DEF Reload
<1>2. /\ pageCount' = PagesFor(Len(ordered), SessionsPerPage(plan')) /\ pageCount' \in Nat \ {0}
      /\ page' \in Nat \ {0} /\ page' <= pageCount'
  <2>1. Len(ordered) \in Nat /\ page \in Nat \ {0}
    BY DEF KeyTypeOK
  <2>2. SetItemCount(Len(ordered), SessionsPerPage(plan'), page)
    BY DEF Reload
  <2>3. QED
    BY <1>1, <2>1, <2>2, ItemCountSet
<1>3. KeyTypeOK'
  BY <1>2 DEF Reload, KeyTypeOK, GotoRepaint, Goto, listVars, pickerVars, PC
<1>4. PagerInLockstep'
  BY <1>2 DEF Reload, PagerInLockstep, listVars
<1>5. CacheHonest'
  BY DEF Reload, CacheHonest
<1>6. QED
  BY <1>3, <1>4, <1>5

\* The remaining steps of both threads.
LEMMA ThreadStepKeeps ==
  ASSUME KeyInv, PollStep \/ HidStep
  PROVE  KeyInv'
<1> USE DEF KeyInv
<1>1. CASE \E p \in Threads : Process(p) \/ Repaint(p) \/ Paint(p)
  BY <1>1, ProcessKeeps, RepaintKeeps, PaintKeeps
<1>2. CASE CommitFails
  <2>1. KeyTypeOK'
    BY <1>2 DEF CommitFails, KeyTypeOK, GotoRepaint, listVars, pagerVars, pickerVars, paintVars, PC
  <2>2. PagerInLockstep'
    BY <1>2 DEF CommitFails, PagerInLockstep, listVars, pagerVars
  <2>3. CacheHonest'
    BY <1>2, SurfaceAssumption, CacheKeptByHid DEF CommitFails, GotoRepaint, KeyTypeOK, Threads
  <2>4. QED
    BY <2>1, <2>2, <2>3
<1>3. CASE \E error \in Errors \ {"none"} : PollFails(error)
  <2>1. PICK error \in Errors \ {"none"} : PollFails(error)
    BY <1>3
  <2>2. KeyTypeOK'
    BY <2>1 DEF PollFails, KeyTypeOK, StatusScreen, Goto, listVars, pagerVars, pickerVars, threadVars, PC
  <2>3. PagerInLockstep'
    BY <2>1 DEF PollFails, PagerInLockstep, listVars, pagerVars
  <2>4. CacheHonest'
    BY <2>1 DEF PollFails, CacheHonest, Goto, At, threadVars, KeyTypeOK, Threads
  <2>5. QED
    BY <2>2, <2>3, <2>4
<1>4. CASE Invalidate
  BY <1>4 DEF Invalidate, KeyTypeOK, PagerInLockstep, CacheHonest, Goto, listVars, pagerVars, pickerVars, PC
<1>5. CASE Reload
  BY <1>5, ReloadKeeps
<1>6. CASE NoReload
  <2>1. KeyTypeOK'
    BY <1>6 DEF NoReload, KeyTypeOK, Goto, listVars, pagerVars, pickerVars, paintVars, PC
  <2>2. PagerInLockstep'
    BY <1>6 DEF NoReload, PagerInLockstep, listVars, pagerVars
  <2>3. CacheHonest'
    BY <1>6, CacheKept DEF NoReload, At
  <2>4. QED
    BY <2>1, <2>2, <2>3
<1>7. Poll \in Threads /\ Hid \in Threads
  BY DEF Threads
<1>8. QED
  BY <1>1, <1>2, <1>3, <1>4, <1>5, <1>6, <1>7 DEF PollStep, HidStep

-----------------------------------------------------------------------------
\* Device events paint nothing and touch only the callback thread's place, the
\* page, the picker and the highlight.

LEMMA OptionIndexType ==
  ASSUME KeyTypeOK, mode # "none", NEW k \in Keys
  PROVE  WindowStart \in Nat /\ OptionIndex(k) \in Nat
<1>1. mode \in {"view", "page"} /\ window \in Int /\ window \in Nat /\ plan \in LayoutPlan
  BY SurfaceAssumption DEF KeyTypeOK, Modes
<1>2. WindowStart \in Nat
  BY <1>1, WindowClamped DEF WindowStart
<1>3. SlotOf(plan, k) \in Nat /\ k \in Nat
  BY <1>1, SlotType, SurfaceAssumption DEF Keys
<1>4. QED
  BY <1>2, <1>3 DEF OptionIndex

LEMMA DispatchKeeps ==
  ASSUME KeyTypeOK, PagerInLockstep, NEW action, Dispatch(action)
  PROVE  /\ mode' \in Modes /\ window' \in Nat
         /\ pageCount' = pageCount
         /\ page' \in Nat \ {0} /\ page' <= pageCount
<1>1. page \in Int /\ pageCount \in Int /\ page - 1 \in Int /\ page + 1 \in Int
  BY DEF KeyTypeOK
<1>2. ASSUME NEW n \in Int, GoToPage(n), UNCHANGED pickerVars
      PROVE  /\ mode' \in Modes /\ window' \in Nat
             /\ pageCount' = pageCount
             /\ page' \in Nat \ {0} /\ page' <= pageCount
  <2>1. mode' \in Modes /\ window' \in Nat
    BY <1>2 DEF pickerVars, KeyTypeOK
  <2>2. QED
    BY <1>2, <2>1, PageGoneTo
<1>3. ASSUME NEW m \in {"view", "page"}, TogglePicker(m), UNCHANGED pagerVars
      PROVE  /\ mode' \in Modes /\ window' \in Nat
             /\ pageCount' = pageCount
             /\ page' \in Nat \ {0} /\ page' <= pageCount
  BY <1>3 DEF TogglePicker, pagerVars, Modes, KeyTypeOK, PagerInLockstep
<1>4. QED
  BY <1>1, <1>2, <1>3 DEF Dispatch

\* What every device event leaves alone, and what it may change.
EventShape ==
  /\ UNCHANGED <<plan, ordered, paintVars, shownError>>
  /\ activeSession' \in Sessions \cup {NoSession}
  /\ mode' \in Modes /\ window' \in Nat
  /\ pageCount' = pageCount
  /\ page' \in Nat \ {0} /\ page' <= pageCount
  /\ Goto(Hid, "process") \/ GotoRepaint(Hid, "idle")

LEMMA EventShapeKeeps ==
  ASSUME KeyInv, EventShape
  PROVE  KeyInv'
<1> USE DEF KeyInv
<1>1. pc' \in [Threads -> PC] /\ todo' \in [Threads -> [mode : Modes, then : PC]]
  BY DEF EventShape, Goto, GotoRepaint, KeyTypeOK, PC
<1>2. KeyTypeOK'
  BY <1>1 DEF EventShape, KeyTypeOK, paintVars
<1>3. PagerInLockstep'
  BY DEF EventShape, PagerInLockstep
<1>4. CacheHonest'
  BY SurfaceAssumption, CacheKeptByHid DEF EventShape, Goto, GotoRepaint, KeyTypeOK, Threads
<1>5. QED
  BY <1>2, <1>3, <1>4

LEMMA EventHasShape ==
  ASSUME KeyInv, DeviceEvent
  PROVE  EventShape
<1> USE DEF KeyInv
<1>0. /\ activeSession \in Sessions \cup {NoSession} /\ mode \in Modes /\ window \in Nat
      /\ page \in Nat \ {0} /\ page <= pageCount
  BY DEF KeyTypeOK, PagerInLockstep
<1>1. ASSUME NEW k \in Keys, PickView(k)
      PROVE  EventShape
  BY <1>0, <1>1 DEF PickView, ExitPicker, EventShape, listVars, pagerVars, Modes
<1>2. ASSUME NEW k \in Keys, PickPage(k)
      PROVE  EventShape
  <2>1. OptionIndex(k) + 1 \in Int
    BY <1>2, OptionIndexType DEF PickPage
  <2>2. Selected(k) = OptionIndex(k) + 1
    BY <1>2 DEF PickPage, Selected, PickerOption
  <2>3. GoToPage(OptionIndex(k) + 1)
    BY <1>2, <2>2 DEF PickPage
  <2>4. pageCount' = pageCount /\ page' \in Nat \ {0} /\ page' <= pageCount
    BY <2>1, <2>3, PageGoneTo
  <2>5. QED
    BY <1>0, <1>2, <2>4 DEF PickPage, ExitPicker, EventShape, listVars, Modes
<1>3. ASSUME NEW k \in Keys, PressEmptyOption(k)
      PROVE  EventShape
  BY <1>0, <1>3 DEF PressEmptyOption, ExitPicker, EventShape, listVars, pagerVars, Modes
<1>4. ASSUME NEW k \in Keys, PressReserved(k)
      PROVE  EventShape
  <2>1. mode = "view" /\ mode # "none"
    BY <1>4 DEF PressReserved, ReducedViewPicker
  <2>2. WindowStart \in Nat /\ PickerPageSize \in Nat
    BY <2>1, OptionIndexType, SizesType
  <2>3. /\ ClampWindow(WindowStart - PickerPageSize, PickerTotal(mode), PickerPageSize) \in Nat
        /\ ClampWindow(WindowStart + PickerPageSize, PickerTotal(mode), PickerPageSize) \in Nat
    <3>1. WindowStart - PickerPageSize \in Int /\ WindowStart + PickerPageSize \in Int
      BY <2>2
    <3>2. mode \in {"view", "page"}
      BY <2>1
    <3>3. QED
      BY <3>1, <3>2, WindowClamped
  <2>4. mode' \in Modes /\ window' \in Nat
    BY <1>0, <1>4, <2>3 DEF PressReserved, ExitPicker, Modes, pickerVars
  <2>5. QED
    BY <1>0, <1>4, <2>4 DEF PressReserved, EventShape, listVars, pagerVars
<1>5. ASSUME NEW k \in Keys, PressSession(k)
      PROVE  EventShape
  <2>1. SlotOf(plan, k) \in Nat
    BY SlotType, SurfaceAssumption DEF KeyTypeOK
  <2>2. Connected(k) \in Sessions
    BY <1>5, <2>1 DEF PressSession, Connects, Connected, KeyTypeOK
  <2>3. QED
    BY <1>0, <1>5, <2>2 DEF PressSession, EventShape, pagerVars, pickerVars
<1>6. ASSUME NEW k \in Keys, PressControl(k)
      PROVE  EventShape
  <2>1. Dispatch(plan.bind[k])
    BY <1>6 DEF PressControl
  <2>2. QED
    BY <1>0, <1>6, <2>1, DispatchKeeps DEF PressControl, EventShape, listVars
<1>7. ASSUME NEW a \in {"view_picker", "page_picker"}, PushDial(a)
      PROVE  EventShape
  BY <1>0, <1>7, DispatchKeeps DEF PushDial, EventShape, listVars
<1>8. ASSUME NEW ticks \in {-1, 1}, TurnDial(ticks)
      PROVE  EventShape
  <2>1. CASE mode = "none"
    <3>1. page + ticks \in Int
      BY <1>0
    <3>2. GoToPage(page + ticks) /\ UNCHANGED pickerVars
      BY <1>8, <2>1 DEF TurnDial
    <3>3. pageCount' = pageCount /\ page' \in Nat \ {0} /\ page' <= pageCount
      BY <3>1, <3>2, PageGoneTo
    <3>4. QED
      BY <1>0, <1>8, <3>2, <3>3 DEF TurnDial, EventShape, listVars, pickerVars
  <2>2. CASE mode # "none"
    <3>1. window + ticks * NumKeys \in Int /\ NumKeys \in Nat \ {0}
      BY <1>0, SurfaceAssumption
    <3>2. PickerTotal(mode) \in Nat
      BY <1>0, <2>2, SizesType DEF Modes
    <3>3. ClampWindow(window + ticks * NumKeys, PickerTotal(mode), NumKeys) \in Nat
      BY <3>1, <3>2, WindowType
    <3>4. QED
      BY <1>0, <1>8, <2>2, <3>3 DEF TurnDial, EventShape, listVars, pagerVars
  <2>3. QED
    BY <2>1, <2>2
<1>9. QED
  BY <1>1, <1>2, <1>3, <1>4, <1>5, <1>6, <1>7, <1>8 DEF DeviceEvent

LEMMA KeyInvStep == KeyInv /\ [Next]_vars => KeyInv'
<1> SUFFICES ASSUME KeyInv, [Next]_vars PROVE KeyInv'
  OBVIOUS
<1>1. CASE UNCHANGED vars
  BY <1>1 DEF KeyInv, KeyTypeOK, PagerInLockstep, CacheHonest, At, vars, listVars,
     pagerVars, pickerVars, paintVars, threadVars
<1>2. QED
  BY <1>1, ThreadStepKeeps, EventHasShape, EventShapeKeeps DEF Next

-----------------------------------------------------------------------------
\* A full page size times the pages before the one in view leaves a session
\* for it.
LEMMA PageOccupied == KeyInv => PageNeverEmpty
<1> SUFFICES ASSUME KeyInv, ordered # <<>>
             PROVE  PageOfSessions # <<>>
  BY DEF PageNeverEmpty
<1> DEFINE last == AtMost(PageStart + SessionsPerPage(plan), Len(ordered))
<1>1. SessionsPerPage(plan) \in Nat \ {0} /\ Len(ordered) \in Nat \ {0} /\ page \in Nat \ {0}
  BY SizesType DEF KeyInv, KeyTypeOK
<1>2. PageStart < Len(ordered)
  BY <1>1, LastPageOccupied DEF KeyInv, PagerInLockstep, PageStart
<1>3. PageStart \in Nat
  BY <1>1, SMT DEF PageStart
<1>4. last \in Int /\ PageStart + 1 <= last /\ last <= Len(ordered)
  BY <1>1, <1>2, <1>3 DEF AtMost
<1>5. \A i \in (PageStart + 1) .. last : ordered[i] \in Sessions
  BY <1>3, <1>4 DEF KeyInv, KeyTypeOK
<1>6. /\ SubSeq(ordered, PageStart + 1, last) \in Seq(Sessions)
      /\ Len(SubSeq(ordered, PageStart + 1, last)) # 0
  BY <1>3, <1>4, <1>5, SubSeqProperties
<1>7. PageOfSessions \in Seq(Sessions) /\ Len(PageOfSessions) # 0
  BY <1>6 DEF PageOfSessions
<1>8. QED
  BY <1>7

\* A key whose identity is a session's tile connects that session: the tile was
\* painted from the page that a press is looked up in.
IsTile(id, s) == id \in {Tile(s, TRUE), Tile(s, FALSE)}

TilesInLockstep ==
  \A k \in Keys, s \in Sessions : IsTile(cache[k], s) => Connected(k) = s

LEMMA TileOwn ==
  ASSUME NEW s, NEW t, NEW b, IsTile(Tile(t, b), s)
  PROVE  t = s
<1>1. Tile(t, b)[2] = t /\ Tile(s, TRUE)[2] = s /\ Tile(s, FALSE)[2] = s
  BY DEF Tile
<1>2. QED
  BY <1>1, Zenon DEF IsTile

LEMMA OthersNotTiles ==
  ASSUME NEW s
  PROVE  /\ ~IsTile(None, s) /\ ~IsTile(PickerBlank, s)
         /\ \A o : ~IsTile(Option(o), s)
         /\ \A a, text : ~IsTile(Control(a, text), s)
<1>1. Tile(s, TRUE)[1] = "session" /\ Tile(s, FALSE)[1] = "session"
  BY DEF Tile
<1>2. None[1] = "None" /\ PickerBlank[1] = "picker-blank"
  BY DEF None, PickerBlank
<1>3. ASSUME NEW o PROVE Option(o)[1] = "picker"
  BY DEF Option
<1>4. ASSUME NEW a, NEW text PROVE Control(a, text)[1] = "control"
  BY DEF Control
<1>5. \A id : IsTile(id, s) => id[1] = "session"
  BY <1>1, Zenon DEF IsTile
<1>6. QED
  BY <1>2, <1>3, <1>4, <1>5

LEMMA PickersShowNoTiles ==
  ASSUME NEW m, NEW start, NEW k, NEW s
  PROVE  ~IsTile(PickerIdentity(m, start, k), s)
<1>1. \A i : ~IsTile(WindowIdentity(m, i), s)
  BY OthersNotTiles DEF WindowIdentity
<1>2. QED
  BY <1>1, OthersNotTiles DEF PickerIdentity

\* The only step that makes tiles takes the page they are from along.
LEMMA PaintInLockstep ==
  ASSUME KeyInv, TilesInLockstep, NEW p \in Threads, Paint(p)
  PROVE  TilesInLockstep'
<1> SUFFICES ASSUME NEW k \in Keys, NEW s \in Sessions, IsTile(cache'[k], s)
             PROVE  Connected(k)' = s
  BY DEF TilesInLockstep
<1>1. cache'[k] = Wanted(todo[p].mode, k)
  BY DEF Paint
<1>2. CASE todo[p].mode = "none"
  <2>1. cache'[k] = SessionIdentity(k) /\ pageSessions' = PageOfSessions /\ plan' = plan
    BY <1>1, <1>2 DEF Paint, Wanted
  <2> DEFINE t == PageOfSessions[SlotOf(plan, k) + 1]
  <2>2. SessionIdentity(k) = Tile(t, t = activeSession)
    BY <2>1, OthersNotTiles DEF SessionIdentity
  <2>3. t = s
    BY <2>1, <2>2, TileOwn
  <2>4. QED
    BY <2>1, <2>3 DEF Connected
<1>3. CASE todo[p].mode # "none"
  BY <1>1, <1>3, PickersShowNoTiles DEF Wanted
<1>4. QED
  BY <1>2, <1>3

LEMMA LockstepInit == Init => TilesInLockstep
BY OthersNotTiles DEF Init, TilesInLockstep

LEMMA LockstepStep == KeyInv /\ TilesInLockstep /\ [Next]_vars => TilesInLockstep'
<1> SUFFICES ASSUME KeyInv, TilesInLockstep, [Next]_vars PROVE TilesInLockstep'
  OBVIOUS
<1>1. CASE UNCHANGED <<plan, paintVars>>
  BY <1>1 DEF TilesInLockstep, Connected, paintVars
<1>2. CASE cache' = [k \in Keys |-> None]
  BY <1>2, OthersNotTiles DEF TilesInLockstep
<1>3. CASE \E p \in Threads : Paint(p)
  BY <1>3, PaintInLockstep
<1>4. ASSUME NEW error, PollFails(error) PROVE UNCHANGED <<plan, pageSessions, cache>>
  BY <1>4 DEF PollFails
<1>5. CASE UNCHANGED <<plan, pageSessions, cache>>
  BY <1>5 DEF TilesInLockstep, Connected
<1>6. CASE UNCHANGED vars
  BY <1>1, <1>6 DEF vars
<1>7. CASE PollStep \/ HidStep
  <2>1. Poll \in Threads /\ Hid \in Threads
    BY DEF Threads
  <2>2. ASSUME NEW p \in Threads, Process(p) \/ Repaint(p) \/ CommitFails \/ NoReload
        PROVE  UNCHANGED <<plan, paintVars>>
    BY <2>2 DEF Process, Repaint, CommitFails, NoReload
  <2>3. ASSUME Invalidate \/ Reload PROVE cache' = [k \in Keys |-> None]
    BY <2>3 DEF Invalidate, Reload
  <2>4. QED
    BY <1>1, <1>2, <1>3, <1>4, <1>5, <1>7, <2>1, <2>2, <2>3 DEF PollStep, HidStep
<1>8. CASE DeviceEvent
  BY <1>1, <1>8, EventHasShape DEF EventShape
<1>9. QED
  BY <1>6, <1>7, <1>8 DEF Next

-----------------------------------------------------------------------------
\* The plans that ControlPlan computes are plans of the surface.

LEMMA SameCount == \A S : Catalog!Cardinality(S) = Cardinality(S)
BY Zenon DEF Catalog!Cardinality, Cardinality

LEMMA KeyAddresses ==
  /\ \A m, n : Catalog!Key(m) = Catalog!Key(n) <=> m = n
  /\ \A n : Catalog!Key(n).control = "key" /\ Catalog!Key(n).index = n
BY DEF Catalog!Key

\* A default binding of a key is one of the surface's actions.
LEMMA DefaultKeyActions ==
  ASSUME NEW caps \in Catalog!Capabilities, NEW k
  PROVE  Catalog!DefaultKey(caps, k) \in KeyActions
<1> DEFINE r == Catalog!ReservedControlKeys(caps.rows, caps.cols)
<1>1. Catalog!ControlKeys(caps) \subseteq {r.view, r.prev, r.next}
  BY DEF Catalog!ControlKeys
<1>2. QED
  BY <1>1 DEF Catalog!DefaultKey, KeyActions, PageActions

\* The keys of a deck are its addresses of keys, and are bound by the file or
\* by default.
LEMMA KeyBindings ==
  ASSUME NEW caps \in Catalog!Capabilities, caps.keys = NumKeys,
         NEW controls, Catalog!ValidControls(controls)
  PROVE  /\ \A a \in DOMAIN Catalog!Bindings(caps, controls) :
              a.control = "key" => a.index \in Keys /\ a = Catalog!Key(a.index)
         /\ \A k \in Keys :
              /\ Catalog!Key(k) \in DOMAIN Catalog!Bindings(caps, controls)
              /\ Catalog!Bindings(caps, controls)[Catalog!Key(k)] =
                   IF Catalog!Key(k) \in DOMAIN controls THEN controls[Catalog!Key(k)]
                   ELSE Catalog!DefaultKey(caps, k)
<1> DEFINE own == Catalog!AddressesOf(caps)
           applicable == {a \in DOMAIN controls : Catalog!Applies(caps, a)}
<1>1. \A a \in own : a.control = "key" => a.index \in Keys /\ a = Catalog!Key(a.index)
  BY DEF Catalog!AddressesOf, Catalog!Key, Catalog!Turn, Catalog!Push, Catalog!KeysOf, Keys
<1>2. \A a \in applicable : a.control = "key" => a.index \in Keys /\ a = Catalog!Key(a.index)
  <2>1. \A a \in applicable : a \in Catalog!Address
    BY DEF Catalog!ValidControls, Catalog!ValidBinding
  <2>2. \A a \in Catalog!Address : a = [control |-> a.control, index |-> a.index] /\ a.index \in Nat
    BY DEF Catalog!Address
  <2>3. QED
    BY <2>1, <2>2, SurfaceAssumption DEF Catalog!Applies, Catalog!Key, Keys
<1>3. \A k \in Keys : Catalog!Key(k) \in own /\ Catalog!Applies(caps, Catalog!Key(k))
  BY KeyAddresses, SurfaceAssumption
     DEF Catalog!AddressesOf, Catalog!KeysOf, Catalog!Applies, Keys
<1>4. \A k \in Keys : Catalog!Key(k) \in applicable <=> Catalog!Key(k) \in DOMAIN controls
  BY <1>3
<1>5. DOMAIN Catalog!Bindings(caps, controls) = own \cup applicable
  BY DEF Catalog!Bindings
<1>6. \A k \in Keys : Catalog!DefaultBindings(caps)[Catalog!Key(k)] = Catalog!DefaultKey(caps, k)
  BY <1>3, KeyAddresses DEF Catalog!DefaultBindings
<1>7. \A a \in own \cup applicable :
        Catalog!Bindings(caps, controls)[a] =
          IF a \in applicable THEN controls[a] ELSE Catalog!DefaultBindings(caps)[a]
  BY DEF Catalog!Bindings
<1> HIDE DEF own, applicable
<1>8. QED
  BY <1>1, <1>2, <1>3, <1>4, <1>5, <1>6, <1>7

\* Whatever deck is plugged in and whatever a valid file binds its keys to
\* among the actions modelled here, the plan that plan_layout computes is one
\* the theorems below are about, and both models agree on what it means: which
\* keys are session slots, in which order, and how many sessions a page holds
\* (layout.py plan_layout and classify_key, as main.py uses them).
THEOREM PlansFitSurface ==
  ASSUME NEW caps \in Catalog!Capabilities, caps.keys = NumKeys,
         NEW controls, Catalog!ValidControls(controls),
         \A k \in Keys : Catalog!Key(k) \in DOMAIN controls => controls[Catalog!Key(k)] \in KeyActions
  PROVE  LET computed == Catalog!PlanLayout(caps, controls)
             pl == Surface(caps, controls)
         IN /\ pl \in LayoutPlan
            /\ SessionSlots(pl) = computed.slots
            /\ SessionsPerPage(pl) = computed.perPage
            /\ \A k \in Keys :
                 Catalog!ClassifyKey(computed, k) =
                   [action |-> pl.bind[k], slot |-> IF IsSlot(pl, k) THEN SlotOf(pl, k) ELSE -1]
<1> DEFINE computed == Catalog!PlanLayout(caps, controls)
           pl == Surface(caps, controls)
           b == Catalog!Bindings(caps, controls)
<1>1. computed.bindings = b /\ computed.slots = Catalog!SessionSlots(b)
  BY DEF Catalog!PlanLayout
<1>2. computed.perPage = IF computed.slots = {} THEN 1 ELSE Cardinality(computed.slots)
  <2>1. computed.perPage =
          IF Catalog!SessionSlots(b) = {} THEN 1 ELSE Cardinality(Catalog!SessionSlots(b))
    BY SameCount DEF Catalog!PlanLayout
  <2> HIDE DEF computed
  <2>2. QED
    BY <1>1, <2>1
<1>3. computed.full \in BOOLEAN /\ caps.touch \in BOOLEAN
  BY DEF Catalog!PlanLayout, Catalog!Full, Catalog!Capabilities
<1>4. pl = [reduced |-> ~computed.full, strip |-> caps.touch,
            bind |-> [k \in Keys |-> b[Catalog!Key(k)]]]
  BY <1>1 DEF Surface
<1> HIDE DEF computed, pl, b
<1>5. \A k \in Keys : pl.bind[k] = b[Catalog!Key(k)]
  BY <1>4
<1>6. \A k \in Keys : b[Catalog!Key(k)] \in KeyActions /\ Catalog!Key(k) \in DOMAIN b
  BY KeyBindings, DefaultKeyActions DEF b
<1>7. pl \in LayoutPlan
  BY <1>3, <1>4, <1>6 DEF LayoutPlan
<1>8. SessionSlots(pl) = computed.slots
  <2>1. \A k \in Keys : k \in computed.slots <=> b[Catalog!Key(k)] = "session"
    BY <1>1, <1>6, KeyBindings, KeyAddresses DEF Catalog!SessionSlots, b
  <2>2. computed.slots \subseteq Keys
    BY <1>1, KeyBindings DEF Catalog!SessionSlots, b
  <2>3. QED
    BY <1>5, <2>1, <2>2 DEF SessionSlots, IsSlot
<1>9. SessionsPerPage(pl) = computed.perPage
  <2>1. IsFiniteSet(SessionSlots(pl))
    <3>1. IsFiniteSet(Keys)
      BY SurfaceAssumption, FS_Interval DEF Keys
    <3>2. QED
      BY <3>1, FS_Subset DEF SessionSlots
  <2>2. Cardinality(SessionSlots(pl)) \in Nat
        /\ (Cardinality(SessionSlots(pl)) = 0 <=> SessionSlots(pl) = {})
    BY <2>1, FS_CardinalityType, FS_EmptySet
  <2>3. QED
    BY <1>2, <1>8, <2>2 DEF SessionsPerPage, AtLeastOne
<1>10. ASSUME NEW k \in Keys
       PROVE  Catalog!ClassifyKey(computed, k) =
                [action |-> pl.bind[k], slot |-> IF IsSlot(pl, k) THEN SlotOf(pl, k) ELSE -1]
  <2>1. IsSlot(pl, k) <=> k \in computed.slots
    BY <1>8 DEF SessionSlots
  <2>2. Catalog!ClassifyKey(computed, k) =
          [action |-> computed.bindings[Catalog!Key(k)],
           slot |-> IF k \in computed.slots THEN Cardinality({j \in computed.slots : j < k}) ELSE -1]
    <3>1. Catalog!Key(k) \in DOMAIN computed.bindings
      BY <1>1, <1>6
    <3>2. QED
      BY <3>1, SameCount, Zenon DEF Catalog!ClassifyKey
  <2>3. SlotOf(pl, k) = Cardinality({j \in computed.slots : j < k})
    BY <1>8 DEF SlotOf
  <2>4. QED
    BY <1>1, <1>5, <2>1, <2>2, <2>3
<1>11. QED
  BY <1>7, <1>8, <1>9, <1>10 DEF computed, pl

-----------------------------------------------------------------------------
\* What a paint tells about the press that follows.

\* A window that was clamped stays where it is.
LEMMA ClampedOnce ==
  ASSUME NEW start \in Int, NEW total \in Nat, NEW size \in Nat \ {0}
  PROVE  ClampWindow(ClampWindow(start, total, size), total, size) = ClampWindow(start, total, size)
<1> DEFINE high == IF total <= size THEN 0 ELSE ((total - 1) \div size) * size
<1>1. high \in Nat
  <2>1. CASE total > size
    <3>1. (total - 1) \div size \in Nat
      BY <2>1, SMT
    <3>2. QED
      BY <2>1, <3>1, SMT
  <2>2. QED
    BY <2>1
<1>2. \A n : ClampWindow(n, total, size) = Clamp(n, 0, high)
  BY DEF ClampWindow
<1> HIDE DEF high
<1>3. Clamp(Clamp(start, 0, high), 0, high) = Clamp(start, 0, high)
  BY <1>1 DEF Clamp, AtMost
<1>4. QED
  BY <1>2, <1>3

\* Pictures of different kinds differ, and an identity that has a picture of
\* its own is shown by it.
LEMMA Pictures ==
  /\ \A o : Face(Option(o)) = Option(o) /\ Option(o) # None
  /\ \A s, b : Face(Tile(s, b)) = Tile(s, b) /\ Tile(s, b) # None
  /\ \A a, text : /\ Control(a, text) # None
                  /\ a # "none" => Face(Control(a, text)) = Control(a, text)
  /\ Face(None) = Blank /\ Face(PickerBlank) = Blank /\ Face(Control("none", <<>>)) = Blank
  /\ PickerBlank # None
<1>1. None[1] = "None" /\ PickerBlank[1] = "picker-blank"
  BY DEF None, PickerBlank
<1>2. \A o : Option(o)[1] = "picker"
  BY DEF Option
<1>3. \A s, b : Tile(s, b)[1] = "session"
  BY DEF Tile
<1>4. \A a, text : Control(a, text)[1] = "control" /\ Control(a, text)[2] = a
  BY DEF Control
<1>5. \A id : id[1] \notin {"None", "picker-blank"} /\ (id[1] = "control" => id[2] # "none") => Face(id) = id
  BY <1>1, <1>4 DEF Face
<1>6. \A id : id[1] # "None" => id # None
  BY <1>1
<1>7. QED
  BY <1>1, <1>2, <1>3, <1>4, <1>5, <1>6 DEF Face

\* What a key wants to show says what a press on it does.
Announces(k, id) ==
  \/ id # None /\ Face(id) = Meaning(k)
  \/ Meaning(k) = None /\ Face(id) = Blank
  \/ /\ ReducedViewPicker /\ ~IsSlot(plan, k) /\ id = PickerBlank
     /\ \A a \in {"view_picker", "page_prev", "page_next"} : ~IsFirstBound(plan, k, a)

PageInForce == KeyTypeOK /\ mode = "none" /\ pageSessions = PageOfSessions
SessionsShown == \A k \in Keys : Announces(k, SessionIdentity(k))
LEMMA SessionsAnnounced == PageInForce => SessionsShown
<1> SUFFICES ASSUME KeyTypeOK, mode = "none", pageSessions = PageOfSessions, NEW k \in Keys
             PROVE  Announces(k, SessionIdentity(k))
  BY DEF PageInForce, SessionsShown
<1>1. ~Selects(k) /\ ~ReducedViewPicker
  BY DEF Selects, ReducedViewPicker
<1>2. plan.bind[k] \in KeyActions
  BY SurfaceAssumption DEF KeyTypeOK, LayoutPlan
<1>3. SlotOf(plan, k) \in Nat /\ Len(PageOfSessions) \in Nat
  BY SurfaceAssumption, SlotType DEF KeyTypeOK
<1>4. CASE IsSlot(plan, k) /\ SlotOf(plan, k) < Len(PageOfSessions)
  <2> DEFINE s == PageOfSessions[SlotOf(plan, k) + 1]
             tile == Tile(s, s = activeSession)
  <2>1. SessionIdentity(k) = tile
    BY <1>3, <1>4 DEF SessionIdentity, IsSlot, PageActions
  <2>2. Connects(k) /\ Connected(k) = s
    BY <1>4 DEF Connects, Connected
  <2>3. Meaning(k) = tile
    BY <1>1, <1>4, <2>2 DEF Meaning, IsSlot, PageActions
  <2>4. Face(tile) = tile /\ tile # None
    BY Pictures
  <2> HIDE DEF tile
  <2>5. QED
    BY <2>1, <2>3, <2>4, Zenon DEF Announces
<1>5. CASE IsSlot(plan, k) /\ ~(SlotOf(plan, k) < Len(PageOfSessions))
  <2>1. SessionIdentity(k) = None
    BY <1>3, <1>5 DEF SessionIdentity, IsSlot, PageActions
  <2>2. Meaning(k) = None
    BY <1>1, <1>5 DEF Meaning, Connects, IsSlot, PageActions
  <2>3. QED
    BY <2>1, <2>2, Pictures, Zenon DEF Announces
<1>6. CASE plan.bind[k] \in PageActions
  <2>1. SessionIdentity(k) = Control(plan.bind[k], PageText(page, pageCount))
    BY <1>6 DEF SessionIdentity, IsSlot, PageActions
  <2>2. Meaning(k) = Control(plan.bind[k], PageText(page, pageCount))
    BY <1>1, <1>6 DEF Meaning, Connects, IsSlot, PageActions
  <2>3. plan.bind[k] # "none"
    BY <1>6 DEF PageActions
  <2>4. QED
    BY <2>1, <2>2, <2>3, Pictures, Zenon DEF Announces
<1>7. CASE plan.bind[k] \in {"none", "view_picker"}
  <2>1. SessionIdentity(k) = Control(plan.bind[k], <<>>)
    BY <1>7 DEF SessionIdentity, IsSlot, PageActions
  <2>2. Meaning(k) = IF plan.bind[k] = "none" THEN None ELSE Control("view_picker", <<>>)
    BY <1>1, <1>7 DEF Meaning, Connects, IsSlot, PageActions
  <2>3. QED
    BY <1>7, <2>1, <2>2, Pictures DEF Announces
<1>8. QED
  BY <1>2, <1>4, <1>5, <1>6, <1>7 DEF KeyActions, IsSlot

WindowInForce ==
  /\ KeyTypeOK /\ mode # "none" /\ ~(mode = "page" /\ ReducedPicker(plan))
  /\ window = ClampWindow(window, PickerTotal(mode), PickerPageSize)
OptionsShown == \A k \in Keys : Announces(k, PickerIdentity(mode, window, k))
LEMMA OptionsAnnounced == WindowInForce => OptionsShown
<1> SUFFICES ASSUME KeyTypeOK, mode # "none", ~(mode = "page" /\ ReducedPicker(plan)),
                    window = ClampWindow(window, PickerTotal(mode), PickerPageSize),
                    NEW k \in Keys
             PROVE  Announces(k, PickerIdentity(mode, window, k))
  BY DEF WindowInForce, OptionsShown
<1>1. mode \in {"view", "page"} /\ (ReducedViewPicker <=> ReducedPicker(plan))
  BY DEF KeyTypeOK, Modes, ReducedViewPicker
<1>2. WindowStart = window /\ ~Connects(k)
  BY DEF WindowStart, Connects
<1>3. /\ \A i : i < PickerTotal(mode) =>
           WindowIdentity(mode, i) = Option(PickerOption(mode, i))
      /\ \A i : ~(i < PickerTotal(mode)) => WindowIdentity(mode, i) = None
  BY DEF WindowIdentity
<1>4. CASE ~ReducedPicker(plan)
  <2>1. /\ PickerIdentity(mode, window, k) = WindowIdentity(mode, window + k)
        /\ OptionIndex(k) = window + k
    BY <1>1, <1>2, <1>4 DEF PickerIdentity, OptionIndex
  <2>2. CASE Selects(k)
    <3>1. Meaning(k) = Option(Selected(k))
      BY <1>1, <1>2, <1>4, <2>2 DEF Meaning
    <3>2. PickerIdentity(mode, window, k) = Option(Selected(k))
      BY <1>3, <2>1, <2>2 DEF Selects, Selected
    <3>3. QED
      BY <3>1, <3>2, Pictures, Zenon DEF Announces
  <2>3. CASE ~Selects(k)
    <3>1. Meaning(k) = None
      BY <1>1, <1>2, <1>4, <2>3 DEF Meaning
    <3>2. PickerIdentity(mode, window, k) = None
      BY <1>1, <1>3, <1>4, <2>1, <2>3 DEF Selects
    <3>3. QED
      BY <3>1, <3>2, Pictures, Zenon DEF Announces
  <2>4. QED
    BY <2>2, <2>3
<1>5. CASE ReducedPicker(plan) /\ IsSlot(plan, k)
  <2>1. /\ PickerIdentity(mode, window, k) = WindowIdentity(mode, window + SlotOf(plan, k))
        /\ OptionIndex(k) = window + SlotOf(plan, k)
    BY <1>1, <1>2, <1>5 DEF PickerIdentity, OptionIndex, IsFirstBound, IsSlot
  <2>2. CASE Selects(k)
    <3>1. Meaning(k) = Option(Selected(k))
      BY <1>1, <1>2, <1>5, <2>2 DEF Meaning, IsSlot
    <3>2. PickerIdentity(mode, window, k) = Option(Selected(k))
      BY <1>3, <2>1, <2>2 DEF Selects, Selected
    <3>3. QED
      BY <3>1, <3>2, Pictures, Zenon DEF Announces
  <2>3. CASE ~Selects(k)
    <3>1. Meaning(k) = None
      BY <1>1, <1>2, <1>5, <2>3 DEF Meaning, IsSlot
    <3>2. PickerIdentity(mode, window, k) = None
      BY <1>1, <1>3, <1>5, <2>1, <2>3 DEF Selects
    <3>3. QED
      BY <3>1, <3>2, Pictures, Zenon DEF Announces
  <2>4. QED
    BY <2>2, <2>3
<1>6. CASE ReducedPicker(plan) /\ ~IsSlot(plan, k)
  <2>1. ~Selects(k) /\ ReducedViewPicker /\ mode = "view"
    BY <1>1, <1>6 DEF Selects, ReducedViewPicker
  <2> DEFINE text == PageText(window \div PickerPageSize + 1,
                              PagesFor(PickerTotal(mode), PickerPageSize))
  <2>2. CASE IsFirstBound(plan, k, "view_picker")
    <3>1. plan.bind[k] = "view_picker"
      BY <2>2 DEF IsFirstBound
    <3>2. PickerIdentity(mode, window, k) = Control("back", mode)
      BY <1>6, <2>2, <3>1 DEF PickerIdentity, IsFirstBound
    <3>3. Meaning(k) = Control("back", "view")
      BY <1>1, <1>2, <2>1, <3>1 DEF Meaning
    <3>4. QED
      BY <2>1, <3>2, <3>3, Pictures DEF Announces
  <2>3. CASE \E a \in {"page_prev", "page_next"} : IsFirstBound(plan, k, a)
    <3>1. plan.bind[k] \in {"page_prev", "page_next"}
      BY <2>3 DEF IsFirstBound
    <3>2. PickerIdentity(mode, window, k) = Control(plan.bind[k], text)
      BY <1>6, <2>3, <3>1 DEF PickerIdentity, IsFirstBound
    <3>3. Meaning(k) = Control(plan.bind[k], text)
      BY <1>1, <1>2, <2>1, <3>1 DEF Meaning
    <3> HIDE DEF text
    <3>4. QED
      BY <3>1, <3>2, <3>3, Pictures DEF Announces
  <2>4. CASE \A a \in {"view_picker", "page_prev", "page_next"} : ~IsFirstBound(plan, k, a)
    <3>1. PickerIdentity(mode, window, k) = PickerBlank
      BY <1>6, <2>4 DEF PickerIdentity
    <3>2. QED
      BY <1>6, <2>1, <2>4, <3>1, Zenon DEF Announces
  <2>5. QED
    BY <2>2, <2>3, <2>4
<1>7. QED
  BY <1>4, <1>5, <1>6

LEMMA KeyInvAlways == Spec => []KeyInv
BY KeyInvInit, KeyInvStep, PTL DEF Spec

\* Every field of the runtime that the painters and handlers share keeps its
\* type: pages count from 1, windows never go negative, modes stay modes.
THEOREM KeyTypeCorrect == Spec => []KeyTypeOK
<1>1. KeyInv => KeyTypeOK
  BY DEF KeyInv
<1>2. QED
  BY <1>1, KeyInvAlways, PTL

\* However the poll loop and the callback thread interleave their paints,
\* status screens and reloads, a key the diff skips shows its picture already.
THEOREM CacheAlwaysHonest == Spec => []CacheHonest
<1>1. KeyInv => CacheHonest
  BY DEF KeyInv
<1>2. QED
  BY <1>1, KeyInvAlways, PTL

\* No session list, page size or turn of the dial leaves the deck on a page
\* beyond the last session.
THEOREM PageAlwaysOccupied == Spec => []PageNeverEmpty
<1>1. QED
  BY PageOccupied, KeyInvAlways, PTL

\* For every plan, list and picker, and whatever reloads, polls and paints of
\* both threads come in between, a key painted as a session since the plan last
\* changed connects that session.
THEOREM TilesConnectTheirSession == Spec => ConnectsPainted
<1>1. TilesInLockstep /\ [Next]_vars
        => [\A k \in Keys : PressSession(k) =>
              \A s \in Sessions : cache[k] \in {Tile(s, TRUE), Tile(s, FALSE)} =>
                activeSession' = s]_vars
  BY DEF TilesInLockstep, IsTile, PressSession
<1>2. Spec => []TilesInLockstep
  BY LockstepInit, LockstepStep, KeyInvAlways, PTL DEF Spec
<1>3. QED
  BY <1>1, <1>2, PTL DEF Spec, ConnectsPainted

\* Whatever plan, list, picker and interleaving, a paint in the picker mode in
\* force announces on every key what a press on it does.
THEOREM PaintsAlwaysTellTruth == Spec => PaintsTellTruth
<1> DEFINE Truth(p) ==
      \/ todo[p].mode # mode \/ At(Poll, "invalidate")
      \/ mode = "page" /\ ReducedPicker(plan)
      \/ \A k \in Keys :
           \/ shown'[k] = Meaning(k)'
           \/ Meaning(k)' = None /\ shown'[k] \in {Blank, shown[k]}
           \/ /\ ReducedViewPicker /\ ~IsSlot(plan, k) /\ shown'[k] = Blank
              /\ \A a \in {"view_picker", "page_prev", "page_next"} : ~IsFirstBound(plan, k, a)
<1>1. ASSUME KeyInv, KeyInv', NEW p \in Threads, Paint(p),
             todo[p].mode = mode, ~At(Poll, "invalidate"), ~(mode = "page" /\ ReducedPicker(plan))
      PROVE  \A k \in Keys :
           \/ shown'[k] = Meaning(k)'
           \/ Meaning(k)' = None /\ shown'[k] \in {Blank, shown[k]}
           \/ /\ ReducedViewPicker /\ ~IsSlot(plan, k) /\ shown'[k] = Blank
              /\ \A a \in {"view_picker", "page_prev", "page_next"} : ~IsFirstBound(plan, k, a)
  <2>1. /\ plan' = plan /\ mode' = mode /\ ordered' = ordered /\ activeSession' = activeSession
        /\ page' = page /\ pageCount' = pageCount
    BY <1>1 DEF Paint, listVars, pagerVars
  <2>2. ASSUME NEW k \in Keys PROVE Announces(k, cache[k])'
    <3>1. cache'[k] = Wanted(mode, k)
      BY <1>1 DEF Paint
    <3>2. CASE mode = "none"
      <4>1. cache'[k] = SessionIdentity(k) /\ pageSessions' = PageOfSessions
        BY <1>1, <3>1, <3>2 DEF Paint, Wanted
      <4>2. SessionIdentity(k)' = SessionIdentity(k) /\ PageOfSessions' = PageOfSessions
        BY <2>1 DEF SessionIdentity, PageOfSessions, PageStart
      <4>3. PageInForce'
        BY <1>1, <2>1, <3>2, <4>1, <4>2 DEF KeyInv, PageInForce
      <4>4. SessionsShown'
        BY <4>3, SessionsAnnounced, PTL
      <4>5. Announces(k, SessionIdentity(k))'
        BY <4>4 DEF SessionsShown
      <4>6. QED
        BY <4>1, <4>2, <4>5 DEF Announces
    <3>3. CASE mode # "none"
      <4>1. /\ window' = ClampWindow(window, PickerTotal(mode), PickerPageSize)
            /\ cache'[k] = PickerIdentity(mode, window', k)
        BY <1>1, <3>1, <3>3 DEF Paint, Wanted
      <4>2. PickerTotal(mode)' = PickerTotal(mode) /\ PickerPageSize' = PickerPageSize
        BY <2>1 DEF PickerTotal, PickerPageSize
      <4>3. window \in Int /\ PickerTotal(mode) \in Nat /\ PickerPageSize \in Nat \ {0}
        BY <1>1, <3>3, SizesType DEF KeyInv, KeyTypeOK, Modes
      <4>4. window' = ClampWindow(window', PickerTotal(mode)', PickerPageSize')
        BY <4>1, <4>2, <4>3, ClampedOnce
      <4>5. PickerIdentity(mode, window, k)' = PickerIdentity(mode, window', k)
        BY <2>1, <4>2 DEF PickerIdentity, WindowIdentity, PickerTotal, PickerOption
      <4>6. WindowInForce'
        BY <1>1, <2>1, <3>3, <4>2, <4>4 DEF KeyInv, WindowInForce
      <4>7. OptionsShown'
        BY <4>6, OptionsAnnounced, PTL
      <4>8. Announces(k, PickerIdentity(mode, window, k))'
        BY <4>7 DEF OptionsShown
      <4>9. QED
        BY <4>1, <4>5, <4>8 DEF Announces
    <3>4. QED
      BY <3>2, <3>3
  <2>3. ASSUME NEW k \in Keys
        PROVE  /\ cache'[k] # None => shown'[k] = Face(cache'[k])
               /\ shown'[k] \in {shown[k], Face(cache'[k])}
    BY <1>1 DEF Paint, KeyInv, CacheHonest
  <2>4. Face(None) = Blank /\ Face(PickerBlank) = Blank /\ PickerBlank # None
    BY Pictures
  <2>5. ReducedViewPicker' = ReducedViewPicker
    BY <2>1 DEF ReducedViewPicker
  <2>6. ASSUME NEW k \in Keys
        PROVE  \/ shown'[k] = Meaning(k)'
               \/ Meaning(k)' = None /\ shown'[k] \in {Blank, shown[k]}
               \/ /\ ReducedViewPicker /\ ~IsSlot(plan, k) /\ shown'[k] = Blank
                  /\ \A a \in {"view_picker", "page_prev", "page_next"} : ~IsFirstBound(plan, k, a)
    <3>1. \/ cache'[k] # None /\ Face(cache'[k]) = Meaning(k)'
          \/ Meaning(k)' = None /\ Face(cache'[k]) = Blank
          \/ /\ ReducedViewPicker /\ ~IsSlot(plan, k) /\ cache'[k] = PickerBlank
             /\ \A a \in {"view_picker", "page_prev", "page_next"} : ~IsFirstBound(plan, k, a)
      BY <2>1, <2>2, <2>5 DEF Announces
    <3>2. QED
      BY <2>3, <2>4, <3>1
  <2>7. QED
    BY <2>6
<1>2. KeyInv /\ KeyInv' /\ [Next]_vars => [\A p \in Threads : Paint(p) => Truth(p)]_vars
  BY <1>1
<1>3. QED
  BY <1>2, KeyInvAlways, PTL DEF Spec, PaintsTellTruth
=============================================================================
