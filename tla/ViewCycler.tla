----------------------------- MODULE ViewCycler -----------------------------
(***************************************************************************)
(* class ViewCycler of interaction.py: the dial that cycles views.         *)
(* Ticks accumulate in `pending`; a threading.Timer commits the view they  *)
(* lead to once it expires.  Every method body runs under the object's     *)
(* _lock, so each is one step; what is not atomic is the timer thread,     *)
(* which expires, then waits for _lock, then calls on_commit outside it.   *)
(* Timer.cancel() reaches a thread only before its expiry.                 *)
(***************************************************************************)
EXTENDS Integers, Sequences

CONSTANTS
  NamedViews,   \* names a user may give a view
  All, Hidden,  \* the two reserved pseudo-views
  ViewLists,    \* the lists settings.views can hold (names in server order)
  Timers,       \* timer threads that can be outstanding at once
  NoTimer,      \* self._timer is None
  Ticks,        \* tick counts one dial event can report
  MaxPending    \* bound on the magnitude of the accumulated ticks

ASSUME ViewAssumption ==
  /\ All # Hidden
  /\ {All, Hidden} \cap NamedViews = {}
  /\ ViewLists \subseteq Seq(NamedViews)
  /\ \A list \in ViewLists : \A i, j \in 1 .. Len(list) :
       list[i] = list[j] => i = j

ASSUME TimerAssumption == NoTimer \notin Timers

ASSUME TickAssumption == Ticks \subseteq Int /\ MaxPending \in Nat

View == NamedViews \cup {All, Hidden}

VARIABLES
  names,      \* self._names: the cycle list
  committed,  \* self._committed_view
  pending,    \* self._pending_ticks
  timer,      \* self._timer
  tstate,     \* what each timer thread is doing
  tlabel      \* the label a timer thread is passing to on_commit

cyclerVars == <<names, committed, pending, timer, tstate, tlabel>>

\* "armed": waiting out the debounce; "expired": past the wait, not yet
\* holding _lock; "calling": inside on_commit(label).
TimerState == {"idle", "armed", "cancelled", "expired", "calling"}

CyclerTypeOK ==
  /\ names \in Seq(View)
  /\ committed \in View
  /\ pending \in Int
  /\ timer \in Timers \cup {NoTimer}
  /\ tstate \in [Timers -> TimerState]
  /\ tlabel \in [Timers -> View]

Cycle(list) == <<All>> \o list \o <<Hidden>>

-----------------------------------------------------------------------------
\* Positions count from 0, as in the code; the server's view names are
\* distinct, so the position list.index finds is the only one.
BaseIndex ==
  IF \E i \in 1 .. Len(names) : names[i] = committed
  THEN (CHOOSE i \in 1 .. Len(names) : names[i] = committed) - 1
  ELSE -1

LabelAt(ticks) ==
  IF names = <<>> THEN All
  ELSE names[((BaseIndex + ticks) % Len(names)) + 1]

IsTurning == timer # NoTimer

CandidateView == LabelAt(pending)

Cancelled(ts) ==
  IF timer # NoTimer /\ ts[timer] = "armed"
  THEN [ts EXCEPT ![timer] = "cancelled"]
  ELSE ts

CyclerInit ==
  /\ names = <<All>>
  /\ committed = All
  /\ pending = 0
  /\ timer = NoTimer
  /\ tstate = [t \in Timers |-> "idle"]
  /\ tlabel = [t \in Timers |-> All]

\* Defect: a poll moves the base even while a turn is in flight.
Sync_Clobbers(list, view) ==
  /\ names' = Cycle(list)
  /\ committed' = view
  /\ UNCHANGED <<pending, timer, tstate, tlabel>>

Sync(list, view) ==
  /\ names' = Cycle(list)
  /\ committed' = IF timer = NoTimer THEN view ELSE committed
  /\ UNCHANGED <<pending, timer, tstate, tlabel>>

\* Defect: the first tick of a spin is counted but only later ones arm a timer.
Turn_NoFirstTimer(ticks) ==
  /\ pending + ticks \in -MaxPending .. MaxPending
  /\ pending' = pending + ticks
  /\ IF pending = 0 THEN UNCHANGED <<timer, tstate>>
     ELSE \E t \in Timers :
            /\ tstate[t] = "idle"
            /\ timer' = t
            /\ tstate' = [Cancelled(tstate) EXCEPT ![t] = "armed"]
  /\ UNCHANGED <<names, committed, tlabel>>

Turn(ticks) ==
  /\ pending + ticks \in -MaxPending .. MaxPending
  /\ pending' = pending + ticks
  /\ \E t \in Timers :
       /\ tstate[t] = "idle"
       /\ timer' = t
       /\ tstate' = [Cancelled(tstate) EXCEPT ![t] = "armed"]
  /\ UNCHANGED <<names, committed, tlabel>>

\* Defect: a press cancels the timer but forgets the ticks behind it.
Press_KeepsTicks ==
  /\ tstate' = Cancelled(tstate)
  /\ timer' = NoTimer
  /\ committed' = All
  /\ UNCHANGED <<names, pending, tlabel>>

Press ==
  /\ tstate' = Cancelled(tstate)
  /\ timer' = NoTimer
  /\ pending' = 0
  /\ committed' = All
  /\ UNCHANGED <<names, tlabel>>

\* threading.Timer.run: the wait ended without cancel() having been called.
Expire(t) ==
  /\ tstate[t] = "armed"
  /\ tstate' = [tstate EXCEPT ![t] = "expired"]
  /\ UNCHANGED <<names, committed, pending, timer, tlabel>>

\* Defect: on_commit receives the tick count instead of the label.
FireCommit_PassesTicks(t) ==
  /\ tstate[t] = "expired"
  /\ committed' = LabelAt(pending)
  /\ tlabel' = [tlabel EXCEPT ![t] = pending]
  /\ pending' = 0
  /\ timer' = NoTimer
  /\ tstate' = [tstate EXCEPT ![t] = "calling"]
  /\ UNCHANGED names

FireCommit(t) ==
  /\ tstate[t] = "expired"
  /\ committed' = LabelAt(pending)
  /\ tlabel' = [tlabel EXCEPT ![t] = LabelAt(pending)]
  /\ pending' = 0
  /\ timer' = NoTimer
  /\ tstate' = [tstate EXCEPT ![t] = "calling"]
  /\ UNCHANGED names

\* The thread ends: a cancelled wait returns, or on_commit returns.
Retire(t) ==
  /\ tstate[t] \in {"cancelled", "calling"}
  /\ tstate' = [tstate EXCEPT ![t] = "idle"]
  /\ UNCHANGED <<names, committed, pending, timer, tlabel>>

-----------------------------------------------------------------------------
Turning == \E k \in Ticks : Turn(k)

\* One poll: the server may report any list and any view, one that was
\* deleted since included.
Polling == \E list \in ViewLists, v \in View : Sync(list, v)

CyclerNext ==
  \/ Turning
  \/ Press
  \/ Polling
  \/ \E t \in Timers : Expire(t) \/ FireCommit(t) \/ Retire(t)

\* The interpreter schedules every live thread: a timer's wait ends, _lock is
\* held only for a few assignments.
CyclerFairness ==
  \A t \in Timers :
    WF_cyclerVars(Expire(t)) /\ WF_cyclerVars(FireCommit(t)) /\ WF_cyclerVars(Retire(t))

CyclerSpec == CyclerInit /\ [][CyclerNext]_cyclerVars /\ CyclerFairness

-----------------------------------------------------------------------------
Live(t) == tstate[t] \in {"armed", "expired"}

\* Ticks the user turned are never stranded: while any are pending, _timer
\* refers to a timer that will still fire (turn/_fire_commit/press keep the
\* three fields together even when a cancelled timer fires anyway).
TimerHeld ==
  /\ timer # NoTimer => Live(timer)
  /\ pending # 0 => timer # NoTimer

\* A poll landing mid-spin never moves the view the ticks are counted from:
\* _committed_view changes only by settling the spin (sync's guard is enough
\* because no tick is pending without a timer).
BaseSteady == [][committed' # committed => pending' = 0]_cyclerVars

\* Once the user lets go of the dial, what was turned is settled (committed
\* by a timer or dropped by a press), whatever polls do meanwhile.
SpinSettles ==
  <>[][~Turning]_cyclerVars => []<>(pending = 0 /\ timer = NoTimer)
=============================================================================
