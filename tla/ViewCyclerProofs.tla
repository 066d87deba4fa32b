-------------------------- MODULE ViewCyclerProofs --------------------------
(***************************************************************************)
(* What ViewCycler guarantees whatever the views, ticks and threads.  The  *)
(* inductive invariant is TimerHeld with the types: sync reads only _timer *)
(* to decide whether a turn is in flight, so everything rests on _timer    *)
(* being set whenever ticks are pending.                                   *)
(***************************************************************************)
EXTENDS ViewCycler, TLAPS

CyclerInv == CyclerTypeOK /\ names # <<>> /\ TimerHeld

LEMMA CycleType ==
  ASSUME NEW list \in ViewLists
  PROVE  Cycle(list) \in Seq(View) /\ Cycle(list) # <<>>
<1>1. list \in Seq(View)
  BY ViewAssumption DEF View
<1>2. QED
  BY <1>1 DEF Cycle, View

\* The view a tick count leads to is always one of the cycle, even when the
\* committed view has been deleted from it.
LEMMA LabelInCycle ==
  ASSUME names \in Seq(View), names # <<>>, NEW k \in Int
  PROVE  LabelAt(k) \in View
<1>1. BaseIndex \in Int
  <2>1. CASE \E i \in 1 .. Len(names) : names[i] = committed
    <3>1. (CHOOSE i \in 1 .. Len(names) : names[i] = committed) \in 1 .. Len(names)
      BY <2>1
    <3>2. QED
      BY <2>1, <3>1 DEF BaseIndex
  <2>2. CASE ~ \E i \in 1 .. Len(names) : names[i] = committed
    BY <2>2 DEF BaseIndex
  <2>3. QED
    BY <2>1, <2>2
<1>2. Len(names) \in Nat \ {0}
  OBVIOUS
<1>3. (BaseIndex + k) % Len(names) \in 0 .. (Len(names) - 1)
  BY <1>1, <1>2
<1>4. ((BaseIndex + k) % Len(names)) + 1 \in 1 .. Len(names)
  BY <1>2, <1>3
<1>5. QED
  BY <1>4 DEF LabelAt

LEMMA CancelledType ==
  ASSUME tstate \in [Timers -> TimerState]
  PROVE  Cancelled(tstate) \in [Timers -> TimerState]
BY DEF Cancelled, TimerState

\* The typed invariant holds initially and every method and timer step keeps it.
LEMMA CyclerInvInit == CyclerInit => CyclerInv
BY TimerAssumption DEF CyclerInit, CyclerInv, CyclerTypeOK, TimerHeld, View, TimerState

LEMMA CyclerInvStep == CyclerInv /\ [CyclerNext]_cyclerVars => CyclerInv'
<1> SUFFICES ASSUME CyclerInv, [CyclerNext]_cyclerVars
             PROVE  CyclerInv'
  OBVIOUS
<1> USE DEF CyclerInv, CyclerTypeOK
<1>1. CASE Turning
  <2>1. PICK k \in Ticks : Turn(k)
    BY <1>1 DEF Turning
  <2>2. PICK t \in Timers : /\ tstate[t] = "idle"
                            /\ timer' = t
                            /\ tstate' = [Cancelled(tstate) EXCEPT ![t] = "armed"]
    BY <2>1 DEF Turn
  <2>3. CyclerTypeOK'
    BY <2>1, <2>2, CancelledType, TickAssumption DEF Turn, TimerState
  <2>4. tstate'[t] = "armed"
    BY <2>2, CancelledType
  <2>5. QED
    BY <2>1, <2>2, <2>3, <2>4, TimerAssumption DEF Turn, TimerHeld, Live
<1>2. CASE Press
  BY <1>2, CancelledType DEF Press, TimerHeld, Live, View
<1>3. CASE Polling
  <2>1. PICK list \in ViewLists, v \in View : Sync(list, v)
    BY <1>3 DEF Polling
  <2>2. names' \in Seq(View) /\ names' # <<>>
    BY <2>1, CycleType DEF Sync
  <2>3. QED
    BY <2>1, <2>2 DEF Sync, TimerHeld, Live
<1>4. ASSUME NEW t \in Timers, Expire(t)
      PROVE  CyclerInv'
  BY <1>4 DEF Expire, TimerHeld, Live, TimerState
<1>5. ASSUME NEW t \in Timers, FireCommit(t)
      PROVE  CyclerInv'
  <2>1. LabelAt(pending) \in View
    BY LabelInCycle
  <2>2. QED
    BY <1>5, <2>1 DEF FireCommit, TimerHeld, Live, TimerState
<1>6. ASSUME NEW t \in Timers, Retire(t)
      PROVE  CyclerInv'
  BY <1>6 DEF Retire, TimerHeld, Live, TimerState
<1>7. CASE UNCHANGED cyclerVars
  BY <1>7 DEF cyclerVars, TimerHeld, Live
<1>8. QED
  BY <1>1, <1>2, <1>3, <1>4, <1>5, <1>6, <1>7 DEF CyclerNext

\* Types are kept by every interleaving of methods and timer threads.
THEOREM CyclerTypeCorrect == CyclerSpec => []CyclerTypeOK
<1>1. CyclerInv => CyclerTypeOK
  BY DEF CyclerInv
<1>2. QED
  BY <1>1, CyclerInvInit, CyclerInvStep, PTL DEF CyclerSpec

\* Ticks are never pending without a timer that will still fire.
THEOREM TicksNeverStranded == CyclerSpec => []TimerHeld
<1>1. CyclerInv => TimerHeld
  BY DEF CyclerInv
<1>2. QED
  BY <1>1, CyclerInvInit, CyclerInvStep, PTL DEF CyclerSpec

\* _committed_view moves only together with the ticks counted from it being
\* settled: no poll shifts a spin under the user's hand.
THEOREM SpinBaseSteady == CyclerSpec => BaseSteady
<1>1. CyclerInv /\ [CyclerNext]_cyclerVars
        => [committed' # committed => pending' = 0]_cyclerVars
  BY DEF CyclerInv, CyclerTypeOK, TimerHeld, CyclerNext, Turning, Polling, Turn,
         Press, Sync, Expire, FireCommit, Retire, cyclerVars
<1>2. QED
  BY <1>1, CyclerInvInit, CyclerInvStep, PTL DEF CyclerSpec, BaseSteady
=============================================================================
