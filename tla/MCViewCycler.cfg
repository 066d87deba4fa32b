SPECIFICATION CyclerSpec
CONSTANTS
  a = a
  b = b
  t1 = t1
  t2 = t2
  All = All
  Hidden = Hidden
  NoTimer = NoTimer
  NamedViews <- MCNamed
  ViewLists <- MCLists
  Timers <- MCTimers
  Ticks <- MCTicks
  MaxPending = 2
INVARIANTS CyclerTypeOK TimerHeld
PROPERTIES BaseSteady SpinSettles
