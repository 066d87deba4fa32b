SPECIFICATION Spec
CONSTANTS
  t1 = t1
  w1 = w1
  w2 = w2
  s1 = s1
  s2 = s2
  d1 = d1
  All = All
  Hidden = Hidden
  NoTimer = NoTimer
  Poll = Poll
  Hid = Hid
  NoProc = NoProc
  NoSession = NoSession
  Shared = Shared
  Local = Local
  NoTarget = NoTarget
  NoPin = NoPin
  Timers <- MCTimers
  Ticks <- MCTicks
  Workers <- OneWorker
  NamedViews <- NoViews
  ViewLists <- ViewListOfNone
  Sessions <- Nobody
  Remote <- Nobody
  Devices <- Nobody
  PinEdits <- MCPinEdits
  Kinds <- ViewKinds
  MaxPending = 1
  MaxEvents = 2
  MaxExternal = 1
  MaxFaults = 1
PROPERTIES Settles CyclerRefined
