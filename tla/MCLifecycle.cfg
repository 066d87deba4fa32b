SPECIFICATION Spec
CONSTANTS
  p1 = p1
  p2 = p2
  NoOne = NoOne
  NoId = NoId
  Torn = Torn
  Proc <- MCProc
  Denials <- MCDenials
  Signature <- MCSignature
  MaxEvents = 2
  MaxFaults = 1
CHECK_DEADLOCK FALSE
INVARIANTS LifecycleTypeOK SoleDriver NoLeakedHandle IdentityKept
PROPERTIES StopsWhenTold DeckComesBack StatusSettles
