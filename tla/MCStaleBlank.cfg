SPECIFICATION Spec
CONSTANTS
  s1 = s1
  s2 = s2
  v1 = v1
  v2 = v2
  NoSession = NoSession
  Poll = Poll
  Hid = Hid
  NumKeys = 4
  Sessions <- MCSessions
  Lists <- MCLists
  ViewOptions <- MCViewOptions
  Plans <- MCPlans
PROPERTIES EmptySlotsBlank
