SPECIFICATION Spec
CONSTANTS
  Decks <- MCDecks
  Files <- MCFiles
  Ids <- MCIds
  Orders <- MCOrders
  SettingsSets <- MCSettingsSets
  ViewNames <- MCViewNames
  Bell <- MCBell
  MaxEvents = 2
INVARIANTS FaceTypeOK SessionsPlaced BindingsAccounted FreshDeckWorks KindsRespected
PROPERTIES OrderHonest OrderSteady ViewTruthful
