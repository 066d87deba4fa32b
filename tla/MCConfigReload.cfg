SPECIFICATION Spec
CONSTANTS
  e1 = e1
  e2 = e2
  Editors <- MCEditors
  Broken = Broken
  Torn = Torn
  NoRecord = NoRecord
  NoFile = NoFile
  MaxEvents = 1
CHECK_DEADLOCK FALSE
INVARIANTS ReloadTypeOK ClaimsComeDue
PROPERTIES KeepsLastGood EditsPickedUp
