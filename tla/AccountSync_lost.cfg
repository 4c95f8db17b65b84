SPECIFICATION Spec
CONSTANTS
  MaxVersion = 3
  MaxFaults = 2
  MaxHides = 1
  None = None
INVARIANTS
  MissedChangeHasCause
PROPERTIES
  ChangeIsShown
  StreamRecovers
