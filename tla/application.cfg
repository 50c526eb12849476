SPECIFICATION Spec
CONSTANTS
  Slots <- MCSlots
  Probers <- MCProbers
  MaximumConnections = 2
INVARIANTS
  UsedWhileAlive
  AnswersOnce
PROPERTY
  StopEndsProcess
