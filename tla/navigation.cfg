SPECIFICATION Spec
CONSTANTS
  MaxStarts = 3
PROPERTIES NavigationBack
CHECK_DEADLOCK FALSE
