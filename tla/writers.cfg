SPECIFICATION Spec
CONSTANTS
  MaxMiddle = 3
INVARIANTS TypeOK KeepsContract TagsKept Graded
CHECK_DEADLOCK FALSE
