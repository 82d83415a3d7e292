SPECIFICATION Spec
CONSTANT MaxId = 4
CHECK_DEADLOCK FALSE
INVARIANTS TypeOK ResolvedFromMenu
