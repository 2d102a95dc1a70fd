SPECIFICATION Spec
CONSTANT MaxLength = 6
CHECK_DEADLOCK FALSE
INVARIANTS
    ParsesUrls
    OthersHaveNoHost
