SPECIFICATION Spec
CONSTANTS
    None = None
    Users = {u1}
    Texts = {x1, x2, x3, x4}
    Requests = {r1, r2, r3}
SYMMETRY Symmetry
INVARIANTS TypeOK SessionPair SessionsOnlyForActive NoCircularWait
PROPERTIES OnlyUsedTokenDeleted WriteIsFresh
CHECK_DEADLOCK FALSE
