SPECIFICATION Spec
CONSTANTS
    None = None
    Users = {u1}
    Texts = {x1, x2}
    Requests = {r1, r2}
PROPERTIES ActivationAtomic
CHECK_DEADLOCK FALSE
