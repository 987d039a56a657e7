SPECIFICATION Spec
CONSTANTS
    None = None
    MaxSizes = {1, 3}
    PartSize = 3
    MaxLength = 6
INVARIANTS ValidTextAccepted
CHECK_DEADLOCK FALSE
