SPECIFICATION Spec
CONSTANTS
    None = None
    MaxSizes = {1, 3}
    PartSize = 3
    MaxLength = 6
INVARIANTS TypeOK StoredWhole AnswersTrue
CHECK_DEADLOCK FALSE
