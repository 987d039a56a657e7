SPECIFICATION FairSpec
CONSTANTS
    None = None
    Jars = {j1}
    Scrolls = {1, 2}
    Users = {u1}
    Texts = {}
    Contents = {c1}
    Requests = {r1}
    Workload = {"upload", "delete"}
    MaxScrolls = 2
    MaxVersion = 1
    PageSize = 2
    BatchSize = 1
INVARIANTS TypeOK NothingForgotten
PROPERTIES ImplementsService OrphansCollected
CHECK_DEADLOCK FALSE
