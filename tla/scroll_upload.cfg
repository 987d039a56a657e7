SPECIFICATION Spec
CONSTANTS
    None = None
    Jars = {j1}
    Scrolls = {s1, s2}
    Users = {u1}
    Texts = {}
    Contents = {c1, c2}
    Requests = {r1, r2}
    Workload = {"upload", "delete", "fetch"}
    MaxScrolls = 2
    MaxVersion = 1
SYMMETRY Symmetry
INVARIANTS TypeOK PublishedHasObject SingleAck UrlFindsObject
PROPERTIES CleanerDeletesOnlyOrphans ImplementsStore
CHECK_DEADLOCK FALSE
