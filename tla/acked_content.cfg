SPECIFICATION Spec
CONSTANTS
    None = None
    Jars = {j1}
    Scrolls = {s1}
    Users = {u1}
    Texts = {}
    Contents = {c1, c2}
    Requests = {r1, r2}
    Workload = {"upload"}
    MaxScrolls = 2
    MaxVersion = 1
INVARIANTS AckedContentServed
CHECK_DEADLOCK FALSE
