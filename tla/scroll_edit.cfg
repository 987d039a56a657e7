SPECIFICATION Spec
CONSTANTS
    None = None
    Jars = {j1}
    Scrolls = {s1}
    Users = {u1}
    Texts = {t1, t2}
    Contents = {c1}
    Requests = {r1, r2}
    Workload = {"upload", "patch", "delete", "create", "deleteJar"}
    MaxScrolls = 1
    MaxVersion = 2
SYMMETRY Symmetry
INVARIANTS PatchTokenInert ScrollHasJar
PROPERTIES PatchTouchesOnlyItsFields OnlyCreatorChanges
CHECK_DEADLOCK FALSE
