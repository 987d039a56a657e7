SPECIFICATION Spec
CONSTANTS
    None = None
    Txs = {t1, t2}
    Scrolls = {s1, s2}
    Initial = {s1}
    Ops = {"insert", "delete"}
INVARIANTS JarGoesWithLastScroll
CHECK_DEADLOCK FALSE
