SPECIFICATION FairSpec
CONSTANTS
    None = None
    Txs = {t1, t2, t3}
    Scrolls = {s1, s2, s3}
    Initial = {s1}
    Ops = {"insert", "update", "delete", "deleteJar"}
INVARIANTS TypeOK NoOrphanRow OneWinnerPerVersion DeletedIsGone
PROPERTIES ImplementsTable StatementsEnd
CHECK_DEADLOCK FALSE
