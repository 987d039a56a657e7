------------------------------- MODULE JarTx -------------------------------
(***************************************************************************)
(* One jar and its scrolls inside PostgreSQL, at READ COMMITTED, while     *)
(* several of the service's single-statement transactions run.             *)
(*                                                                         *)
(* ScrollService takes a statement with its triggers as one step.  Here    *)
(* it is the steps that other transactions can come between: wait for a    *)
(* row lock, look again at what the lock protects, fire the triggers of    *)
(* the migrations in the order of their names, commit.  What a transaction *)
(* did is visible to the others, all at once, when it commits.             *)
(*                                                                         *)
(* Locks on the jar row: the foreign key takes FOR KEY SHARE.  The fake    *)
(* UPDATE ... SET id = id of ping_parent names the key column, so with a   *)
(* BEFORE UPDATE trigger in place it locks as strongly as a DELETE does.   *)
(***************************************************************************)
EXTENDS Naturals, FiniteSets

CONSTANTS
    Txs,        \* transactions; each runs one statement
    Scrolls,    \* scroll ids
    Initial,    \* the scrolls that the jar starts with
    Ops,        \* the statements that run
    None

\* The circles of Deadlocked are of finitely many.
ASSUME TxsAssumption == IsFiniteSet(Txs)
ASSUME InitialAssumption == Initial \subseteq Scrolls
ASSUME OpsAssumption == Ops \subseteq {"insert", "update", "delete", "deleteJar"}
ASSUME NoneAssumption == None \notin Scrolls

VARIABLES
    jar,    \* committed scrolljar row: is it there, updated_at
    here,   \* committed scroll rows
    stamp,  \* updated_at of the scroll rows
    clock,  \* NOW() of the transaction that started last
    tx      \* the transactions: position, locks, uncommitted effects

vars == <<jar, here, stamp, clock, tx>>

Ended == {"ok", "conflict", "error"}
Positions == {"idle", "ready", "row", "fk", "count", "kill", "cascade", "ping",
              "commit"} \cup Ended

\* gone, killed, pinged: the uncommitted effects; rows, jarLock: the locks.
TxRecords ==
    [pc : Positions, op : Ops \cup {"none"}, scroll : Scrolls \cup {None},
     seen : Nat, now : Nat, rows : SUBSET Scrolls, gone : SUBSET Scrolls,
     jarLock : {"none", "share", "exclusive"},
     killed : BOOLEAN, pinged : BOOLEAN]
NewTx == [pc |-> "idle", op |-> "none", scroll |-> None, seen |-> 0,
          now |-> 0, rows |-> {}, gone |-> {}, jarLock |-> "none",
          killed |-> FALSE, pinged |-> FALSE]

TypeOK ==
    /\ jar \in [live : BOOLEAN, stamp : Nat]
    /\ here \in SUBSET Scrolls
    /\ stamp \in [Scrolls -> Nat]
    /\ clock \in Nat
    /\ tx \in [Txs -> TxRecords]

Init ==
    /\ jar = [live |-> TRUE, stamp |-> 0]
    /\ here = Initial
    /\ stamp = [s \in Scrolls |-> 0]
    /\ clock = 0
    /\ tx = [t \in Txs |-> NewTx]

-----------------------------------------------------------------------------
(* Locks *)

Active(t) == tx[t].pc \notin {"idle", "ready"} \cup Ended
JarHolders(t) == {u \in Txs \ {t} : tx[u].jarLock # "none"}
JarExclusive(t) == {u \in Txs \ {t} : tx[u].jarLock = "exclusive"}
RowHolders(t, S) == {u \in Txs \ {t} : tx[u].rows \cap S # {}}
\* The rows that ON DELETE CASCADE of t still has to delete.
Remaining(t) == here \ tx[t].gone

\* The transactions that t has to wait for.
Blockers(t) ==
    CASE tx[t].pc = "row"              -> RowHolders(t, {tx[t].scroll})
      [] tx[t].pc = "fk"               -> JarExclusive(t)
      [] tx[t].pc \in {"kill", "ping"} -> JarHolders(t)
      [] tx[t].pc = "cascade"          -> RowHolders(t, Remaining(t))
      [] OTHER                         -> {}

\* FAULT: only a transaction that waits for itself.
DeadlockedAlone(t) == t \in Blockers(t)

\* A circle of waiting transactions, none of which can ever go on.
Deadlocked(t) ==
    \E n \in 2..Cardinality(Txs) : \E c \in [1..n -> Txs] :
        /\ c[1] = t
        /\ \A i \in 1..n : c[(i % n) + 1] \in Blockers(c[i])

Goto(t, pc) == tx' = [tx EXCEPT ![t].pc = pc]
\* A transaction that ends gives its locks and its pending effects up.
End(t, how) ==
    tx' = [tx EXCEPT ![t] = [NewTx EXCEPT !.pc = how, !.op = tx[t].op,
                                          !.scroll = tx[t].scroll,
                                          !.seen = tx[t].seen]]

-----------------------------------------------------------------------------
(* The statements start; NOW() is the time of the start. *)

Start(t, op, s, seen, pc) ==
    /\ clock' = clock + 1
    /\ tx' = [tx EXCEPT ![t] = [NewTx EXCEPT !.pc = pc, !.op = op,
                                             !.scroll = s, !.seen = seen,
                                             !.now = clock + 1]]
    /\ UNCHANGED <<jar, here, stamp>>

\* GetScroll, some time before the UPDATE of the same request.
Read(t, s) ==
    /\ "update" \in Ops
    /\ tx[t].pc = "idle"
    /\ s \in here
    /\ tx' = [tx EXCEPT ![t] = [NewTx EXCEPT !.pc = "ready", !.op = "update",
                                             !.scroll = s, !.seen = stamp[s]]]
    /\ UNCHANGED <<jar, here, stamp, clock>>

StartUpdate(t) ==
    /\ tx[t].pc = "ready"
    /\ Start(t, "update", tx[t].scroll, tx[t].seen, "row")

\* A fresh id: no row has it, no other transaction is inserting it.
StartInsert(t, s) ==
    /\ "insert" \in Ops
    /\ tx[t].pc = "idle"
    /\ s \notin Initial /\ \A u \in Txs : tx[u].scroll # s
    /\ Start(t, "insert", s, 0, "fk")

StartDelete(t, s) ==
    /\ "delete" \in Ops
    /\ tx[t].pc = "idle"
    /\ s \in here
    /\ Start(t, "delete", s, 0, "row")

StartDeleteJar(t) ==
    /\ "deleteJar" \in Ops
    /\ tx[t].pc = "idle"
    /\ Start(t, "deleteJar", None, 0, "kill")

-----------------------------------------------------------------------------
(* The scroll row: wait for the lock, then look at the row again. *)

\* FAULT: the row is not looked at again after the wait; and: only its version.
LockForUpdateStale(t) ==
    /\ tx[t].pc = "row" /\ tx[t].op = "update"
    /\ Blockers(t) = {}
    /\ IF tx[t].scroll \in here
       THEN tx' = [tx EXCEPT ![t] = [@ EXCEPT !.pc = "ping",
                                              !.rows = {tx[t].scroll}]]
       ELSE End(t, "conflict")
    /\ UNCHANGED <<jar, here, stamp, clock>>

LockForUpdateRevive(t) ==
    /\ tx[t].pc = "row" /\ tx[t].op = "update"
    /\ Blockers(t) = {}
    /\ IF stamp[tx[t].scroll] = tx[t].seen
       THEN tx' = [tx EXCEPT ![t] = [@ EXCEPT !.pc = "ping",
                                              !.rows = {tx[t].scroll}]]
       ELSE End(t, "conflict")
    /\ UNCHANGED <<jar, here, stamp, clock>>

\* WHERE id = $1 AND updated_at = $2, checked on the newest version.
LockForUpdate(t) ==
    LET s == tx[t].scroll
    IN  /\ tx[t].pc = "row" /\ tx[t].op = "update"
        /\ Blockers(t) = {}
        /\ IF s \in here /\ stamp[s] = tx[t].seen
           THEN tx' = [tx EXCEPT ![t] = [@ EXCEPT !.pc = "ping", !.rows = {s}]]
           ELSE End(t, "conflict")
        /\ UNCHANGED <<jar, here, stamp, clock>>

\* A row that is gone by now: nothing to delete, the statement succeeds.
LockForDelete(t) ==
    LET s == tx[t].scroll
    IN  /\ tx[t].pc = "row" /\ tx[t].op = "delete"
        /\ Blockers(t) = {}
        /\ IF s \in here
           THEN tx' = [tx EXCEPT ![t] = [@ EXCEPT !.pc = "count", !.rows = {s},
                                                  !.gone = {s}]]
           ELSE End(t, "ok")
        /\ UNCHANGED <<jar, here, stamp, clock>>

-----------------------------------------------------------------------------
(* The AFTER triggers, in the order of their names: the foreign key check,   *)
(* delete_empty_scrolljar_trigger, ping_scrolljar_on_scrollchange_trigger.   *)

\* FAULT: looks at the jar without locking it.
CheckForeignKeyUnlocked(t) ==
    /\ tx[t].pc = "fk"
    /\ Blockers(t) = {}
    /\ IF jar.live THEN Goto(t, "ping") ELSE End(t, "error")
    /\ UNCHANGED <<jar, here, stamp, clock>>

\* SELECT 1 FROM scrolljar WHERE id = $1 FOR KEY SHARE, or an error.
CheckForeignKey(t) ==
    /\ tx[t].pc = "fk"
    /\ Blockers(t) = {}
    /\ IF jar.live
       THEN tx' = [tx EXCEPT ![t] = [@ EXCEPT !.pc = "ping", !.jarLock = "share"]]
       ELSE End(t, "error")
    /\ UNCHANGED <<jar, here, stamp, clock>>

\* SELECT EXISTS (...): sees what is committed and what t itself deleted.
CountRest(t) ==
    /\ tx[t].pc = "count"
    /\ Goto(t, IF Remaining(t) = {} THEN "kill" ELSE "ping")
    /\ UNCHANGED <<jar, here, stamp, clock>>

\* DELETE FROM scrolljar, by the trigger or by DeleteJar.
KillJar(t) ==
    /\ tx[t].pc = "kill"
    /\ Blockers(t) = {}
    /\ IF jar.live
       THEN tx' = [tx EXCEPT ![t] = [@ EXCEPT !.pc = "cascade",
                                              !.jarLock = "exclusive",
                                              !.killed = TRUE]]
       ELSE Goto(t, "commit")
    /\ UNCHANGED <<jar, here, stamp, clock>>

\* ON DELETE CASCADE: every row of the jar that is committed by now.  The
\* triggers of these rows find no jar any more and do nothing.
CascadeRow(t, s) ==
    /\ tx[t].pc = "cascade"
    /\ s \in Remaining(t)
    /\ RowHolders(t, {s}) = {}
    /\ tx' = [tx EXCEPT ![t] = [@ EXCEPT !.rows = tx[t].rows \cup {s},
                                          !.gone = tx[t].gone \cup {s}]]
    /\ UNCHANGED <<jar, here, stamp, clock>>

\* FAULT: the rows that the trigger counted are all that it deletes.
CascadeDoneEarly(t) ==
    /\ tx[t].pc = "cascade"
    /\ Goto(t, "commit")
    /\ UNCHANGED <<jar, here, stamp, clock>>

CascadeDone(t) ==
    /\ tx[t].pc = "cascade"
    /\ Remaining(t) = {}
    /\ Goto(t, "commit")
    /\ UNCHANGED <<jar, here, stamp, clock>>

\* ping_parent: no row to update if the jar has gone meanwhile.
Ping(t) ==
    /\ tx[t].pc = "ping"
    /\ Blockers(t) = {}
    /\ IF jar.live
       THEN tx' = [tx EXCEPT ![t] = [@ EXCEPT !.pc = "commit",
                                              !.jarLock = "exclusive",
                                              !.pinged = TRUE]]
       ELSE Goto(t, "commit")
    /\ UNCHANGED <<jar, here, stamp, clock>>

-----------------------------------------------------------------------------
(* The transactions end. *)

WrittenAlways(t) == {tx[t].scroll}      \* FAULT: whatever the statement is
Written(t) == IF tx[t].op \in {"insert", "update"} THEN {tx[t].scroll} ELSE {}

Commit(t) ==
    /\ tx[t].pc = "commit"
    /\ here' = (here \cup Written(t)) \ tx[t].gone
    /\ stamp' = [s \in Scrolls |-> IF s \in Written(t) THEN tx[t].now
                                                       ELSE stamp[s]]
    /\ jar' = [live |-> jar.live /\ ~tx[t].killed,
               stamp |-> IF tx[t].pinged THEN tx[t].now ELSE jar.stamp]
    /\ End(t, "ok")
    /\ UNCHANGED clock

\* deadlock_timeout: one of the circle finds it and fails.
DeadlockAbort(t) ==
    /\ Deadlocked(t)
    /\ End(t, "error")
    /\ UNCHANGED <<jar, here, stamp, clock>>

\* The request's context is cancelled or the connection breaks.
Cancel(t) ==
    /\ Active(t)
    /\ End(t, "error")
    /\ UNCHANGED <<jar, here, stamp, clock>>

Progress(t) ==
    \/ LockForUpdate(t)
    \/ LockForDelete(t)
    \/ CheckForeignKey(t)
    \/ CountRest(t)
    \/ KillJar(t)
    \/ \E s \in Scrolls : CascadeRow(t, s)
    \/ CascadeDone(t)
    \/ Ping(t)
    \/ Commit(t)
    \/ DeadlockAbort(t)

Next ==
    \E t \in Txs :
        \/ \E s \in Scrolls : \/ Read(t, s)
                              \/ StartInsert(t, s)
                              \/ StartDelete(t, s)
        \/ StartUpdate(t)
        \/ StartDeleteJar(t)
        \/ Progress(t)
        \/ Cancel(t)

Spec == Init /\ [][Next]_vars

\* The server runs every statement on, and its deadlock detector fires.
FairSpec == Spec /\ \A t \in Txs : WF_vars(Progress(t))

-----------------------------------------------------------------------------
(* Properties *)

\* No scroll row without its jar row, whatever deletions, cascades and
\* inserts overlap: the foreign key holds at every commit.
NoOrphanRow == here # {} => jar.live

\* Of the updates that read the same updated_at at most one is applied.
OneWinnerPerVersion ==
    \A t, u \in Txs :
        /\ tx[t].pc = "ok" /\ tx[t].op = "update"
        /\ tx[u].pc = "ok" /\ tx[u].op = "update"
        /\ tx[t].scroll = tx[u].scroll /\ tx[t].seen = tx[u].seen
        => t = u

\* A deletion that was answered 200 took its row and nothing brings it back.
DeletedIsGone ==
    \A t \in Txs : tx[t].pc = "ok" /\ tx[t].op = "delete" =>
        tx[t].scroll \notin here

Applied(op) == {tx[t].scroll : t \in {u \in Txs : tx[u].pc = "ok"
                                                /\ tx[u].op = op}}

\* Each statement, with its waits, its triggers and its cascade, is one step of
\* JarTable: it shows all at once, never in a jar that is gone, and a row is
\* never brought back.  This is how ScrollService takes statements.
Stage(s) == CASE s \in here -> "there"
              [] s \notin here /\ s \in Initial \cup Applied("insert") -> "gone"
              [] s \notin here /\ s \notin Initial \cup Applied("insert") -> "free"

Table == INSTANCE JarTable
            WITH live <- jar.live, stage <- [s \in Scrolls |-> Stage(s)],
                 version <- stamp

ImplementsTable == Table!TableSpec

\* Every statement ends: waiting in a circle is found and broken.
StatementsEnd == \A t \in Txs : Active(t) ~> ~Active(t)

AtRest == \A t \in Txs : ~Active(t)

\* 20260125023115_delete_empty_jar.sql:3, delete_empty_scrolljar: the jar goes
\* with its last scroll.  As long as a scroll that was there or acknowledged is
\* not deleted, the jar is there; without one it is not.
JarGoesWithLastScroll ==
    AtRest => (jar.live <=> (Initial \cup Applied("insert"))
                               \ Applied("delete") # {})
=============================================================================
