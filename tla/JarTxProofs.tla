---------------------------- MODULE JarTxProofs ----------------------------
(***************************************************************************)
(* What the locks of one jar guarantee, for any number of transactions and *)
(* scrolls: the row locks exclude each other, the jar stays while a lock   *)
(* is held on it, and a version is overwritten once.                       *)
(***************************************************************************)
EXTENDS JarTx, Circles, FiniteSetTheorems, TLAPS

USE InitialAssumption, OpsAssumption, NoneAssumption

-----------------------------------------------------------------------------
(* The inductive invariant.  q is the record of a transaction. *)

\* Which statement is where, and what it holds there.
Shape(q) ==
    /\ q.pc = "idle" => q.scroll = None
    /\ q.pc = "ready" => q.op = "update"
    /\ q.pc = "row" => q.op \in {"update", "delete"}
    /\ q.pc = "fk" => q.op = "insert"
    /\ q.pc = "count" => q.op = "delete"
    /\ q.pc \in {"kill", "cascade"} => q.op \in {"delete", "deleteJar"}
    /\ q.pc = "ping" => q.op \in {"insert", "update", "delete"}
    /\ q.op \in {"insert", "update", "delete"} => q.scroll \in Scrolls
    /\ q.pc \notin {"count", "kill", "cascade", "ping", "commit"} =>
          q.rows = {}
    /\ q.pc \notin {"cascade", "ping", "commit"} => q.jarLock = "none"
    /\ q.gone \subseteq q.rows
    /\ ~q.killed => q.gone \subseteq {q.scroll}
    /\ q.pc = "cascade" => q.killed
    /\ q.op = "insert" => q.rows = {} /\ q.scroll \notin Initial
    /\ q.op = "insert" /\ q.pc \in {"ping", "commit"} => q.jarLock # "none"
    /\ q.op = "update" => q.gone = {}
    /\ q.op = "update" /\ q.pc \in {"ping", "commit"} => q.rows = {q.scroll}
    /\ q.op = "delete" /\ q.pc \in {"count", "kill", "cascade", "ping",
                                    "commit"} => q.scroll \in q.gone
    /\ q.killed => /\ q.jarLock = "exclusive"
                   /\ q.op \in {"delete", "deleteJar"}
                   /\ q.pc \in {"cascade", "commit"}

\* What a transaction knows of the committed rows.
Knows(q) ==
    /\ q.jarLock # "none" => jar.live
    /\ q.killed /\ q.pc = "commit" => here \subseteq q.gone
    /\ q.op = "insert" /\ q.pc \in {"fk", "ping", "commit"} =>
          q.scroll \notin here
    /\ q.op = "update" /\ q.pc \in {"ping", "commit"} =>
          q.scroll \in here /\ stamp[q.scroll] = q.seen
    /\ q.op = "delete" /\ q.pc = "ok" => q.scroll \notin here
    /\ q.op = "update" /\ q.pc \in {"row", "ping", "commit"} => q.seen < q.now
    /\ q.op = "update" /\ q.pc = "ok" => q.seen < stamp[q.scroll]

\* Two transactions do not hold the same.
Apart(p, q) ==
    /\ p.jarLock = "exclusive" => q.jarLock = "none"
    /\ p.rows \cap q.rows = {}
    /\ p.op = "insert" /\ p.pc \in {"fk", "ping", "commit"} =>
          q.scroll # p.scroll
    /\ p.op = "update" /\ p.pc = "ok" /\ q.op = "update" /\ q.pc = "ok" =>
          p.scroll # q.scroll \/ p.seen # q.seen

\* Rows have known ids, and no time lies ahead.
Tables ==
    /\ \A s \in here : s \in Initial \/ \E t \in Txs : tx[t].scroll = s
    /\ \A s \in Scrolls : stamp[s] <= clock
    /\ \A t \in Txs : tx[t].seen <= clock /\ tx[t].now <= clock

IInv ==
    /\ TypeOK
    /\ Tables
    /\ NoOrphanRow
    /\ \A t \in Txs : Shape(tx[t]) /\ Knows(tx[t])
    /\ \A t, u \in Txs : t # u => Apart(tx[t], tx[u])

-----------------------------------------------------------------------------
(* Steps *)

\* A step that only changes the record of one transaction.
LEMMA Moves ==
    ASSUME IInv, NEW t \in Txs, NEW q \in TxRecords,
           tx' = [tx EXCEPT ![t] = q],
           jar' = jar, here' = here, stamp' = stamp,
           clock' \in Nat, clock <= clock',
           q.seen <= clock', q.now <= clock',
           q.scroll = tx[t].scroll \/ tx[t].pc = "idle",
           Shape(q), Knows(q),
           \A u \in Txs \ {t} : Apart(q, tx[u]) /\ Apart(tx[u], q)
    PROVE  IInv'
<1>1. tx \in [Txs -> TxRecords]
    BY DEF IInv, TypeOK
<1>2. tx'[t] = q /\ \A u \in Txs \ {t} : tx'[u] = tx[u]
    BY <1>1
<1>3. TypeOK'
    BY <1>1 DEF IInv, TypeOK
<1>4. Tables'
    <2>1. ASSUME NEW s \in here'
          PROVE  s \in Initial \/ \E u \in Txs : tx'[u].scroll = s
        <3>1. s \in Scrolls /\ s # None
            BY DEF IInv, TypeOK
        <3>2. CASE s \in Initial
            BY <3>2
        <3>3. ASSUME NEW u \in Txs, tx[u].scroll = s
              PROVE  tx'[u].scroll = s
            <4>1. tx[t].pc = "idle" => tx[t].scroll = None
                BY DEF IInv, Shape
            <4> QED
                BY <1>2, <3>1, <3>3, <4>1
        <3> QED
            BY <3>2, <3>3 DEF IInv, Tables
    <2>2. ASSUME NEW s \in Scrolls  PROVE stamp'[s] <= clock'
        <3>1. stamp[s] \in Nat /\ clock \in Nat /\ stamp[s] <= clock
            BY DEF IInv, TypeOK, Tables
        <3> QED
            BY <3>1
    <2>3. ASSUME NEW u \in Txs  PROVE tx'[u].seen <= clock' /\ tx'[u].now <= clock'
        <3>1. CASE u = t
            BY <1>2, <3>1
        <3>2. CASE u # t
            <4>1. tx[u].seen \in Nat /\ tx[u].now \in Nat /\ clock \in Nat
                BY <1>1 DEF IInv, TypeOK, TxRecords
            <4>2. tx[u].seen <= clock /\ tx[u].now <= clock
                BY DEF IInv, Tables
            <4> QED
                BY <1>2, <3>2, <4>1, <4>2
        <3> QED
            BY <3>1, <3>2
    <2> QED
        BY <2>1, <2>2, <2>3 DEF Tables
<1>5. NoOrphanRow'
    BY DEF IInv, NoOrphanRow
<1>6. ASSUME NEW u \in Txs  PROVE Shape(tx[u])' /\ Knows(tx[u])'
    <2>1. CASE u = t
        BY <1>2, <2>1 DEF Shape, Knows
    <2>2. CASE u # t
        <3>1. Shape(tx[u]) /\ Knows(tx[u])
            BY DEF IInv
        <3> QED
            BY <1>2, <2>2, <3>1 DEF Shape, Knows
    <2> QED
        BY <2>1, <2>2
<1>7. ASSUME NEW u \in Txs, NEW w \in Txs, u # w  PROVE Apart(tx[u], tx[w])'
    <2>1. CASE u = t \/ w = t
        BY <1>2, <1>7, <2>1 DEF Apart
    <2>2. CASE u # t /\ w # t
        <3>1. Apart(tx[u], tx[w])
            BY <1>7 DEF IInv
        <3> QED
            BY <1>2, <2>2, <3>1 DEF Apart
    <2> QED
        BY <2>1, <2>2
<1> QED
    BY <1>3, <1>4, <1>5, <1>6, <1>7 DEF IInv

\* What the invariant says of a transaction and of its relation to another.
LEMMA Known ==
    ASSUME IInv, NEW t \in Txs
    PROVE  /\ tx[t] \in TxRecords
           /\ Shape(tx[t]) /\ Knows(tx[t])
           /\ tx[t].seen <= clock /\ tx[t].now <= clock
           /\ \A u \in Txs \ {t} : Apart(tx[t], tx[u]) /\ Apart(tx[u], tx[t])
BY DEF IInv, TypeOK, Tables

\* Statements start.
LEMMA ReadStep ==
    ASSUME IInv, NEW t \in Txs, NEW s \in Scrolls, Read(t, s)
    PROVE  IInv'
<1> DEFINE q == [NewTx EXCEPT !.pc = "ready", !.op = "update",
                              !.scroll = s, !.seen = stamp[s]]
<1>1. stamp[s] \in Nat /\ clock \in Nat /\ stamp[s] <= clock
    BY DEF IInv, TypeOK, Tables
<1>2. q \in TxRecords
    BY <1>1 DEF TxRecords, NewTx, Read, Positions, Ended
<1>3. Shape(q) /\ Knows(q)
    BY DEF Shape, Knows, NewTx
<1>4. \A u \in Txs \ {t} : Apart(q, tx[u]) /\ Apart(tx[u], q)
    <2>1. ASSUME NEW u \in Txs \ {t}  PROVE Apart(q, tx[u]) /\ Apart(tx[u], q)
        <3>1. Knows(tx[u])
            BY Known
        <3> QED
            BY <3>1 DEF Apart, NewTx, Knows, Read
    <2> QED
        BY <2>1
<1>5. /\ tx' = [tx EXCEPT ![t] = q] /\ tx[t].pc = "idle"
      /\ jar' = jar /\ here' = here /\ stamp' = stamp
      /\ clock' \in Nat /\ clock <= clock'
    BY <1>1 DEF Read
<1>6. q.seen <= clock' /\ q.now <= clock'
    BY <1>1, <1>5 DEF NewTx, Read
<1> HIDE DEF q
<1> QED
    BY <1>1, <1>2, <1>3, <1>4, <1>5, <1>6, Moves

\* The record of a statement that starts.
LEMMA StartRecord ==
    ASSUME NEW pc \in Positions, NEW op \in Ops \cup {"none"},
           NEW s \in Scrolls \cup {None}, NEW seen \in Nat, NEW now \in Nat
    PROVE  [NewTx EXCEPT !.pc = pc, !.op = op, !.scroll = s, !.seen = seen,
                         !.now = now] \in TxRecords
BY DEF TxRecords, NewTx

\* An update begins with the version that it read before.
LEMMA StartUpdateStep ==
    ASSUME IInv, NEW t \in Txs, StartUpdate(t)
    PROVE  IInv'
<1> DEFINE q == [NewTx EXCEPT !.pc = "row", !.op = "update",
                              !.scroll = tx[t].scroll, !.seen = tx[t].seen,
                              !.now = clock + 1]
<1>1. /\ tx[t] \in TxRecords /\ tx[t].pc = "ready" /\ Shape(tx[t])
      /\ tx[t].seen \in Nat /\ clock \in Nat /\ tx[t].seen <= clock
      /\ tx[t].op = "update" /\ tx[t].scroll \in Scrolls
      /\ "update" \in Ops \cup {"none"}
    BY Known DEF IInv, TypeOK, TxRecords, StartUpdate, Shape
<1>2. q \in TxRecords
    <2>1. clock + 1 \in Nat /\ 0 \in Nat /\ "row" \in Positions
        BY <1>1 DEF Positions
    <2> QED
        BY <1>1, <2>1, StartRecord
<1>3. Shape(q) /\ Knows(q)
    BY <1>1 DEF Shape, Knows, NewTx
<1>4. \A u \in Txs \ {t} : Apart(q, tx[u]) /\ Apart(tx[u], q)
    BY <1>1, Known DEF Apart, NewTx
<1>5. /\ tx' = [tx EXCEPT ![t] = q]
      /\ jar' = jar /\ here' = here /\ stamp' = stamp
      /\ clock' \in Nat /\ clock <= clock'
    BY <1>1 DEF StartUpdate, Start
<1>6. q.seen <= clock' /\ q.now <= clock' /\ q.scroll = tx[t].scroll
    BY <1>1 DEF NewTx, StartUpdate, Start
<1> HIDE DEF q
<1> QED
    BY <1>2, <1>3, <1>4, <1>5, <1>6, Moves

\* An insert begins with an id that no row and no other insert has.
LEMMA StartInsertStep ==
    ASSUME IInv, NEW t \in Txs, NEW s \in Scrolls, StartInsert(t, s)
    PROVE  IInv'
<1> DEFINE q == [NewTx EXCEPT !.pc = "fk", !.op = "insert", !.scroll = s,
                              !.seen = 0, !.now = clock + 1]
<1>1. clock \in Nat /\ "insert" \in Ops
    BY DEF IInv, TypeOK, StartInsert
<1>2. q \in TxRecords
    <2>1. clock + 1 \in Nat /\ 0 \in Nat /\ "fk" \in Positions
        BY <1>1 DEF Positions
    <2> QED
        BY <1>1, <2>1, StartRecord
<1>3. Shape(q) /\ Knows(q)
    <2>1. s \notin here /\ s \notin Initial
        BY DEF IInv, Tables, StartInsert
    <2> QED
        BY <2>1 DEF Shape, Knows, NewTx
<1>4. \A u \in Txs \ {t} : Apart(q, tx[u]) /\ Apart(tx[u], q)
    <2>1. \A u \in Txs : tx[u].scroll # s
        BY DEF StartInsert
    <2> QED
        BY <2>1 DEF Apart, NewTx
<1>5. /\ tx' = [tx EXCEPT ![t] = q] /\ tx[t].pc = "idle"
      /\ jar' = jar /\ here' = here /\ stamp' = stamp
      /\ clock' \in Nat /\ clock <= clock'
    BY <1>1 DEF StartInsert, Start
<1>6. q.seen <= clock' /\ q.now <= clock'
    BY <1>1 DEF NewTx, StartInsert, Start
<1> HIDE DEF q
<1> QED
    BY <1>2, <1>3, <1>4, <1>5, <1>6, Moves

\* A deletion of a scroll begins without locks.
LEMMA StartDeleteStep ==
    ASSUME IInv, NEW t \in Txs, NEW s \in Scrolls, StartDelete(t, s)
    PROVE  IInv'
<1> DEFINE q == [NewTx EXCEPT !.pc = "row", !.op = "delete", !.scroll = s,
                              !.seen = 0, !.now = clock + 1]
<1>1. clock \in Nat /\ "delete" \in Ops
    BY DEF IInv, TypeOK, StartDelete
<1>2. q \in TxRecords
    <2>1. clock + 1 \in Nat /\ 0 \in Nat /\ "row" \in Positions
        BY <1>1 DEF Positions
    <2> QED
        BY <1>1, <2>1, StartRecord
<1>3. Shape(q) /\ Knows(q)
    BY DEF Shape, Knows, NewTx
<1>4. \A u \in Txs \ {t} : Apart(q, tx[u]) /\ Apart(tx[u], q)
    BY Known DEF Apart, NewTx, Knows, StartDelete
<1>5. /\ tx' = [tx EXCEPT ![t] = q] /\ tx[t].pc = "idle"
      /\ jar' = jar /\ here' = here /\ stamp' = stamp
      /\ clock' \in Nat /\ clock <= clock'
    BY <1>1 DEF StartDelete, Start
<1>6. q.seen <= clock' /\ q.now <= clock'
    BY <1>1 DEF NewTx, StartDelete, Start
<1> HIDE DEF q
<1> QED
    BY <1>2, <1>3, <1>4, <1>5, <1>6, Moves

\* A deletion of the jar begins at its DELETE, without locks.
LEMMA StartDeleteJarStep ==
    ASSUME IInv, NEW t \in Txs, StartDeleteJar(t)
    PROVE  IInv'
<1> DEFINE q == [NewTx EXCEPT !.pc = "kill", !.op = "deleteJar",
                              !.scroll = None, !.seen = 0, !.now = clock + 1]
<1>1. clock \in Nat /\ "deleteJar" \in Ops
    BY DEF IInv, TypeOK, StartDeleteJar
<1>2. q \in TxRecords
    <2>1. clock + 1 \in Nat /\ 0 \in Nat /\ "kill" \in Positions
        BY <1>1 DEF Positions
    <2> QED
        BY <1>1, <2>1, StartRecord
<1>3. Shape(q) /\ Knows(q)
    BY DEF Shape, Knows, NewTx
<1>4. \A u \in Txs \ {t} : Apart(q, tx[u]) /\ Apart(tx[u], q)
    <2>1. \A u \in Txs : tx[u].op = "insert" => tx[u].scroll \in Scrolls
        BY Known DEF Shape
    <2> QED
        BY <2>1 DEF Apart, NewTx
<1>5. /\ tx' = [tx EXCEPT ![t] = q] /\ tx[t].pc = "idle"
      /\ jar' = jar /\ here' = here /\ stamp' = stamp
      /\ clock' \in Nat /\ clock <= clock'
    BY <1>1 DEF StartDeleteJar, Start
<1>6. q.seen <= clock' /\ q.now <= clock'
    BY <1>1 DEF NewTx, StartDeleteJar, Start
<1> HIDE DEF q
<1> QED
    BY <1>2, <1>3, <1>4, <1>5, <1>6, Moves

\* A transaction that ends without effect holds nothing.
LEMMA EndStep ==
    ASSUME IInv, NEW t \in Txs, NEW how \in Ended, End(t, how),
           UNCHANGED <<jar, here, stamp, clock>>,
           how = "ok" => tx[t].op = "delete" /\ tx[t].scroll \notin here,
           tx[t].pc # "idle"
    PROVE  IInv'
<1> DEFINE q == [NewTx EXCEPT !.pc = how, !.op = tx[t].op,
                              !.scroll = tx[t].scroll, !.seen = tx[t].seen]
<1>1. /\ tx[t] \in TxRecords /\ Shape(tx[t]) /\ tx[t].seen \in Nat
      /\ tx[t].seen <= clock /\ clock \in Nat
    BY Known DEF IInv, TypeOK, TxRecords
<1>2. q \in TxRecords
    BY <1>1 DEF TxRecords, NewTx, Positions, Ended
<1>3. Shape(q) /\ Knows(q)
    BY <1>1 DEF Shape, Knows, NewTx, Ended
<1>4. \A u \in Txs \ {t} : Apart(q, tx[u]) /\ Apart(tx[u], q)
    BY Known DEF Apart, NewTx, Ended
<1>5. /\ tx' = [tx EXCEPT ![t] = q]
      /\ jar' = jar /\ here' = here /\ stamp' = stamp
      /\ clock' \in Nat /\ clock <= clock'
    BY <1>1 DEF End
<1>6. q.seen <= clock' /\ q.now <= clock' /\ q.scroll = tx[t].scroll
    BY <1>1, <1>5 DEF NewTx
<1> HIDE DEF q
<1> QED
    BY <1>2, <1>3, <1>4, <1>5, <1>6, Moves

\* A step of a transaction that keeps its operation, and its scroll and times.
LEMMA GoesOn ==
    ASSUME IInv, NEW t \in Txs, NEW q \in TxRecords,
           tx' = [tx EXCEPT ![t] = q],
           UNCHANGED <<jar, here, stamp, clock>>,
           q.op = tx[t].op, q.scroll = tx[t].scroll,
           q.seen = tx[t].seen, q.now = tx[t].now,
           Shape(q), Knows(q),
           \A u \in Txs \ {t} : Apart(q, tx[u]) /\ Apart(tx[u], q)
    PROVE  IInv'
<1>1. tx[t].seen <= clock /\ tx[t].now <= clock /\ clock \in Nat
    BY Known DEF IInv, TypeOK
<1>2. /\ jar' = jar /\ here' = here /\ stamp' = stamp
      /\ clock' \in Nat /\ clock <= clock'
      /\ q.seen <= clock' /\ q.now <= clock'
    BY <1>1
<1> QED
    BY <1>2, Moves

\* The scroll row.
LEMMA LockForUpdateStep ==
    ASSUME IInv, NEW t \in Txs, LockForUpdate(t)
    PROVE  IInv'
<1>1. CASE tx[t].scroll \in here /\ stamp[tx[t].scroll] = tx[t].seen
    <2> DEFINE q == [tx[t] EXCEPT !.pc = "ping", !.rows = {tx[t].scroll}]
    <2>1. /\ tx[t] \in TxRecords /\ Shape(tx[t]) /\ Knows(tx[t])
          /\ tx[t].pc = "row" /\ tx[t].op = "update" /\ tx[t].scroll \in Scrolls
        BY Known DEF LockForUpdate, Shape
    <2>2. q \in TxRecords
        BY <2>1 DEF TxRecords, Positions
    <2>3. Shape(q) /\ Knows(q)
        BY <1>1, <2>1 DEF Shape, Knows, TxRecords
    <2>4. \A u \in Txs \ {t} : Apart(q, tx[u]) /\ Apart(tx[u], q)
        <3>1. \A u \in Txs \ {t} : tx[u].rows \cap {tx[t].scroll} = {}
            BY <2>1 DEF LockForUpdate, Blockers, RowHolders
        <3> QED
            BY <2>1, <3>1, Known DEF Apart, TxRecords
    <2>5. /\ tx' = [tx EXCEPT ![t] = q]
          /\ UNCHANGED <<jar, here, stamp, clock>>
        BY <1>1 DEF LockForUpdate
    <2>6. /\ q.op = tx[t].op /\ q.scroll = tx[t].scroll
          /\ q.seen = tx[t].seen /\ q.now = tx[t].now
        BY <2>1 DEF TxRecords
    <2> HIDE DEF q
    <2> QED
        BY <2>2, <2>3, <2>4, <2>5, <2>6, GoesOn
<1>2. CASE ~(tx[t].scroll \in here /\ stamp[tx[t].scroll] = tx[t].seen)
    BY <1>2, EndStep DEF LockForUpdate, Ended
<1> QED
    BY <1>1, <1>2

\* A deletion locks its row, or finds that it is gone.
LEMMA LockForDeleteStep ==
    ASSUME IInv, NEW t \in Txs, LockForDelete(t)
    PROVE  IInv'
<1>1. CASE tx[t].scroll \in here
    <2> DEFINE q == [tx[t] EXCEPT !.pc = "count", !.rows = {tx[t].scroll},
                                  !.gone = {tx[t].scroll}]
    <2>1. /\ tx[t] \in TxRecords /\ Shape(tx[t]) /\ Knows(tx[t])
          /\ tx[t].pc = "row" /\ tx[t].op = "delete" /\ tx[t].scroll \in Scrolls
        BY Known DEF LockForDelete, Shape
    <2>2. q \in TxRecords
        BY <2>1 DEF TxRecords, Positions
    <2>3. Shape(q) /\ Knows(q)
        BY <1>1, <2>1 DEF Shape, Knows, TxRecords
    <2>4. \A u \in Txs \ {t} : Apart(q, tx[u]) /\ Apart(tx[u], q)
        <3>1. \A u \in Txs \ {t} : tx[u].rows \cap {tx[t].scroll} = {}
            BY <2>1 DEF LockForDelete, Blockers, RowHolders
        <3> QED
            BY <2>1, <3>1, Known DEF Apart, TxRecords
    <2>5. /\ tx' = [tx EXCEPT ![t] = q]
          /\ UNCHANGED <<jar, here, stamp, clock>>
        BY <1>1 DEF LockForDelete
    <2>6. /\ q.op = tx[t].op /\ q.scroll = tx[t].scroll
          /\ q.seen = tx[t].seen /\ q.now = tx[t].now
        BY <2>1 DEF TxRecords
    <2> HIDE DEF q
    <2> QED
        BY <2>2, <2>3, <2>4, <2>5, <2>6, GoesOn
<1>2. CASE tx[t].scroll \notin here
    BY <1>2, EndStep DEF LockForDelete, Ended
<1> QED
    BY <1>1, <1>2

\* The triggers.
LEMMA CheckForeignKeyStep ==
    ASSUME IInv, NEW t \in Txs, CheckForeignKey(t)
    PROVE  IInv'
<1>1. CASE jar.live
    <2> DEFINE q == [tx[t] EXCEPT !.pc = "ping", !.jarLock = "share"]
    <2>1. /\ tx[t] \in TxRecords /\ Shape(tx[t]) /\ Knows(tx[t])
          /\ tx[t].pc = "fk" /\ tx[t].op = "insert"
        BY Known DEF CheckForeignKey, Shape
    <2>2. q \in TxRecords
        BY <2>1 DEF TxRecords, Positions
    <2>3. Shape(q) /\ Knows(q)
        BY <1>1, <2>1 DEF Shape, Knows, TxRecords
    <2>4. \A u \in Txs \ {t} : Apart(q, tx[u]) /\ Apart(tx[u], q)
        <3>1. \A u \in Txs \ {t} : tx[u].jarLock # "exclusive"
            BY <2>1 DEF CheckForeignKey, Blockers, JarExclusive
        <3> QED
            BY <2>1, <3>1, Known DEF Apart, TxRecords
    <2>5. /\ tx' = [tx EXCEPT ![t] = q]
          /\ UNCHANGED <<jar, here, stamp, clock>>
        BY <1>1 DEF CheckForeignKey
    <2>6. /\ q.op = tx[t].op /\ q.scroll = tx[t].scroll
          /\ q.seen = tx[t].seen /\ q.now = tx[t].now
        BY <2>1 DEF TxRecords
    <2> HIDE DEF q
    <2> QED
        BY <2>2, <2>3, <2>4, <2>5, <2>6, GoesOn
<1>2. CASE ~jar.live
    BY <1>2, EndStep DEF CheckForeignKey, Ended
<1> QED
    BY <1>1, <1>2

\* A transaction that only moves on, with what it holds.
LEMMA GotoStep ==
    ASSUME IInv, NEW t \in Txs, NEW pc \in Positions, Goto(t, pc),
           UNCHANGED <<jar, here, stamp, clock>>,
           Shape([tx[t] EXCEPT !.pc = pc]), Knows([tx[t] EXCEPT !.pc = pc]),
           pc \in {"fk", "ping", "commit"} /\ tx[t].op = "insert" =>
              tx[t].pc \in {"fk", "ping", "commit"},
           pc # "ok"
    PROVE  IInv'
<1> DEFINE q == [tx[t] EXCEPT !.pc = pc]
<1>1. tx[t] \in TxRecords
    BY Known
<1>2. q \in TxRecords
    BY <1>1 DEF TxRecords
<1>3. \A u \in Txs \ {t} : Apart(q, tx[u]) /\ Apart(tx[u], q)
    BY <1>1, Known DEF Apart, TxRecords
<1>4. tx' = [tx EXCEPT ![t] = q]
    BY DEF Goto
<1>5. /\ q.op = tx[t].op /\ q.scroll = tx[t].scroll
      /\ q.seen = tx[t].seen /\ q.now = tx[t].now
    BY <1>1 DEF TxRecords
<1>6. Shape(q) /\ Knows(q)
    OBVIOUS
<1> HIDE DEF q
<1> QED
    BY <1>2, <1>3, <1>4, <1>5, <1>6, GoesOn

\* The trigger looks for other scrolls; nothing else changes.
LEMMA CountRestStep ==
    ASSUME IInv, NEW t \in Txs, CountRest(t)
    PROVE  IInv'
<1> DEFINE pc == IF Remaining(t) = {} THEN "kill" ELSE "ping"
<1>1. /\ tx[t] \in TxRecords /\ Shape(tx[t]) /\ Knows(tx[t])
      /\ tx[t].pc = "count" /\ tx[t].op = "delete"
    BY Known DEF CountRest, Shape
<1>2. pc \in {"kill", "ping"}
    OBVIOUS
<1>3. Goto(t, pc) /\ UNCHANGED <<jar, here, stamp, clock>>
    BY DEF CountRest
<1> HIDE DEF pc
<1>4. Shape([tx[t] EXCEPT !.pc = pc]) /\ Knows([tx[t] EXCEPT !.pc = pc])
    BY <1>1, <1>2 DEF Shape, Knows, TxRecords
<1>5. pc \in Positions
    BY <1>2 DEF Positions
<1> QED
    BY <1>1, <1>2, <1>3, <1>4, <1>5, GotoStep

\* The trigger's DELETE gets the jar when nobody holds a lock on it.
LEMMA KillJarStep ==
    ASSUME IInv, NEW t \in Txs, KillJar(t)
    PROVE  IInv'
<1>1. /\ tx[t] \in TxRecords /\ Shape(tx[t]) /\ Knows(tx[t])
      /\ tx[t].pc = "kill" /\ tx[t].op \in {"delete", "deleteJar"}
    BY Known DEF KillJar, Shape
<1>2. CASE jar.live
    <2> DEFINE q == [tx[t] EXCEPT !.pc = "cascade", !.jarLock = "exclusive",
                                  !.killed = TRUE]
    <2>1. q \in TxRecords
        BY <1>1 DEF TxRecords, Positions
    <2>2. Shape(q) /\ Knows(q)
        BY <1>1, <1>2 DEF Shape, Knows, TxRecords
    <2>3. \A u \in Txs \ {t} : Apart(q, tx[u]) /\ Apart(tx[u], q)
        <3>1. \A u \in Txs \ {t} : tx[u].jarLock = "none"
            BY <1>1 DEF KillJar, Blockers, JarHolders
        <3> QED
            BY <1>1, <3>1, Known DEF Apart, TxRecords
    <2>4. /\ tx' = [tx EXCEPT ![t] = q]
          /\ UNCHANGED <<jar, here, stamp, clock>>
        BY <1>2 DEF KillJar
    <2>5. /\ q.op = tx[t].op /\ q.scroll = tx[t].scroll
          /\ q.seen = tx[t].seen /\ q.now = tx[t].now
        BY <1>1 DEF TxRecords
    <2> HIDE DEF q
    <2> QED
        BY <2>1, <2>2, <2>3, <2>4, <2>5, GoesOn
<1>3. CASE ~jar.live
    <2>1. Goto(t, "commit") /\ UNCHANGED <<jar, here, stamp, clock>>
        BY <1>3 DEF KillJar
    <2>2. /\ Shape([tx[t] EXCEPT !.pc = "commit"])
          /\ Knows([tx[t] EXCEPT !.pc = "commit"])
        BY <1>1 DEF Shape, Knows, TxRecords
    <2>3. "commit" \in Positions
        BY DEF Positions
    <2> QED
        BY <1>1, <2>1, <2>2, <2>3, GotoStep
<1> QED
    BY <1>2, <1>3

\* The cascade takes the lock of one more row.
LEMMA CascadeRowStep ==
    ASSUME IInv, NEW t \in Txs, NEW s \in Scrolls, CascadeRow(t, s)
    PROVE  IInv'
<1> DEFINE q == [tx[t] EXCEPT !.rows = tx[t].rows \cup {s},
                              !.gone = tx[t].gone \cup {s}]
<1>1. /\ tx[t] \in TxRecords /\ Shape(tx[t]) /\ Knows(tx[t])
      /\ tx[t].pc = "cascade" /\ tx[t].op \in {"delete", "deleteJar"}
    BY Known DEF CascadeRow, Shape
<1>2. q \in TxRecords
    BY <1>1 DEF TxRecords
<1>3. Shape(q) /\ Knows(q)
    BY <1>1 DEF Shape, Knows, TxRecords
<1>4. \A u \in Txs \ {t} : Apart(q, tx[u]) /\ Apart(tx[u], q)
    <2>1. \A u \in Txs \ {t} : tx[u].rows \cap {s} = {}
        BY DEF CascadeRow, RowHolders
    <2>2. /\ q.rows = tx[t].rows \cup {s} /\ q.jarLock = tx[t].jarLock
          /\ q.op = tx[t].op /\ q.pc = tx[t].pc /\ q.scroll = tx[t].scroll
          /\ q.seen = tx[t].seen
        BY <1>1 DEF TxRecords
    <2> HIDE DEF q
    <2>3. ASSUME NEW u \in Txs \ {t}  PROVE Apart(q, tx[u]) /\ Apart(tx[u], q)
        <3>1. Apart(tx[t], tx[u]) /\ Apart(tx[u], tx[t])
            BY Known
        <3>2. tx[u].rows \cap {s} = {}
            BY <2>1
        <3> QED
            BY <1>1, <2>2, <3>1, <3>2 DEF Apart
    <2> QED
        BY <2>3
<1>5. /\ tx' = [tx EXCEPT ![t] = q]
      /\ UNCHANGED <<jar, here, stamp, clock>>
    BY DEF CascadeRow
<1>6. /\ q.op = tx[t].op /\ q.scroll = tx[t].scroll
      /\ q.seen = tx[t].seen /\ q.now = tx[t].now
    BY <1>1 DEF TxRecords
<1> HIDE DEF q
<1> QED
    BY <1>2, <1>3, <1>4, <1>5, <1>6, GoesOn

\* The cascade ends when it has every row that is there.
LEMMA CascadeDoneStep ==
    ASSUME IInv, NEW t \in Txs, CascadeDone(t)
    PROVE  IInv'
<1>1. /\ tx[t] \in TxRecords /\ Shape(tx[t]) /\ Knows(tx[t])
      /\ tx[t].pc = "cascade" /\ tx[t].op \in {"delete", "deleteJar"}
    BY Known DEF CascadeDone, Shape
<1>2. Goto(t, "commit") /\ UNCHANGED <<jar, here, stamp, clock>>
    BY DEF CascadeDone
<1>3. here \subseteq tx[t].gone
    BY DEF CascadeDone, Remaining
<1>4. /\ Shape([tx[t] EXCEPT !.pc = "commit"])
      /\ Knows([tx[t] EXCEPT !.pc = "commit"])
    BY <1>1, <1>3 DEF Shape, Knows, TxRecords
<1>5. "commit" \in Positions
    BY DEF Positions
<1> QED
    BY <1>1, <1>2, <1>4, <1>5, GotoStep

\* The fake UPDATE of the other trigger locks the jar, or finds none.
LEMMA PingStep ==
    ASSUME IInv, NEW t \in Txs, Ping(t)
    PROVE  IInv'
<1>1. /\ tx[t] \in TxRecords /\ Shape(tx[t]) /\ Knows(tx[t])
      /\ tx[t].pc = "ping" /\ tx[t].op \in {"insert", "update", "delete"}
      /\ ~tx[t].killed
    BY Known DEF Ping, Shape
<1>2. CASE jar.live
    <2> DEFINE q == [tx[t] EXCEPT !.pc = "commit", !.jarLock = "exclusive",
                                  !.pinged = TRUE]
    <2>1. q \in TxRecords
        BY <1>1 DEF TxRecords, Positions
    <2>2. Shape(q) /\ Knows(q)
        BY <1>1, <1>2 DEF Shape, Knows, TxRecords
    <2>3. \A u \in Txs \ {t} : Apart(q, tx[u]) /\ Apart(tx[u], q)
        <3>1. \A u \in Txs \ {t} : tx[u].jarLock = "none"
            BY <1>1 DEF Ping, Blockers, JarHolders
        <3> QED
            BY <1>1, <3>1, Known DEF Apart, TxRecords
    <2>4. /\ tx' = [tx EXCEPT ![t] = q]
          /\ UNCHANGED <<jar, here, stamp, clock>>
        BY <1>2 DEF Ping
    <2>5. /\ q.op = tx[t].op /\ q.scroll = tx[t].scroll
          /\ q.seen = tx[t].seen /\ q.now = tx[t].now
        BY <1>1 DEF TxRecords
    <2> HIDE DEF q
    <2> QED
        BY <2>1, <2>2, <2>3, <2>4, <2>5, GoesOn
<1>3. CASE ~jar.live
    <2>1. Goto(t, "commit") /\ UNCHANGED <<jar, here, stamp, clock>>
        BY <1>3 DEF Ping
    <2>2. /\ Shape([tx[t] EXCEPT !.pc = "commit"])
          /\ Knows([tx[t] EXCEPT !.pc = "commit"])
        BY <1>1, <1>3 DEF Shape, Knows, TxRecords
    <2>3. "commit" \in Positions
        BY DEF Positions
    <2> QED
        BY <1>1, <2>1, <2>2, <2>3, GotoStep
<1> QED
    BY <1>2, <1>3

-----------------------------------------------------------------------------
(* The commit *)

\* What t writes it alone may write: its own fresh row, or one that it locked.
LEMMA WrittenAlone ==
    ASSUME IInv, NEW t \in Txs, tx[t].pc = "commit",
           NEW s \in Written(t)
    PROVE  /\ s \in Scrolls /\ s = tx[t].scroll
           /\ tx[t].op = "insert" => s \notin here
           /\ tx[t].op = "update" => s \in here /\ stamp[s] = tx[t].seen
                                     /\ tx[t].rows = {s}
           /\ tx[t].op \in {"insert", "update"}
           /\ tx[t].gone = {} /\ ~tx[t].killed
<1>1. tx[t] \in TxRecords /\ Shape(tx[t]) /\ Knows(tx[t])
    BY Known
<1>2. s = tx[t].scroll /\ tx[t].op \in {"insert", "update"}
    BY DEF Written
<1> QED
    BY <1>1, <1>2 DEF Shape, Knows, TxRecords

\* A commit changes no row that another transaction counts on.
LEMMA OthersKnow ==
    ASSUME IInv, NEW t \in Txs, Commit(t), NEW u \in Txs \ {t}
    PROVE  Knows(tx[u])'
<1>1. /\ tx \in [Txs -> TxRecords] /\ stamp \in [Scrolls -> Nat]
      /\ here \subseteq Scrolls /\ jar \in [live : BOOLEAN, stamp : Nat]
    BY DEF IInv, TypeOK
<1>2. /\ tx[t] \in TxRecords /\ Shape(tx[t]) /\ Knows(tx[t])
      /\ tx[u] \in TxRecords /\ Shape(tx[u]) /\ Knows(tx[u])
      /\ Apart(tx[t], tx[u]) /\ Apart(tx[u], tx[t])
    BY Known
<1>3. /\ tx'[u] = tx[u] /\ tx[t].pc = "commit"
      /\ jar'.live = (jar.live /\ ~tx[t].killed)
      /\ here' = (here \cup Written(t)) \ tx[t].gone
      /\ \A s \in Scrolls : stamp'[s] = IF s \in Written(t) THEN tx[t].now
                                                            ELSE stamp[s]
    BY <1>1, <1>2 DEF Commit, End
<1>4. Written(t) \subseteq {tx[t].scroll}
    BY DEF Written
<1>5. tx[u].jarLock # "none" => jar'.live
    BY <1>1, <1>2, <1>3 DEF Knows, Shape, Apart
<1>6. tx[u].killed /\ tx[u].pc = "commit" => here' \subseteq tx[u].gone
    <2>1. SUFFICES ASSUME tx[u].killed, tx[u].pc = "commit"
                   PROVE  Written(t) \subseteq here
        BY <1>2, <1>3 DEF Knows
    <2>2. tx[t].jarLock = "none"
        BY <1>2, <2>1 DEF Shape, Apart
    <2> QED
        BY <1>2, <1>3, <2>2, WrittenAlone DEF Shape
<1>7. tx[u].op = "insert" /\ tx[u].pc \in {"fk", "ping", "commit"} =>
        tx[u].scroll \notin here'
    BY <1>2, <1>3, <1>4 DEF Knows, Apart
<1>8. tx[u].op = "update" /\ tx[u].pc \in {"ping", "commit"} =>
        tx[u].scroll \in here' /\ stamp'[tx[u].scroll] = tx[u].seen
    <2>1. SUFFICES ASSUME tx[u].op = "update", tx[u].pc \in {"ping", "commit"}
                   PROVE  tx[u].scroll \in here'
                          /\ stamp'[tx[u].scroll] = tx[u].seen
        OBVIOUS
    <2>2. /\ tx[u].rows = {tx[u].scroll} /\ tx[u].scroll \in here
          /\ stamp[tx[u].scroll] = tx[u].seen /\ tx[u].scroll \in Scrolls
        BY <1>2, <2>1 DEF Shape, Knows
    <2>3. tx[u].scroll \notin tx[t].rows /\ tx[u].scroll \notin tx[t].gone
        BY <1>2, <2>2 DEF Shape, Apart
    <2>4. tx[u].scroll \notin Written(t)
        BY <1>2, <1>3, <2>2, <2>3, WrittenAlone DEF Apart
    <2> QED
        BY <1>3, <2>2, <2>3, <2>4
<1>9. tx[u].op = "delete" /\ tx[u].pc = "ok" => tx[u].scroll \notin here'
    <2>1. SUFFICES ASSUME tx[u].op = "delete", tx[u].pc = "ok",
                          tx[u].scroll \in Written(t)
                   PROVE  FALSE
        BY <1>2, <1>3 DEF Knows
    <2>2. tx[u].scroll \notin here
        BY <1>2, <2>1 DEF Knows
    <2> QED
        BY <1>2, <1>3, <2>1, <2>2, WrittenAlone DEF Apart
<1>10. tx[u].op = "update" /\ tx[u].pc \in {"row", "ping", "commit"} =>
         tx[u].seen < tx[u].now
    BY <1>2 DEF Knows
<1>11. tx[u].op = "update" /\ tx[u].pc = "ok" =>
         tx[u].seen < stamp'[tx[u].scroll]
    <2>1. SUFFICES ASSUME tx[u].op = "update", tx[u].pc = "ok"
                   PROVE  tx[u].seen < stamp'[tx[u].scroll]
        OBVIOUS
    <2>2. tx[u].scroll \in Scrolls /\ tx[u].seen < stamp[tx[u].scroll]
        BY <1>2, <2>1 DEF Shape, Knows
    <2>3. CASE tx[u].scroll \in Written(t)
        <3>1. tx[t].op = "update" /\ stamp[tx[u].scroll] = tx[t].seen
            BY <1>2, <1>3, <2>3, WrittenAlone DEF Apart
        <3>2. tx[t].seen < tx[t].now
            BY <1>2, <1>3, <3>1 DEF Knows
        <3>3. tx[t].seen \in Nat /\ tx[t].now \in Nat /\ tx[u].seen \in Nat
            BY <1>2 DEF TxRecords
        <3> QED
            BY <1>3, <2>2, <2>3, <3>1, <3>2, <3>3
    <2>4. CASE tx[u].scroll \notin Written(t)
        BY <1>3, <2>2, <2>4
    <2> QED
        BY <2>3, <2>4
<1> QED
    BY <1>3, <1>5, <1>6, <1>7, <1>8, <1>9, <1>10, <1>11 DEF Knows

\* The effects become visible. Nobody else holds what they change.
LEMMA CommitStep ==
    ASSUME IInv, NEW t \in Txs, Commit(t)
    PROVE  IInv'
<1> DEFINE q == [NewTx EXCEPT !.pc = "ok", !.op = tx[t].op,
                              !.scroll = tx[t].scroll, !.seen = tx[t].seen]
<1>1. /\ tx \in [Txs -> TxRecords] /\ stamp \in [Scrolls -> Nat]
      /\ here \subseteq Scrolls /\ jar \in [live : BOOLEAN, stamp : Nat]
      /\ clock \in Nat
    BY DEF IInv, TypeOK
<1>2. /\ tx[t] \in TxRecords /\ Shape(tx[t]) /\ Knows(tx[t])
      /\ tx[t].seen \in Nat /\ tx[t].now \in Nat
      /\ tx[t].seen <= clock /\ tx[t].now <= clock /\ tx[t].pc = "commit"
      /\ tx[t].killed \in BOOLEAN /\ tx[t].pinged \in BOOLEAN
    BY Known DEF TxRecords, Commit
<1>3. /\ tx' = [tx EXCEPT ![t] = q]
      /\ jar' = [live |-> jar.live /\ ~tx[t].killed,
                 stamp |-> IF tx[t].pinged THEN tx[t].now ELSE jar.stamp]
      /\ here' = (here \cup Written(t)) \ tx[t].gone
      /\ stamp' = [s \in Scrolls |-> IF s \in Written(t) THEN tx[t].now
                                                         ELSE stamp[s]]
      /\ clock' = clock
    BY DEF Commit, End
<1>4. q \in TxRecords
    BY <1>2 DEF TxRecords, NewTx, Positions, Ended
<1>5. /\ q.pc = "ok" /\ q.op = tx[t].op /\ q.scroll = tx[t].scroll
      /\ q.seen = tx[t].seen /\ q.now = 0 /\ q.rows = {} /\ q.gone = {}
      /\ q.jarLock = "none" /\ q.killed = FALSE
    BY DEF NewTx
<1> HIDE DEF q
<1>6. tx'[t] = q /\ \A u \in Txs \ {t} : tx'[u] = tx[u]
    BY <1>1, <1>3
<1>7. Written(t) \subseteq Scrolls
    BY WrittenAlone, <1>2
<1>8. TypeOK'
    <2>1. tx' \in [Txs -> TxRecords]
        BY <1>1, <1>3, <1>4
    <2>2. here' \in SUBSET Scrolls /\ clock' \in Nat
        BY <1>1, <1>3, <1>7
    <2>3. stamp' \in [Scrolls -> Nat]
        BY <1>1, <1>2, <1>3
    <2>4. jar' \in [live : BOOLEAN, stamp : Nat]
        <3>1. (IF tx[t].pinged THEN tx[t].now ELSE jar.stamp) \in Nat
            BY <1>1, <1>2
        <3>2. (jar.live /\ ~tx[t].killed) \in BOOLEAN
            OBVIOUS
        <3> QED
            BY <1>3, <3>1, <3>2
    <2> QED
        BY <2>1, <2>2, <2>3, <2>4 DEF TypeOK
<1>9. Tables'
    <2>1. ASSUME NEW s \in here'
          PROVE  s \in Initial \/ \E u \in Txs : tx'[u].scroll = s
        <3>1. \A u \in Txs : tx'[u].scroll = tx[u].scroll
            BY <1>5, <1>6
        <3>2. s \in here \/ s = tx[t].scroll
            BY <1>2, <1>3, WrittenAlone
        <3> QED
            BY <3>1, <3>2 DEF IInv, Tables
    <2>2. ASSUME NEW s \in Scrolls  PROVE stamp'[s] <= clock'
        BY <1>1, <1>2, <1>3 DEF IInv, Tables
    <2>3. ASSUME NEW u \in Txs
          PROVE  tx'[u].seen <= clock' /\ tx'[u].now <= clock'
        <3>1. CASE u = t
            BY <1>1, <1>2, <1>3, <1>5, <1>6, <3>1
        <3>2. CASE u # t
            BY <1>3, <1>6, <3>2 DEF IInv, Tables
        <3> QED
            BY <3>1, <3>2
    <2> QED
        BY <2>1, <2>2, <2>3 DEF Tables
<1>10. NoOrphanRow'
    <2>1. CASE tx[t].killed
        <3>1. here \subseteq tx[t].gone /\ Written(t) = {}
            BY <1>2, <2>1 DEF Knows, Shape, Written
        <3>2. here' = {}
            BY <1>3, <3>1
        <3> QED
            BY <3>2 DEF NoOrphanRow
    <2>2. CASE ~tx[t].killed
        <3>1. jar'.live = jar.live
            BY <1>1, <1>3, <2>2
        <3>2. Written(t) # {} => jar.live
            <4>1. tx[t].op = "insert" => jar.live
                BY <1>2 DEF Shape, Knows
            <4>2. tx[t].op = "update" => jar.live
                BY <1>2 DEF Knows, IInv, NoOrphanRow
            <4> QED
                BY <4>1, <4>2 DEF Written
        <3>3. here # {} => jar.live
            BY DEF IInv, NoOrphanRow
        <3> QED
            BY <1>3, <3>1, <3>2, <3>3 DEF NoOrphanRow
    <2> QED
        BY <2>1, <2>2
<1>11. Shape(tx[t])' /\ Knows(tx[t])'
    <2>1. Shape(q)
        BY <1>2, <1>5 DEF Shape
    <2>2. q.op = "delete" => q.scroll \notin here'
        BY <1>2, <1>3, <1>5 DEF Shape
    <2>3. q.op = "update" => q.seen < stamp'[q.scroll]
        <3>1. SUFFICES ASSUME q.op = "update"  PROVE q.seen < stamp'[q.scroll]
            OBVIOUS
        <3>2. tx[t].scroll \in Scrolls /\ tx[t].scroll \in Written(t)
            BY <1>2, <1>5, <3>1 DEF Shape, Written
        <3>3. stamp'[tx[t].scroll] = tx[t].now
            BY <1>3, <3>2
        <3> QED
            BY <1>2, <1>5, <3>1, <3>3 DEF Knows
    <2> QED
        BY <1>5, <1>6, <2>1, <2>2, <2>3 DEF Shape, Knows
<1>12. ASSUME NEW u \in Txs  PROVE Shape(tx[u])' /\ Knows(tx[u])'
    <2>1. CASE u = t
        BY <1>11, <2>1
    <2>2. CASE u # t
        <3>1. Shape(tx[u])
            BY Known
        <3>2. Shape(tx[u])'
            BY <1>6, <2>2, <3>1 DEF Shape
        <3> QED
            BY <2>2, <3>2, OthersKnow
    <2> QED
        BY <2>1, <2>2
<1>13. ASSUME NEW u \in Txs \ {t}  PROVE Apart(q, tx[u]) /\ Apart(tx[u], q)
    <2>1. Apart(tx[u], tx[t]) /\ Knows(tx[u])
        BY Known
    <2>2. tx[t].op = "update" /\ tx[u].op = "update" /\ tx[u].pc = "ok" =>
            tx[t].scroll # tx[u].scroll \/ tx[t].seen # tx[u].seen
        <3>1. SUFFICES ASSUME tx[t].op = "update", tx[u].op = "update",
                              tx[u].pc = "ok", tx[t].scroll = tx[u].scroll
                       PROVE  tx[t].seen # tx[u].seen
            OBVIOUS
        <3>2. tx[u].seen < tx[t].seen
            BY <1>2, <2>1, <3>1 DEF Knows
        <3>3. tx[u].seen \in Nat
            BY <1>1 DEF TxRecords
        <3> QED
            BY <1>2, <3>2, <3>3
    <2> QED
        BY <1>5, <2>1, <2>2 DEF Apart
<1>14. ASSUME NEW u \in Txs, NEW w \in Txs, u # w  PROVE Apart(tx[u], tx[w])'
    <2>1. CASE u = t
        BY <1>6, <1>13, <1>14, <2>1 DEF Apart
    <2>2. CASE w = t
        BY <1>6, <1>13, <1>14, <2>2 DEF Apart
    <2>3. CASE u # t /\ w # t
        <3>1. Apart(tx[u], tx[w])
            BY <1>14 DEF IInv
        <3> QED
            BY <1>6, <2>3, <3>1 DEF Apart
    <2> QED
        BY <2>1, <2>2, <2>3
<1> QED
    BY <1>8, <1>9, <1>10, <1>12, <1>14 DEF IInv

-----------------------------------------------------------------------------
(* The invariant holds *)

\* The invariant holds before the first statement.
LEMMA AtStart ==
    Init => IInv
<1> SUFFICES ASSUME Init  PROVE IInv
    OBVIOUS
<1>1. NewTx \in TxRecords
    BY DEF NewTx, TxRecords, Positions
<1>2. /\ jar = [live |-> TRUE, stamp |-> 0] /\ here = Initial
      /\ stamp = [s \in Scrolls |-> 0] /\ clock = 0
      /\ \A t \in Txs : tx[t] = NewTx
    BY DEF Init
<1>3. TypeOK
    BY <1>1 DEF Init, TypeOK
<1>4. Tables
    BY <1>2 DEF Tables, NewTx
<1>5. NoOrphanRow
    BY <1>2 DEF NoOrphanRow
<1>6. Shape(NewTx) /\ Knows(NewTx) /\ Apart(NewTx, NewTx)
    BY DEF Shape, Knows, Apart, NewTx
<1> QED
    BY <1>2, <1>3, <1>4, <1>5, <1>6 DEF IInv

\* Who waits for another one has not ended.
LEMMA WaitingIsActive ==
    ASSUME NEW t \in Txs, Deadlocked(t)
    PROVE  tx[t].pc \notin {"idle", "ready"} \cup Ended
<1>1. PICK n \in 2..Cardinality(Txs) : \E c \in [1..n -> Txs] :
        /\ c[1] = t
        /\ \A i \in 1..n : c[(i % n) + 1] \in Blockers(c[i])
    BY DEF Deadlocked
<1>2. PICK c \in [1..n -> Txs] :
        /\ c[1] = t
        /\ \A i \in 1..n : c[(i % n) + 1] \in Blockers(c[i])
    BY <1>1
<1>3. 1 \in 1..n
    BY <1>1
<1>4. Blockers(t) # {}
    BY <1>2, <1>3
<1> QED
    BY <1>4 DEF Blockers, Ended

\* A step of the transactions, statement by statement.
LEMMA ProgressStep ==
    ASSUME IInv, NEW t \in Txs, Progress(t)
    PROVE  IInv'
<1>1. ASSUME DeadlockAbort(t)  PROVE IInv'
    <2>1. tx[t].pc # "idle"
        BY <1>1, WaitingIsActive DEF DeadlockAbort
    <2> QED
        BY <1>1, <2>1, EndStep DEF DeadlockAbort, Ended
<1> QED
    BY <1>1, LockForUpdateStep, LockForDeleteStep, CheckForeignKeyStep,
       CountRestStep, KillJarStep, CascadeRowStep, CascadeDoneStep, PingStep,
       CommitStep DEF Progress

\* Every step keeps the invariant.
LEMMA NextStep ==
    IInv /\ [Next]_vars => IInv'
<1> SUFFICES ASSUME IInv, [Next]_vars  PROVE IInv'
    OBVIOUS
<1>1. CASE UNCHANGED vars
    BY <1>1 DEF vars, IInv, TypeOK, Tables, NoOrphanRow, Shape, Knows, Apart
<1>2. ASSUME NEW t \in Txs, Cancel(t)  PROVE IInv'
    BY <1>2, EndStep DEF Cancel, Active, Ended
<1>3. CASE Next
    BY <1>2, <1>3, ReadStep, StartInsertStep, StartDeleteStep, StartUpdateStep,
       StartDeleteJarStep, ProgressStep DEF Next
<1> QED
    BY <1>1, <1>3

\* The locks and what the transactions know, at any time.
THEOREM LocksHold == Spec => []IInv
BY AtStart, NextStep, PTL DEF Spec

\* The tables and the transactions always have their types.
THEOREM TypesHold == Spec => []TypeOK
<1>1. IInv => TypeOK
    BY DEF IInv
<1> QED
    BY <1>1, LocksHold, PTL

\* Whatever deletions, cascades and inserts overlap, no scroll row is left
\* without its jar row.
THEOREM NoOrphans == Spec => []NoOrphanRow
<1>1. IInv => NoOrphanRow
    BY DEF IInv
<1> QED
    BY <1>1, LocksHold, PTL

\* The optimistic lock on updated_at: of the updates that read one version of
\* a row one at most succeeds.
THEOREM OneWinner == Spec => []OneWinnerPerVersion
<1>1. IInv => OneWinnerPerVersion
    BY DEF IInv, Apart, OneWinnerPerVersion
<1> QED
    BY <1>1, LocksHold, PTL

\* After a deletion that succeeded no other statement brings the row back.
THEOREM DeletedGone == Spec => []DeletedIsGone
<1>1. IInv => DeletedIsGone
    BY DEF IInv, Knows, DeletedIsGone
<1> QED
    BY <1>1, LocksHold, PTL

-----------------------------------------------------------------------------
(* The statements implement JarTable *)

\* The tables as JarTable sees them.
Stages == [s \in Scrolls |-> Stage(s)]

\* Every row was there at first, or an insert of it has ended.
Born == here \subseteq Initial \cup Applied("insert")

\* A step that ends no insert.
LEMMA SameApplied ==
    ASSUME IInv, NEW t \in Txs, NEW q,
           tx' = [tx EXCEPT ![t] = q],
           tx[t].pc # "ok", q.pc = "ok" => q.op # "insert"
    PROVE  Applied("insert")' = Applied("insert")
<1>1. tx'[t] = q /\ \A u \in Txs \ {t} : tx'[u] = tx[u]
    BY DEF IInv, TypeOK
<1> QED
    BY <1>1 DEF Applied

\* Only a commit changes what JarTable sees.
LEMMA OtherSteps ==
    ASSUME IInv, [Next]_vars, \A t \in Txs : ~Commit(t)
    PROVE  /\ UNCHANGED <<jar, here, stamp>>
           /\ Applied("insert")' = Applied("insert")
<1> DEFINE P == /\ UNCHANGED <<jar, here, stamp>>
                /\ Applied("insert")' = Applied("insert")
<1>1. ASSUME NEW t \in Txs, NEW s \in Scrolls,
             Read(t, s) \/ StartInsert(t, s) \/ StartDelete(t, s)
      PROVE  P
    BY <1>1, SameApplied DEF Read, StartInsert, StartDelete, Start, NewTx
<1>2. ASSUME NEW t \in Txs, StartUpdate(t) \/ StartDeleteJar(t)
      PROVE  P
    BY <1>2, SameApplied DEF StartUpdate, StartDeleteJar, Start, NewTx
<1>3. ASSUME NEW t \in Txs, NEW how \in Ended, End(t, how),
             UNCHANGED <<jar, here, stamp>>, tx[t].pc # "ok",
             how = "ok" => tx[t].op # "insert"
      PROVE  P
    BY <1>3, SameApplied DEF End, NewTx
<1>4. ASSUME NEW t \in Txs, Cancel(t) \/ DeadlockAbort(t)
      PROVE  P
    BY <1>3, <1>4, WaitingIsActive DEF Cancel, DeadlockAbort, Active, Ended
<1>5. ASSUME NEW t \in Txs, NEW pc \in Positions \ Ended, Goto(t, pc),
             UNCHANGED <<jar, here, stamp>>, tx[t].pc # "ok"
      PROVE  P
    <2>1. tx[t] \in TxRecords
        BY Known
    <2>2. tx' = [tx EXCEPT ![t] = [tx[t] EXCEPT !.pc = pc]]
        BY <1>5 DEF Goto
    <2>3. [tx[t] EXCEPT !.pc = pc].pc # "ok"
        BY <1>5, <2>1 DEF TxRecords, Ended
    <2> QED
        BY <1>5, <2>2, <2>3, SameApplied
<1>6. ASSUME NEW t \in Txs, LockForUpdate(t) \/ LockForDelete(t)
      PROVE  P
    <2>1. tx[t] \in TxRecords
        BY Known
    <2> QED
        BY <1>3, <1>6, <2>1, SameApplied
        DEF LockForUpdate, LockForDelete, TxRecords, Ended
<1>7. ASSUME NEW t \in Txs, CheckForeignKey(t) \/ KillJar(t) \/ Ping(t)
      PROVE  P
    <2>1. /\ tx[t] \in TxRecords /\ tx[t].pc \in {"fk", "kill", "ping"}
          /\ UNCHANGED <<jar, here, stamp>>
        BY <1>7, Known DEF CheckForeignKey, KillJar, Ping
    <2>2. CASE jar.live
        <3>1. /\ [tx[t] EXCEPT !.pc = "ping", !.jarLock = "share"].pc = "ping"
              /\ [tx[t] EXCEPT !.pc = "cascade", !.jarLock = "exclusive",
                               !.killed = TRUE].pc = "cascade"
              /\ [tx[t] EXCEPT !.pc = "commit", !.jarLock = "exclusive",
                               !.pinged = TRUE].pc = "commit"
            BY <2>1 DEF TxRecords
        <3>2. PICK q : tx' = [tx EXCEPT ![t] = q] /\ q.pc # "ok"
            BY <1>7, <2>2, <3>1 DEF CheckForeignKey, KillJar, Ping
        <3> QED
            BY <2>1, <3>2, SameApplied
    <2>3. CASE ~jar.live
        <3>1. End(t, "error") \/ Goto(t, "commit")
            BY <1>7, <2>3 DEF CheckForeignKey, KillJar, Ping
        <3> QED
            BY <1>3, <1>5, <2>1, <3>1 DEF Ended, Positions
    <2> QED
        BY <2>2, <2>3
<1>8. ASSUME NEW t \in Txs, CountRest(t) \/ CascadeDone(t)
      PROVE  P
    BY <1>5, <1>8 DEF CountRest, CascadeDone, Positions, Ended
<1>9. ASSUME NEW t \in Txs, NEW s \in Scrolls, CascadeRow(t, s)
      PROVE  P
    <2>1. tx[t] \in TxRecords
        BY Known
    <2> QED
        BY <1>9, <2>1, SameApplied DEF CascadeRow, TxRecords
<1>10. CASE UNCHANGED vars
    BY <1>10 DEF vars, Applied
<1> QED
    BY <1>1, <1>2, <1>4, <1>6, <1>7, <1>8, <1>9, <1>10 DEF Next, Progress

\* What a commit does to the tables and to the list of ended inserts.
LEMMA Committed ==
    ASSUME IInv, NEW t \in Txs, Commit(t)
    PROVE  /\ tx[t] \in TxRecords /\ Shape(tx[t]) /\ Knows(tx[t])
           /\ tx[t].pc = "commit"
           /\ jar'.live = (jar.live /\ ~tx[t].killed)
           /\ here' = (here \cup Written(t)) \ tx[t].gone
           /\ stamp' = [s \in Scrolls |-> IF s \in Written(t) THEN tx[t].now
                                                              ELSE stamp[s]]
           /\ tx[t].op = "insert" =>
                Applied("insert")' = Applied("insert") \cup {tx[t].scroll}
           /\ tx[t].op # "insert" => Applied("insert")' = Applied("insert")
<1>1. /\ tx \in [Txs -> TxRecords] /\ jar \in [live : BOOLEAN, stamp : Nat]
    BY DEF IInv, TypeOK
<1>2. /\ tx[t] \in TxRecords /\ Shape(tx[t]) /\ Knows(tx[t])
      /\ tx[t].pc = "commit"
    BY Known DEF Commit
<1>3. /\ tx'[t].pc = "ok" /\ tx'[t].op = tx[t].op
      /\ tx'[t].scroll = tx[t].scroll
      /\ \A u \in Txs \ {t} : tx'[u] = tx[u]
    BY <1>1 DEF Commit, End, NewTx
<1>4. /\ tx[t].op = "insert" =>
           Applied("insert")' = Applied("insert") \cup {tx[t].scroll}
      /\ tx[t].op # "insert" => Applied("insert")' = Applied("insert")
    BY <1>2, <1>3 DEF Applied
<1> QED
    BY <1>2, <1>4 DEF Commit

\* A row is there only if its insert has ended, or from the start.
LEMMA BornStep == IInv /\ Born /\ [Next]_vars => Born'
<1> SUFFICES ASSUME IInv, Born, [Next]_vars  PROVE Born'
    OBVIOUS
<1>1. ASSUME NEW t \in Txs, Commit(t)  PROVE Born'
    <2>1. \A s \in Written(t) : s \in here \/ tx[t].op = "insert"
        BY <1>1, WrittenAlone DEF Commit
    <2>2. Written(t) \subseteq {tx[t].scroll}
        BY DEF Written
    <2> QED
        BY <1>1, <2>1, <2>2, Committed DEF Born
<1>2. CASE \A t \in Txs : ~Commit(t)
    BY <1>2, OtherSteps DEF Born
<1> QED
    BY <1>1, <1>2

\* A commit is the step of its statement, if there is anything that it changes.
LEMMA CommitInTable ==
    ASSUME IInv, Born, NEW t \in Txs, Commit(t)
    PROVE  [Table!TableNext]_(Table!tableVars)
<1> DEFINE old == Applied("insert")
           new == Applied("insert")'
           q == tx[t]
<1>1. /\ stamp \in [Scrolls -> Nat] /\ here \subseteq Scrolls
      /\ jar \in [live : BOOLEAN, stamp : Nat]
    BY DEF IInv, TypeOK
<1>2. /\ q \in TxRecords /\ Shape(q) /\ Knows(q) /\ q.pc = "commit"
      /\ jar'.live = (jar.live /\ ~q.killed)
      /\ here' = (here \cup Written(t)) \ q.gone
      /\ stamp' = [s \in Scrolls |-> IF s \in Written(t) THEN q.now
                                                         ELSE stamp[s]]
      /\ q.op = "insert" => new = old \cup {q.scroll}
      /\ q.op # "insert" => new = old
    BY Committed
<1>3. here \subseteq Initial \cup old
    BY DEF Born
<1>4. q.op = "insert" => q.scroll \notin old
    <2>1. ASSUME NEW u \in Txs \ {t}, q.op = "insert"
          PROVE  tx[u].scroll # q.scroll
        BY <1>2, <2>1, Known DEF Apart
    <2> QED
        BY <1>2, <2>1 DEF Applied
<1> HIDE DEF old, new
<1>5. /\ Stages \in [Scrolls -> {"there", "gone", "free"}]
      /\ \A s \in Scrolls :
            Stages[s] = IF s \in here THEN "there"
                        ELSE IF s \in Initial \cup old THEN "gone" ELSE "free"
    BY DEF Stages, Stage, old
<1>6. /\ Stages' \in [Scrolls -> {"there", "gone", "free"}]
      /\ \A s \in Scrolls :
            Stages'[s] = IF s \in here' THEN "there"
                         ELSE IF s \in Initial \cup new THEN "gone" ELSE "free"
    BY DEF Stages, Stage, new
<1>7. CASE q.killed
    <2>1. /\ Written(t) = {} /\ here \subseteq q.gone /\ jar.live
          /\ q.op # "insert"
        BY <1>2, <1>7 DEF Shape, Knows, Written
    <2>2. here' = {} /\ new = old /\ stamp' = stamp /\ jar'.live = FALSE
        BY <1>1, <1>2, <1>7, <2>1
    <2>3. Stages' = [s \in Scrolls |-> IF Stages[s] = "there" THEN "gone"
                                                             ELSE Stages[s]]
        BY <1>3, <1>5, <1>6, <2>2
    <2>4. Table!DeleteJar
        BY <2>1, <2>2, <2>3 DEF Table!DeleteJar, Stages
    <2> QED
        BY <2>4 DEF Table!TableNext
<1>8. CASE ~q.killed /\ q.op \notin {"insert", "update"}
    <2>1. Written(t) = {} /\ q.gone \subseteq {q.scroll}
        BY <1>2, <1>8 DEF Shape, Written
    <2>2. /\ here' = here \ q.gone /\ new = old /\ stamp' = stamp
          /\ jar'.live = jar.live
        BY <1>1, <1>2, <1>8, <2>1
    <2>3. CASE here' = here
        <3>1. Stages' = Stages
            BY <1>5, <1>6, <2>2, <2>3
        <3> QED
            BY <2>2, <3>1 DEF Table!tableVars, Stages
    <2>4. CASE here' # here
        <3>1. /\ q.scroll \in here /\ q.scroll \in Scrolls
              /\ here' = here \ {q.scroll}
            BY <1>1, <2>1, <2>2, <2>4
        <3>2. /\ Stages[q.scroll] = "there"
              /\ Stages' = [Stages EXCEPT ![q.scroll] = "gone"]
            BY <1>3, <1>5, <1>6, <2>2, <3>1
        <3>3. Table!Delete(q.scroll)
            BY <2>2, <3>2 DEF Table!Delete, Stages
        <3> QED
            BY <3>1, <3>3 DEF Table!TableNext
    <2> QED
        BY <2>3, <2>4
<1>9. ASSUME ~q.killed, q.op \in {"insert", "update"}
      PROVE  /\ q.scroll \in Scrolls /\ here' = here \cup {q.scroll}
             /\ stamp' \in [Scrolls -> Nat] /\ stamp'[q.scroll] = q.now
             /\ \A x \in Scrolls \ {q.scroll} : stamp'[x] = stamp[x]
             /\ jar'.live = jar.live
    <2>1. /\ Written(t) = {q.scroll} /\ q.scroll \in Scrolls /\ q.gone = {}
          /\ q.now \in Nat
        BY <1>2, <1>9 DEF Shape, Written, TxRecords
    <2> QED
        BY <1>1, <1>2, <1>9, <2>1
<1>10. CASE q.op = "insert" /\ ~q.killed
    <2>1. jar.live /\ q.scroll \notin here /\ q.scroll \notin Initial
        BY <1>2, <1>10 DEF Shape, Knows
    <2>2. /\ Stages[q.scroll] = "free"
          /\ Stages' = [Stages EXCEPT ![q.scroll] = "there"]
        <3>1. /\ new = old \cup {q.scroll} /\ q.scroll \in Scrolls
              /\ here' = here \cup {q.scroll} /\ q.scroll \notin old
            BY <1>2, <1>4, <1>9, <1>10
        <3>2. Stages[q.scroll] = "free" /\ Stages'[q.scroll] = "there"
            BY <1>5, <1>6, <2>1, <3>1
        <3>3. \A s \in Scrolls \ {q.scroll} : Stages'[s] = Stages[s]
            BY <1>5, <1>6, <3>1
        <3> QED
            BY <1>5, <1>6, <3>1, <3>2, <3>3
    <2>3. Table!Insert(q.scroll)
        BY <1>9, <1>10, <2>1, <2>2 DEF Table!Insert, Table!Write, Stages
    <2> QED
        BY <1>9, <1>10, <2>3 DEF Table!TableNext
<1>11. CASE q.op = "update" /\ ~q.killed
    <2>1. q.scroll \in here /\ stamp[q.scroll] = q.seen /\ q.seen < q.now
        BY <1>2, <1>11 DEF Shape, Knows
    <2>2. /\ Stages[q.scroll] = "there"
          /\ Stages' = [Stages EXCEPT ![q.scroll] = "there"]
        BY <1>2, <1>5, <1>6, <1>9, <1>11, <2>1
    <2>3. stamp'[q.scroll] > stamp[q.scroll]
        BY <1>2, <1>9, <1>11, <2>1 DEF TxRecords
    <2>4. Table!Update(q.scroll)
        BY <1>9, <1>11, <2>2, <2>3 DEF Table!Update, Table!Write, Stages
    <2> QED
        BY <1>9, <1>11, <2>4 DEF Table!TableNext
<1> QED
    BY <1>7, <1>8, <1>10, <1>11

\* Every step is a step of JarTable, or changes nothing there.
LEMMA TableStep ==
    IInv /\ Born /\ [Next]_vars => [Table!TableNext]_(Table!tableVars)
<1> SUFFICES ASSUME IInv, Born, [Next]_vars
             PROVE  [Table!TableNext]_(Table!tableVars)
    OBVIOUS
<1>1. ASSUME NEW t \in Txs, Commit(t)
      PROVE  [Table!TableNext]_(Table!tableVars)
    BY <1>1, CommitInTable
<1>2. CASE \A t \in Txs : ~Commit(t)
    <2>1. /\ UNCHANGED <<jar, here, stamp>>
          /\ Applied("insert")' = Applied("insert")
        BY <1>2, OtherSteps
    <2>2. \A s \in Scrolls : Stage(s)' = Stage(s)
        BY <2>1 DEF Stage
    <2> QED
        BY <2>1, <2>2 DEF Table!tableVars
<1> QED
    BY <1>1, <1>2

\* Whatever statements meet on a jar, each takes effect as a whole: the locks
\* and the triggers implement JarTable, for any number of transactions.
THEOREM Implements == Spec => ImplementsTable
<1>1. Init => Table!TableInit
    <2>1. ASSUME Init  PROVE Table!TableInit
        <3>1. jar.live = TRUE /\ here = Initial /\ stamp = [s \in Scrolls |-> 0]
            BY <2>1 DEF Init
        <3>2. Applied("insert") = {}
            BY <2>1 DEF Init, NewTx, Applied
        <3>3. \A s \in Scrolls :
                Stage(s) = IF s \in Initial THEN "there" ELSE "free"
            BY <3>1, <3>2 DEF Stage
        <3> QED
            BY <3>1, <3>3 DEF Table!TableInit
    <2> QED
        BY <2>1
<1>2. Init => Born
    BY DEF Init, Born
<1>3. Spec => []Born
    BY <1>2, BornStep, LocksHold, PTL DEF Spec
<1> QED
    BY <1>1, <1>3, TableStep, LocksHold, PTL
    DEF Spec, ImplementsTable, Table!TableSpec

-----------------------------------------------------------------------------
(* When the jar goes with its last scroll *)

\* A deletion of a scroll meets no insert and no other deletion of a scroll.
CountsAlone ==
    \A t, u \in Txs :
        t # u /\ Active(t) /\ Active(u) /\ tx[t].op = "delete" =>
            tx[u].op \notin {"insert", "delete"}

\* What delete_empty_scrolljar counted in the transaction with the record q is
\* still so: no scroll but its own is left, or another one is.
\* A deletion of the jar that deletes none has found none.
Counted(q) ==
    /\ q.op = "delete" /\ (q.pc \in {"kill", "cascade"} \/ q.killed) =>
          here \subseteq {q.scroll}
    /\ q.op = "delete" /\ q.pc \in {"ping", "commit"} /\ ~q.killed /\ jar.live
          => here \ {q.scroll} # {}
    /\ q.op \notin {"insert", "update", "delete"} /\ q.pc = "commit"
          /\ ~q.killed => ~jar.live

\* The jar is there as long as it has a scroll.
LastOne ==
    /\ jar.live <=> here # {}
    /\ \A t \in Txs : Counted(tx[t])

\* The scrolls of the jar are those that the answers tell of.
AsAnswered == here = (Initial \cup Applied("insert")) \ Applied("delete")

\* What a step other than a commit does: it moves one transaction, which ends
\* well only as a deletion that finds its row gone, and keeps what it counted.
MovesOne(t) ==
    /\ \A u \in Txs \ {t} : tx'[u] = tx[u]
    /\ tx[t].pc # "ok"
    /\ tx'[t].pc = "ok" =>
          tx'[t].op = "delete" /\ tx'[t].scroll \notin here
    /\ Counted(tx[t]) => Counted(tx'[t])

\* A transaction that is not beyond its count has nothing to keep.
LEMMA NotCounted ==
    ASSUME NEW q, q.pc \notin {"kill", "cascade", "ping", "commit"}, ~q.killed
    PROVE  Counted(q)
BY DEF Counted

\* The record of a transaction that goes on.
LEMMA MovesTo ==
    ASSUME IInv, NEW t \in Txs, NEW q, tx' = [tx EXCEPT ![t] = q],
           tx[t].pc # "ok",
           q.pc = "ok" => q.op = "delete" /\ q.scroll \notin here,
           Counted(tx[t]) => Counted(q)
    PROVE  MovesOne(t)
<1>1. tx'[t] = q /\ \A u \in Txs \ {t} : tx'[u] = tx[u]
    BY DEF IInv, TypeOK
<1> QED
    BY <1>1 DEF MovesOne

\* A statement that starts has not counted yet; DELETE of the jar counts nothing.
LEMMA StartsUncounted ==
    ASSUME IInv, NEW t \in Txs,
           \/ \E s \in Scrolls : \/ Read(t, s) \/ StartInsert(t, s)
                                 \/ StartDelete(t, s)
           \/ StartUpdate(t) \/ StartDeleteJar(t)
    PROVE  MovesOne(t)
<1>1. ASSUME NEW q, tx' = [tx EXCEPT ![t] = q],
             tx[t].pc \in {"idle", "ready"}, ~q.killed,
             q.pc = "kill" => q.op = "deleteJar",
             q.pc \notin {"cascade", "ping", "commit", "ok"}
      PROVE  MovesOne(t)
    <2>1. Counted(q)
        BY <1>1 DEF Counted
    <2> QED
        BY <1>1, <2>1, MovesTo
<1>2. ASSUME NEW s \in Scrolls, Read(t, s)  PROVE MovesOne(t)
    <2> DEFINE q == [NewTx EXCEPT !.pc = "ready", !.op = "update",
                                  !.scroll = s, !.seen = stamp[s]]
    <2>1. q.pc = "ready" /\ ~q.killed
        BY DEF NewTx
    <2>2. tx' = [tx EXCEPT ![t] = q] /\ tx[t].pc = "idle"
        BY <1>2 DEF Read
    <2> HIDE DEF q
    <2> QED
        BY <1>1, <2>1, <2>2
<1>3. ASSUME NEW op, NEW s, NEW seen, NEW pc, Start(t, op, s, seen, pc),
             tx[t].pc \in {"idle", "ready"},
             pc = "kill" => op = "deleteJar",
             pc \notin {"cascade", "ping", "commit", "ok"}
      PROVE  MovesOne(t)
    <2> DEFINE q == [NewTx EXCEPT !.pc = pc, !.op = op, !.scroll = s,
                                  !.seen = seen, !.now = clock + 1]
    <2>1. q.pc = pc /\ q.op = op /\ ~q.killed
        BY DEF NewTx
    <2>2. tx' = [tx EXCEPT ![t] = q]
        BY <1>3 DEF Start
    <2> HIDE DEF q
    <2> QED
        BY <1>1, <1>3, <2>1, <2>2
<1>4. ASSUME NEW s \in Scrolls, StartInsert(t, s) \/ StartDelete(t, s)
      PROVE  MovesOne(t)
    <2>1. \/ Start(t, "insert", s, 0, "fk")
          \/ Start(t, "delete", s, 0, "row")
        BY <1>4 DEF StartInsert, StartDelete
    <2>2. tx[t].pc = "idle"
        BY <1>4 DEF StartInsert, StartDelete
    <2> QED
        BY <1>3, <2>1, <2>2
<1>5. CASE StartUpdate(t)
    BY <1>3, <1>5 DEF StartUpdate
<1>6. CASE StartDeleteJar(t)
    BY <1>3, <1>6 DEF StartDeleteJar
<1> QED
    BY <1>2, <1>4, <1>5, <1>6

\* A transaction that ends without effect keeps no count.
LEMMA EndsUncounted ==
    ASSUME IInv, NEW t \in Txs, NEW how \in Ended, End(t, how),
           how = "ok" => tx[t].op = "delete" /\ tx[t].scroll \notin here,
           tx[t].pc # "ok"
    PROVE  MovesOne(t)
<1> DEFINE q == [NewTx EXCEPT !.pc = how, !.op = tx[t].op,
                              !.scroll = tx[t].scroll, !.seen = tx[t].seen]
<1>1. /\ q.pc = how /\ q.op = tx[t].op /\ q.scroll = tx[t].scroll
      /\ ~q.killed
    BY DEF NewTx
<1>2. Counted(q)
    BY <1>1, NotCounted DEF Ended
<1>3. tx' = [tx EXCEPT ![t] = q]
    BY DEF End
<1> HIDE DEF q
<1> QED
    BY <1>1, <1>2, <1>3, MovesTo

\* The steps between the start and the commit.
LEMMA StepsCounted ==
    ASSUME IInv, NEW t \in Txs, Progress(t) \/ Cancel(t), ~Commit(t)
    PROVE  MovesOne(t)
<1>1. /\ tx[t] \in TxRecords /\ Shape(tx[t]) /\ Knows(tx[t])
    BY Known
<1>2. ASSUME NEW q \in TxRecords, tx' = [tx EXCEPT ![t] = q],
             tx[t].pc \notin Ended, q.pc \notin Ended,
             Counted(tx[t]) => Counted(q)
      PROVE  MovesOne(t)
    BY <1>2, MovesTo DEF Ended
<1>3. CASE LockForUpdate(t)
    <2>1. tx[t].pc = "row" /\ tx[t].op = "update"
        BY <1>3 DEF LockForUpdate
    <2>2. CASE End(t, "conflict")
        BY <2>1, <2>2, EndsUncounted DEF Ended
    <2>3. CASE ~End(t, "conflict")
        <3> DEFINE q == [tx[t] EXCEPT !.pc = "ping", !.rows = {tx[t].scroll}]
        <3>1. tx' = [tx EXCEPT ![t] = q]
            BY <1>3, <2>3 DEF LockForUpdate
        <3>2. q.pc = "ping" /\ q.op = "update"
            BY <1>1, <2>1 DEF TxRecords
        <3>3. Counted(q)
            BY <3>2 DEF Counted
        <3> HIDE DEF q
        <3> QED
            BY <2>1, <3>1, <3>2, <3>3, MovesTo
    <2> QED
        BY <2>2, <2>3
<1>4. CASE LockForDelete(t)
    <2>1. tx[t].pc = "row" /\ tx[t].op = "delete"
        BY <1>4 DEF LockForDelete
    <2>2. CASE tx[t].scroll \notin here
        <3>1. End(t, "ok")
            BY <1>4, <2>2 DEF LockForDelete
        <3> QED
            BY <2>1, <2>2, <3>1, EndsUncounted DEF Ended
    <2>3. CASE tx[t].scroll \in here
        <3> DEFINE q == [tx[t] EXCEPT !.pc = "count", !.rows = {tx[t].scroll},
                                      !.gone = {tx[t].scroll}]
        <3>1. tx' = [tx EXCEPT ![t] = q]
            BY <1>4, <2>3 DEF LockForDelete
        <3>2. q.pc = "count" /\ q.killed = tx[t].killed /\ ~tx[t].killed
            BY <1>1, <2>1 DEF TxRecords, Shape
        <3>3. Counted(q)
            BY <3>2, NotCounted
        <3> HIDE DEF q
        <3> QED
            BY <2>1, <3>1, <3>2, <3>3, MovesTo
    <2> QED
        BY <2>2, <2>3
<1>5. CASE CheckForeignKey(t)
    <2>1. tx[t].pc = "fk" /\ tx[t].op = "insert"
        BY <1>1, <1>5 DEF CheckForeignKey, Shape
    <2>2. CASE ~jar.live
        BY <1>5, <2>1, <2>2, EndsUncounted DEF CheckForeignKey, Ended
    <2>3. CASE jar.live
        <3> DEFINE q == [tx[t] EXCEPT !.pc = "ping", !.jarLock = "share"]
        <3>1. tx' = [tx EXCEPT ![t] = q]
            BY <1>5, <2>3 DEF CheckForeignKey
        <3>2. q.pc = "ping" /\ q.op = "insert"
            BY <1>1, <2>1 DEF TxRecords
        <3>3. Counted(q)
            BY <3>2 DEF Counted
        <3> HIDE DEF q
        <3> QED
            BY <2>1, <3>1, <3>2, <3>3, MovesTo
    <2> QED
        BY <2>2, <2>3
<1>6. CASE CountRest(t)
    <2>1. /\ tx[t].pc = "count" /\ tx[t].op = "delete" /\ ~tx[t].killed
          /\ tx[t].scroll \in tx[t].gone /\ tx[t].gone \subseteq {tx[t].scroll}
        BY <1>1, <1>6 DEF CountRest, Shape
    <2>2. Remaining(t) = here \ {tx[t].scroll}
        BY <2>1 DEF Remaining
    <2> DEFINE pc == IF Remaining(t) = {} THEN "kill" ELSE "ping"
               q == [tx[t] EXCEPT !.pc = pc]
    <2>3. tx' = [tx EXCEPT ![t] = q]
        BY <1>6 DEF CountRest, Goto
    <2>4. /\ q.pc = pc /\ q.op = "delete" /\ q.scroll = tx[t].scroll
          /\ ~q.killed
        BY <1>1, <2>1 DEF TxRecords
    <2> HIDE DEF q
    <2>5. Counted(q)
        BY <2>2, <2>4 DEF Counted
    <2> QED
        BY <2>1, <2>3, <2>4, <2>5, MovesTo
<1>7. CASE KillJar(t)
    <2>1. tx[t].pc = "kill" /\ tx[t].op \in {"delete", "deleteJar"}
        BY <1>1, <1>7 DEF KillJar, Shape
    <2>2. PICK q \in {[tx[t] EXCEPT !.pc = "cascade", !.jarLock = "exclusive",
                                   !.killed = TRUE],
                     [tx[t] EXCEPT !.pc = "commit"]} :
              /\ tx' = [tx EXCEPT ![t] = q]
              /\ q.pc = "commit" => ~jar.live
        BY <1>1, <1>7 DEF KillJar, Goto, TxRecords
    <2>3. /\ q.pc \in {"cascade", "commit"} /\ q.op = tx[t].op
          /\ q.scroll = tx[t].scroll
        BY <1>1, <2>2 DEF TxRecords
    <2>4. Counted(tx[t]) => Counted(q)
        BY <2>1, <2>2, <2>3 DEF Counted
    <2> QED
        BY <2>1, <2>2, <2>3, <2>4, MovesTo
<1>8. ASSUME NEW s \in Scrolls, CascadeRow(t, s)  PROVE MovesOne(t)
    <2> DEFINE q == [tx[t] EXCEPT !.rows = tx[t].rows \cup {s},
                                  !.gone = tx[t].gone \cup {s}]
    <2>1. tx' = [tx EXCEPT ![t] = q] /\ tx[t].pc = "cascade"
        BY <1>8 DEF CascadeRow
    <2>2. /\ q.pc = "cascade" /\ q.op = tx[t].op /\ q.scroll = tx[t].scroll
          /\ q.killed = tx[t].killed
        BY <1>1, <2>1 DEF TxRecords
    <2> HIDE DEF q
    <2>3. Counted(tx[t]) => Counted(q)
        BY <2>1, <2>2 DEF Counted
    <2> QED
        BY <2>1, <2>2, <2>3, MovesTo
<1>9. CASE CascadeDone(t)
    <2> DEFINE q == [tx[t] EXCEPT !.pc = "commit"]
    <2>1. tx' = [tx EXCEPT ![t] = q] /\ tx[t].pc = "cascade" /\ tx[t].killed
        BY <1>1, <1>9 DEF CascadeDone, Goto, Shape
    <2>2. /\ q.pc = "commit" /\ q.op = tx[t].op /\ q.scroll = tx[t].scroll
          /\ q.killed
        BY <1>1, <2>1 DEF TxRecords
    <2> HIDE DEF q
    <2>3. Counted(tx[t]) => Counted(q)
        BY <2>1, <2>2 DEF Counted
    <2> QED
        BY <2>1, <2>2, <2>3, MovesTo
<1>10. CASE Ping(t)
    <2>1. /\ tx[t].pc = "ping" /\ ~tx[t].killed
          /\ tx[t].op \in {"insert", "update", "delete"}
        BY <1>1, <1>10 DEF Ping, Shape
    <2>2. PICK q \in {[tx[t] EXCEPT !.pc = "commit", !.jarLock = "exclusive",
                                   !.pinged = TRUE],
                     [tx[t] EXCEPT !.pc = "commit"]} :
              tx' = [tx EXCEPT ![t] = q]
        BY <1>10 DEF Ping, Goto
    <2>3. /\ q.pc = "commit" /\ q.op = tx[t].op /\ q.scroll = tx[t].scroll
          /\ q.killed = tx[t].killed
        BY <1>1, <2>2 DEF TxRecords
    <2>4. Counted(tx[t]) => Counted(q)
        BY <2>1, <2>3 DEF Counted
    <2> QED
        BY <2>1, <2>2, <2>3, <2>4, MovesTo
<1>11. CASE DeadlockAbort(t) \/ Cancel(t)
    BY <1>11, WaitingIsActive, EndsUncounted
    DEF DeadlockAbort, Cancel, Active, Ended
<1> QED
    BY <1>3, <1>4, <1>5, <1>6, <1>7, <1>8, <1>9, <1>10, <1>11 DEF Progress

\* A commit of another statement, when counts are alone, changes nothing that
\* was counted; and the jar has a scroll afterwards or is gone.
LEMMA CommitCounted ==
    ASSUME IInv, LastOne, CountsAlone, NEW t \in Txs, Commit(t)
    PROVE  LastOne'
<1> DEFINE q == tx[t]
<1>1. /\ q \in TxRecords /\ Shape(q) /\ Knows(q) /\ q.pc = "commit"
      /\ jar'.live = (jar.live /\ ~q.killed)
      /\ here' = (here \cup Written(t)) \ q.gone
      /\ Active(t)
    BY Committed DEF Active, Ended
<1>2. /\ \A u \in Txs \ {t} : tx'[u] = tx[u]
      /\ tx'[t].pc = "ok" /\ ~tx'[t].killed
    BY DEF IInv, TypeOK, Commit, End, NewTx
<1>3. /\ jar.live <=> here # {}
      /\ \A u \in Txs : Counted(tx[u])
      /\ jar.live \in BOOLEAN
    BY DEF LastOne, IInv, TypeOK
<1>4. ASSUME NEW u \in Txs \ {t}, tx[u].op = "delete",
             ~Active(u)
      PROVE  Counted(tx[u])'
    <2>1. tx[u].pc \in Ended \cup {"idle", "ready"} /\ Shape(tx[u])
        BY <1>4, Known DEF Active
    <2> QED
        BY <1>2, <2>1 DEF Counted, Shape, Ended
<1>5. ASSUME NEW u \in Txs \ {t}, q.op \in {"insert", "delete"}
      PROVE  Counted(tx[u])'
    <2>1. CASE tx[u].op = "delete"
        BY <1>1, <1>4, <1>5, <2>1 DEF CountsAlone
    <2>2. CASE tx[u].op # "delete"
        BY <1>1, <1>2, <1>3, <2>2 DEF Counted
    <2> QED
        BY <2>1, <2>2
<1>6. Counted(tx[t])'
    BY <1>2, NotCounted DEF Counted
<1>7. CASE q.killed
    <2>1. here' = {} /\ ~jar'.live
        BY <1>1, <1>7 DEF Knows, Shape, Written
    <2>2. ASSUME NEW u \in Txs \ {t}  PROVE Counted(tx[u])'
        BY <1>2, <2>1 DEF Counted
    <2> QED
        BY <1>6, <2>1, <2>2 DEF LastOne
<1>8. CASE q.op = "insert" /\ ~q.killed
    <2>1. jar.live /\ q.gone = {} /\ q.scroll \in here'
        BY <1>1, <1>8 DEF Knows, Shape, Written
    <2> QED
        BY <1>1, <1>5, <1>6, <1>8, <2>1 DEF LastOne
<1>9. CASE q.op = "update" /\ ~q.killed
    <2>1. here' = here /\ jar'.live = jar.live
        BY <1>1, <1>3, <1>9 DEF Knows, Shape, Written
    <2>2. ASSUME NEW u \in Txs \ {t}  PROVE Counted(tx[u])'
        BY <1>2, <1>3, <2>1 DEF Counted
    <2> QED
        BY <1>3, <1>6, <2>1, <2>2 DEF LastOne
<1>10. CASE q.op = "delete" /\ ~q.killed
    <2>1. here' = here \ {q.scroll} /\ jar'.live = jar.live
        BY <1>1, <1>3, <1>10 DEF Shape, Written
    <2>2. jar.live => here \ {q.scroll} # {}
        BY <1>1, <1>3, <1>10 DEF Counted
    <2> QED
        BY <1>3, <1>5, <1>6, <1>10, <2>1, <2>2 DEF LastOne
<1>11. CASE q.op \notin {"insert", "update", "delete"} /\ ~q.killed
    <2>1. Written(t) = {}
        BY <1>11 DEF Written
    <2>2. here' = here /\ jar'.live = jar.live
        <3>1. q.gone \subseteq {q.scroll}
            BY <1>1, <1>11 DEF Shape
        <3> QED
            BY <1>1, <1>3, <1>11, <2>1, <3>1 DEF Counted
    <2>3. ASSUME NEW u \in Txs \ {t}  PROVE Counted(tx[u])'
        BY <1>2, <1>3, <2>2 DEF Counted
    <2> QED
        BY <1>3, <1>6, <2>2, <2>3 DEF LastOne
<1> QED
    BY <1>7, <1>8, <1>9, <1>10, <1>11

\* Every other step moves one transaction, or nothing.
LEMMA OneMoves ==
    ASSUME IInv, [Next]_vars, \A t \in Txs : ~Commit(t)
    PROVE  UNCHANGED vars \/ \E t \in Txs : MovesOne(t)
BY StartsUncounted, StepsCounted DEF Next

\* The jar keeps a scroll as long as counts are alone.
LEMMA LastOneStep ==
    IInv /\ LastOne /\ CountsAlone /\ [Next]_vars => LastOne'
<1> SUFFICES ASSUME IInv, LastOne, CountsAlone, [Next]_vars  PROVE LastOne'
    OBVIOUS
<1>1. ASSUME NEW t \in Txs, Commit(t)  PROVE LastOne'
    BY <1>1, CommitCounted
<1>2. CASE \A t \in Txs : ~Commit(t)
    <2>1. UNCHANGED <<jar, here>>
        BY <1>2, OtherSteps
    <2>2. CASE UNCHANGED vars
        BY <2>2 DEF vars, LastOne, Counted
    <2>3. ASSUME NEW t \in Txs, MovesOne(t)  PROVE LastOne'
        <3>1. ASSUME NEW u \in Txs  PROVE Counted(tx'[u])
            BY <2>3 DEF MovesOne, LastOne
        <3>2. ASSUME NEW u \in Txs  PROVE Counted(tx[u])'
            BY <2>1, <3>1 DEF Counted
        <3> QED
            BY <2>1, <3>2 DEF LastOne
    <2> QED
        BY <1>2, <2>2, <2>3, OneMoves
<1> QED
    BY <1>1, <1>2

\* The trigger delete_empty_scrolljar does what it is for as long as no
\* deletion of a scroll overlaps an insert or another deletion: a jar that
\* starts with a scroll is there exactly as long as it has one, also while the
\* jar itself is deleted and scrolls are updated at any time.
THEOREM JarWhileScrolls ==
    ASSUME Initial # {}
    PROVE  Spec /\ []CountsAlone => [](jar.live <=> here # {})
<1>1. Init => LastOne
    BY DEF Init, LastOne, Counted, NewTx
<1>2. LastOne => (jar.live <=> here # {})
    BY DEF LastOne
<1> QED
    BY <1>1, <1>2, LastOneStep, LocksHold, PTL DEF Spec

\* A commit makes the rows what the answers tell, if it is no deletion of the
\* jar; a deletion takes its own scroll and no other.
LEMMA CommitAnswered ==
    ASSUME IInv, LastOne, AsAnswered, "deleteJar" \notin Ops,
           NEW t \in Txs, Commit(t)
    PROVE  AsAnswered'
<1> DEFINE q == tx[t]
           in == Applied("insert")
           out == Applied("delete")
<1>1. /\ q \in TxRecords /\ Shape(q) /\ Knows(q) /\ q.pc = "commit"
      /\ here' = (here \cup Written(t)) \ q.gone
      /\ q.op = "insert" => in' = in \cup {q.scroll}
      /\ q.op # "insert" => in' = in
      /\ jar.live <=> here # {}
      /\ Counted(q)
    BY Committed DEF LastOne
<1>2. /\ tx'[t].pc = "ok" /\ tx'[t].op = q.op /\ tx'[t].scroll = q.scroll
      /\ \A u \in Txs \ {t} : tx'[u] = tx[u]
    BY DEF IInv, TypeOK, Commit, End, NewTx
<1>3. /\ q.op = "delete" => out' = out \cup {q.scroll}
      /\ q.op # "delete" => out' = out
    BY <1>1, <1>2 DEF Applied
<1>4. q.op = "insert" => q.scroll \notin out
    <2>1. ASSUME NEW u \in Txs \ {t}, q.op = "insert"
          PROVE  tx[u].scroll # q.scroll
        BY <1>1, <2>1, Known DEF Apart
    <2> QED
        BY <1>1, <2>1 DEF Applied
<1>5. here = (Initial \cup in) \ out
    BY DEF AsAnswered
<1> HIDE DEF in, out
<1>6. CASE q.op = "insert"
    <2>1. here' = here \cup {q.scroll}
        BY <1>1, <1>6 DEF Shape, Written
    <2>2. here' = (Initial \cup in') \ out'
        BY <1>1, <1>3, <1>4, <1>5, <1>6, <2>1
    <2> QED
        BY <2>2 DEF AsAnswered, in, out
<1>7. CASE q.op = "update"
    <2>1. here' = here
        BY <1>1, <1>7 DEF Shape, Knows, Written
    <2>2. here' = (Initial \cup in') \ out'
        BY <1>1, <1>3, <1>5, <1>7, <2>1
    <2> QED
        BY <2>2 DEF AsAnswered, in, out
<1>8. CASE q.op = "delete"
    <2>1. here' = here \ {q.scroll}
        BY <1>1, <1>8 DEF Shape, Knows, Counted, Written
    <2>2. here' = (Initial \cup in') \ out'
        BY <1>1, <1>3, <1>5, <1>8, <2>1
    <2> QED
        BY <2>2 DEF AsAnswered, in, out
<1>9. CASE q.op \notin {"insert", "update", "delete"}
    <2>1. Written(t) = {} /\ ~q.killed
        BY <1>1, <1>9 DEF Shape, Written, TxRecords
    <2>2. here' = here
        BY <1>1, <1>9, <2>1 DEF Counted
    <2>3. here' = (Initial \cup in') \ out'
        BY <1>1, <1>3, <1>5, <1>9, <2>2
    <2> QED
        BY <2>3 DEF AsAnswered, in, out
<1> QED
    BY <1>6, <1>7, <1>8, <1>9

\* Every other step leaves the rows alone, and a deletion that ends well
\* without a commit has found its row gone.
LEMMA AnsweredStep ==
    ASSUME "deleteJar" \notin Ops
    PROVE  IInv /\ LastOne /\ AsAnswered /\ [Next]_vars => AsAnswered'
<1> SUFFICES ASSUME IInv, LastOne, AsAnswered, [Next]_vars
             PROVE  AsAnswered'
    OBVIOUS
<1>1. ASSUME NEW t \in Txs, Commit(t)  PROVE AsAnswered'
    BY <1>1, CommitAnswered
<1>2. CASE \A t \in Txs : ~Commit(t)
    <2>1. here' = here /\ Applied("insert")' = Applied("insert")
        BY <1>2, OtherSteps
    <2>2. CASE UNCHANGED vars
        BY <2>2 DEF vars, AsAnswered, Applied
    <2>3. ASSUME NEW t \in Txs, MovesOne(t)  PROVE AsAnswered'
        <3>1. \/ Applied("delete")' = Applied("delete")
              \/ /\ tx'[t].scroll \notin here
                 /\ Applied("delete")' = Applied("delete") \cup {tx'[t].scroll}
            BY <2>3 DEF MovesOne, Applied
        <3> QED
            BY <2>1, <3>1 DEF AsAnswered
    <2> QED
        BY <1>2, <2>2, <2>3, OneMoves
<1> QED
    BY <1>1, <1>2

\* Without a deletion of the jar, the answers tell when it is gone: if no
\* deletion of a scroll overlaps an insert or another deletion, the jar goes
\* with the last scroll that was acknowledged.  The overlap is the only way to
\* a jar that stays empty or to an acknowledged scroll that goes with its jar.
THEOREM JarGoesUnlessOverlapping ==
    ASSUME Initial # {}, "deleteJar" \notin Ops
    PROVE  Spec /\ []CountsAlone => []JarGoesWithLastScroll
<1>1. Init => LastOne /\ AsAnswered
    BY DEF Init, LastOne, Counted, NewTx, AsAnswered, Applied
<1>2. LastOne /\ AsAnswered => JarGoesWithLastScroll
    BY DEF LastOne, AsAnswered, JarGoesWithLastScroll
<1>3. IInv /\ LastOne /\ AsAnswered /\ [Next]_vars => AsAnswered'
    BY AnsweredStep
<1> QED
    BY <1>1, <1>2, <1>3, LastOneStep, LocksHold, PTL DEF Spec

-----------------------------------------------------------------------------
(* What a client sees of the rows *)

\* A step never brings back a row or the jar, puts no row into a jar that is
\* gone, and gives no row that stays an older version.
RowsGoForward ==
    [][/\ ~jar.live => ~jar'.live /\ here' \subseteq here
       /\ \A s \in Scrolls :
             /\ s \in (Initial \cup Applied("insert")) \ here => s \notin here'
             /\ s \in here \cap here' => stamp'[s] >= stamp[s]]_vars

\* It holds because every step is a step of JarTable.
THEOREM RowsForward == Spec => RowsGoForward
<1> DEFINE Forward(s) ==
              /\ s \in (Initial \cup Applied("insert")) \ here => s \notin here'
              /\ s \in here \cap here' => stamp'[s] >= stamp[s]
           All == /\ ~jar.live => ~jar'.live /\ here' \subseteq here
                  /\ \A s \in Scrolls : Forward(s)
<1>1. Init => Born
    BY DEF Init, Born
<1>2. IInv /\ Born /\ [Next]_vars => All
    <2> SUFFICES ASSUME IInv, Born, [Next]_vars  PROVE All
        OBVIOUS
    <2>1. /\ stamp \in [Scrolls -> Nat] /\ here \subseteq Scrolls
          /\ here' \subseteq Scrolls /\ stamp' \in [Scrolls -> Nat]
        BY NextStep DEF IInv, TypeOK
    <2>2. \A s \in Scrolls : /\ s \in here <=> Stages[s] = "there"
                             /\ s \in here' <=> Stages'[s] = "there"
                             /\ s \in (Initial \cup Applied("insert")) \ here
                                  => Stages[s] = "gone"
        BY DEF Stages, Stage
    <2>3. /\ Stages = [s \in Scrolls |-> Stage(s)]
          /\ Stages' = [s \in Scrolls |-> Stage(s)']
          /\ DOMAIN Stages = Scrolls
        BY DEF Stages
    <2>4. ASSUME NEW s \in Scrolls, Table!Insert(s) \/ Table!Update(s)
          PROVE  All
        <3>1. /\ jar'.live = jar.live
              /\ Stages' = [Stages EXCEPT ![s] = "there"]
              /\ \A x \in Scrolls \ {s} : stamp'[x] = stamp[x]
              /\ \/ jar.live /\ Stages[s] = "free"
                 \/ Stages[s] = "there" /\ stamp'[s] > stamp[s]
            BY <2>3, <2>4 DEF Table!Insert, Table!Update, Table!Write
        <3>2. /\ Stages'[s] = "there"
              /\ \A x \in Scrolls \ {s} : Stages'[x] = Stages[x]
            BY <2>3, <3>1
        <3>3. ~jar.live => here' \subseteq here
            BY <2>1, <2>2, <3>1, <3>2
        <3>4. ASSUME NEW x \in Scrolls  PROVE Forward(x)
            BY <2>1, <2>2, <3>1, <3>2
        <3> QED
            BY <3>1, <3>3, <3>4
    <2>5. ASSUME NEW s \in Scrolls, Table!Delete(s)
          PROVE  All
        <3>1. /\ jar'.live = jar.live /\ stamp' = stamp
              /\ Stages' = [Stages EXCEPT ![s] = "gone"]
            BY <2>3, <2>5 DEF Table!Delete
        <3>2. /\ Stages'[s] = "gone"
              /\ \A x \in Scrolls \ {s} : Stages'[x] = Stages[x]
            BY <2>3, <3>1
        <3>3. here' \subseteq here
            BY <2>1, <2>2, <3>2
        <3>4. ASSUME NEW x \in Scrolls  PROVE Forward(x)
            BY <2>1, <2>2, <3>1, <3>3
        <3> QED
            BY <3>1, <3>3, <3>4
    <2>6. CASE Table!DeleteJar
        <3>1. /\ jar'.live = FALSE /\ stamp' = stamp
              /\ \A x \in Scrolls : Stages'[x] # "there"
            BY <2>3, <2>6 DEF Table!DeleteJar
        <3>2. here' = {}
            BY <2>1, <2>2, <3>1
        <3> QED
            BY <3>1, <3>2
    <2>7. CASE UNCHANGED Table!tableVars
        <3>1. jar'.live = jar.live /\ stamp' = stamp /\ Stages' = Stages
            BY <2>3, <2>7 DEF Table!tableVars
        <3>2. here' = here
            BY <2>1, <2>2, <3>1
        <3>3. ASSUME NEW x \in Scrolls  PROVE Forward(x)
            BY <2>1, <3>1, <3>2
        <3> QED
            BY <3>1, <3>2, <3>3
    <2> QED
        BY <2>4, <2>5, <2>6, <2>7, TableStep DEF Table!TableNext
<1>3. Spec => []Born
    BY <1>1, BornStep, LocksHold, PTL DEF Spec
<1> QED
    BY <1>2, <1>3, LocksHold, PTL DEF Spec, RowsGoForward

-----------------------------------------------------------------------------
(* Nobody waits for good unnoticed *)

\* A transaction waits for others, and each of them is in its statement.
LEMMA BlockersAct ==
    ASSUME IInv, NEW t \in Txs, NEW u \in Blockers(t)
    PROVE  u \in Txs \ {t} /\ Active(u)
<1>1. u \in Txs \ {t} /\ (tx[u].rows # {} \/ tx[u].jarLock # "none")
    BY DEF Blockers, RowHolders, JarHolders, JarExclusive
<1>2. tx[u].pc \in {"count", "kill", "cascade", "ping", "commit"}
    BY <1>1, Known DEF Shape
<1> QED
    BY <1>1, <1>2 DEF Active, Ended

\* As long as statements run, one of them has nothing to wait for, or one is in
\* a circle that the deadlock detector finds.
SomeoneMoves ==
    (\E t \in Txs : Active(t)) =>
        \E t \in Txs : Active(t) /\ (Blockers(t) = {} \/ Deadlocked(t))

\* The safety core of StatementsEnd, for any number of transactions: the locks
\* are held by statements that run, so that whoever follows the waiting comes
\* to one that can go on or around a circle.
THEOREM NobodyStuck == Spec => []SomeoneMoves
<1>1. IInv => SomeoneMoves
    <2> SUFFICES ASSUME IInv, \E t \in Txs : Active(t),
                        \A t \in Txs : Active(t) => Blockers(t) # {}
                 PROVE  \E t \in Txs : Active(t) /\ Deadlocked(t)
        BY DEF SomeoneMoves
    <2> DEFINE W == {t \in Txs : Active(t)}
               b == [t \in W |-> Blockers(t)]
    <2>1. b \in [W -> SUBSET W] /\ \A t \in W : b[t] # {} /\ t \notin b[t]
        BY BlockersAct
    <2>2. PICK n \in 2..Cardinality(Txs) : \E c \in [1..n -> W] :
              \A i \in 1..n : c[(i % n) + 1] \in b[c[i]]
        <3>1. W \in SUBSET Txs /\ W # {}
            OBVIOUS
        <3> HIDE DEF W, b
        <3> QED
            BY <2>1, <3>1, TxsAssumption, SomeWaitInACircle
    <2>3. PICK c \in [1..n -> W] : \A i \in 1..n : c[(i % n) + 1] \in b[c[i]]
        BY <2>2
    <2>4. c \in [1..n -> Txs] /\ c[1] \in W
        BY <2>2
    <2>5. Deadlocked(c[1])
        BY <2>2, <2>3, <2>4 DEF Deadlocked
    <2> QED
        BY <2>4, <2>5
<1> QED
    BY <1>1, LocksHold, PTL
=============================================================================
