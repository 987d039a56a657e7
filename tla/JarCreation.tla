---------------------------- MODULE JarCreation ----------------------------
(***************************************************************************)
(* How rows come into the tables: CreateJar, which inserts a jar and its   *)
(* scrolls in one transaction, and CreateScroll, a single statement.  Ids  *)
(* are drawn at random, so two requests, or one request twice, may draw    *)
(* the same; the retry loops of store.go meet the unique indexes of        *)
(* PostgreSQL, where an insert waits for another one of the same key.      *)
(* Behind the index the foreign key and ping_parent lock the row of the    *)
(* jar, where two CreateScrolls can lock each other out.  Transactions     *)
(* that delete or update rows lock there as well: they are JarTx's.        *)
(*                                                                         *)
(* The loops are written for a statement of its own.  Within a transaction *)
(* the collision has aborted the transaction, and the next statement,      *)
(* which the loop then tries, is refused with another error (25P02).       *)
(***************************************************************************)
EXTENDS Naturals, FiniteSets

CONSTANTS
    Requests,
    JarIds, ScrollIds,
    FirstJar,           \* a jar that is there from the start
    Durations,          \* expiry periods that clients ask for
    MinLife, Year,      \* five minutes and DurYear
    MaxScrolls,         \* bound: scrolls in one CreateJar (254)
    Delays,             \* from time.Now() of the handler to NOW() of the
                        \* transaction
    None

\* The circles of Deadlocked are of finitely many.
ASSUME RequestsAssumption == IsFiniteSet(Requests)
ASSUME IdAssumption == FirstJar \in JarIds /\ JarIds \cap ScrollIds = {}
ASSUME NumberAssumption ==
    /\ Durations \subseteq Nat /\ Delays \subseteq Nat
    /\ MinLife \in Nat /\ Year \in Nat /\ MaxScrolls \in Nat
ASSUME NoneAssumption == None \notin JarIds \cup ScrollIds \cup Requests \cup Nat

VARIABLES
    jars,       \* committed scrolljar rows: who made them, of how many scrolls
                \* (history) and their life, expires_at - created_at; None for
                \* an id that is free
    scrolls,    \* committed scroll rows: who made them and their jar
    request

vars == <<jars, scrolls, request>>

Ended == {"created", "refused", "failed"}
Kinds == {"jar", "scroll"}
Lives == Nat \cup {None}

\* want: scrolls to insert; jar, got: ids that this transaction has inserted;
\* drawn: the id that it waits for; broken: the transaction is aborted.
RequestRecords ==
    [pc : {"idle", "draw", "wait", "ping", "commit"} \cup Ended,
     kind : Kinds, anonymous : BOOLEAN, life : Lives, want : Nat,
     jar : JarIds \cup {None}, got : SUBSET ScrollIds,
     drawn : JarIds \cup ScrollIds \cup {None}, broken : BOOLEAN]
NewRequest ==
    [pc |-> "idle", kind |-> "jar", anonymous |-> FALSE, life |-> None,
     want |-> 0, jar |-> None, got |-> {}, drawn |-> None, broken |-> FALSE]

JarRows == [by : Requests \cup {None}, anonymous : BOOLEAN, life : Lives,
            size : Nat]
ScrollRows == [by : Requests, jar : JarIds]

ASSUME RowAssumption == None \notin JarRows \cup ScrollRows

TypeOK ==
    /\ jars \in [JarIds -> JarRows \cup {None}]
    /\ scrolls \in [ScrollIds -> ScrollRows \cup {None}]
    /\ request \in [Requests -> RequestRecords]
    /\ \A r \in Requests : Cardinality(request[r].got) <= request[r].want

Init ==
    /\ jars = [j \in JarIds |->
                 IF j = FirstJar
                 THEN [by |-> None, anonymous |-> FALSE, life |-> None,
                       size |-> 0]
                 ELSE None]
    /\ scrolls = [s \in ScrollIds |-> None]
    /\ request = [r \in Requests |-> NewRequest]

-----------------------------------------------------------------------------
(* The input *)

\* CreateJarInput.Validate; the parameter that it calls unlimitedExpiry is
\* whether there is an account.
Valid(anonymous, duration) ==
    /\ duration # None => duration > MinLife
    /\ anonymous /\ duration # None => duration < Year

\* FAULT: a jar without an account may live for ever.
LifeUnlimited(anonymous, duration, delay) ==
    IF duration = None THEN None
    ELSE IF duration >= delay THEN duration - delay ELSE 0

\* jarExpiryFromInput, seen from the transaction that starts delay later; a
\* time of expiry that is over by then has no life left.
Life(anonymous, duration, delay) ==
    LET span == IF duration = None THEN Year ELSE duration
    IN  IF ~anonymous /\ duration = None THEN None
        ELSE IF span >= delay THEN span - delay ELSE 0

\* createJar up to pool.Begin.
StartJar(r, anonymous, duration, want, delay) ==
    /\ request[r].pc = "idle"
    /\ request' = [request EXCEPT ![r] =
         IF Valid(anonymous, duration)
         THEN [NewRequest EXCEPT
                 !.pc = "draw", !.anonymous = anonymous, !.want = want,
                 !.life = Life(anonymous, duration, delay)]
         ELSE [NewRequest EXCEPT !.pc = "refused"]]
    /\ UNCHANGED <<jars, scrolls>>

\* createScroll, for a jar that is there: a transaction of one statement.
StartScroll(r, j) ==
    /\ request[r].pc = "idle" /\ jars[j] # None
    /\ request' = [request EXCEPT ![r] =
         [NewRequest EXCEPT !.pc = "draw", !.kind = "scroll", !.want = 1,
                            !.jar = j]]
    /\ UNCHANGED <<jars, scrolls>>

-----------------------------------------------------------------------------
(* The inserts *)

InTransaction(r) == request[r].kind = "jar"
Active(r) == request[r].pc \in {"draw", "wait", "ping", "commit"}
ForJar(r) == request[r].jar = None
\* The ids that r has inserted and not committed yet.
Pending(r) ==
    IF ~Active(r) \/ request[r].broken THEN {}
    ELSE request[r].got
         \cup IF InTransaction(r) THEN {request[r].jar} ELSE {}

\* gonanoid.Generate draws any id; a statement that waits keeps its id.
Tried(r) ==
    CASE request[r].pc = "draw" -> IF ForJar(r) THEN JarIds ELSE ScrollIds
      [] request[r].pc = "wait" -> {request[r].drawn}
      [] OTHER -> {}

\* FAULT: an insert does not wait for another transaction.
HoldersNone(r, id) == {}
\* The transactions that have inserted the id and may still give it up.
Holders(r, id) == {q \in Requests \ {r} : id \in Pending(q)}

Taken(r, id) ==
    \/ id \in JarIds /\ jars[id] # None
    \/ id \in ScrollIds /\ scrolls[id] # None
    \/ id \in request[r].got

\* The other CreateScrolls that have the row of r's jar FOR KEY SHARE.
Sharers(r) == {q \in Requests \ {r} : /\ request[q].pc = "ping"
                                      /\ request[q].jar = request[r].jar}

Blockers(r) ==
    CASE request[r].pc = "wait" -> Holders(r, request[r].drawn)
      [] request[r].pc = "ping" -> Sharers(r)
      [] OTHER -> {}

Deadlocked(r) ==
    \E n \in 2..Cardinality(Requests) : \E c \in [1..n -> Requests] :
        /\ c[1] = r
        /\ \A i \in 1..n : c[(i % n) + 1] \in Blockers(c[i])

Fail(r) == request' = [request EXCEPT ![r] =
              [NewRequest EXCEPT !.pc = "failed", !.kind = request[r].kind]]

\* FAULT: min_expiry_check is missing.
CheckedNot(r) == TRUE
\* The CHECK of the table, which comes before its index.
Checked(r) == ForJar(r) /\ request[r].life # None => request[r].life >= MinLife

\* FAULT: the loop takes every error for a collision.
InsertFailsAgain(r) ==
    /\ request[r].pc = "draw"
    /\ request[r].broken \/ ~Checked(r)
    /\ UNCHANGED vars

\* The transaction was aborted by an earlier collision, or the CHECK fails: the
\* error is not 23505, so the loop gives up and withTx rolls back.
InsertFails(r) ==
    /\ request[r].pc = "draw"
    /\ request[r].broken \/ ~Checked(r)
    /\ Fail(r)
    /\ UNCHANGED <<jars, scrolls>>

\* An insert that gets as far as the unique index.
AtIndex(r, id) == id \in Tried(r) /\ ~request[r].broken /\ Checked(r)
Passes(r, id) == AtIndex(r, id) /\ Holders(r, id) = {} /\ ~Taken(r, id)

Wait(r, id) ==
    /\ request[r].pc = "draw"
    /\ AtIndex(r, id) /\ Holders(r, id) # {}
    /\ request' = [request EXCEPT ![r] = [@ EXCEPT !.pc = "wait",
                                                   !.drawn = id]]
    /\ UNCHANGED <<jars, scrolls>>

\* 23505 on the primary key: draw again.
Collides(r, id) ==
    /\ AtIndex(r, id) /\ Holders(r, id) = {} /\ Taken(r, id)
    /\ request' = [request EXCEPT ![r] =
         [@ EXCEPT !.pc = "draw", !.drawn = None, !.broken = InTransaction(r)]]
    /\ UNCHANGED <<jars, scrolls>>

\* FAULT: the loop runs once more than there are scrolls.
AfterOneMore(r, got) ==
    IF Cardinality(got) > request[r].want THEN "commit" ELSE "draw"

\* The loop over the scrolls of the input ends when each has its row.
After(r, got) == IF Cardinality(got) = request[r].want THEN "commit" ELSE "draw"

Row(r) == [by |-> r, jar |-> request[r].jar]

InsertJar(r, id) ==
    /\ ForJar(r) /\ Passes(r, id)
    /\ request' = [request EXCEPT ![r] =
         [@ EXCEPT !.pc = After(r, {}), !.jar = id, !.drawn = None]]
    /\ UNCHANGED <<jars, scrolls>>

\* FAULT: the scrolls of a new jar are inserted outside of its transaction.
InsertScrollAlone(r, id) ==
    LET got == request[r].got \cup {id}
    IN  /\ ~ForJar(r) /\ InTransaction(r) /\ Passes(r, id)
        /\ scrolls' = [scrolls EXCEPT ![id] = Row(r)]
        /\ request' = [request EXCEPT ![r] =
             [@ EXCEPT !.pc = After(r, got), !.got = got, !.drawn = None]]
        /\ UNCHANGED jars

InsertScroll(r, id) ==
    LET got == request[r].got \cup {id}
    IN  /\ ~ForJar(r) /\ InTransaction(r) /\ Passes(r, id)
        /\ request' = [request EXCEPT ![r] =
             [@ EXCEPT !.pc = After(r, got), !.got = got, !.drawn = None]]
        /\ UNCHANGED <<jars, scrolls>>

-----------------------------------------------------------------------------
(* The ends *)

\* The INSERT of CreateScroll is past its index.  The check of the foreign key,
\* the first trigger to fire, takes the jar's row FOR KEY SHARE.
InsertRow(r, id) ==
    /\ ~InTransaction(r) /\ Passes(r, id)
    /\ request' = [request EXCEPT ![r] =
         [@ EXCEPT !.pc = "ping", !.got = {id}, !.drawn = None]]
    /\ UNCHANGED <<jars, scrolls>>

WithScrolls(r) == [s \in ScrollIds |-> IF s \in request[r].got THEN Row(r)
                                                              ELSE scrolls[s]]

\* ping_parent, the next trigger, locks the jar's row exclusively; nothing is
\* left to wait for then, and the statement commits.  Its answer may be lost.
PingAndCommit(r) ==
    /\ request[r].pc = "ping"
    /\ Sharers(r) = {}
    /\ scrolls' = WithScrolls(r)
    /\ Fail(r) \/ request' = [request EXCEPT ![r].pc = "created"]
    /\ UNCHANGED jars

\* tx.Commit: all rows at once.  Its answer may be lost as well.
Commit(r) ==
    /\ request[r].pc = "commit"
    /\ jars' = [jars EXCEPT ![request[r].jar] =
         [by |-> r, anonymous |-> request[r].anonymous,
          life |-> request[r].life, size |-> request[r].want]]
    /\ scrolls' = WithScrolls(r)
    /\ Fail(r) \/ request' = [request EXCEPT ![r].pc = "created"]

\* deadlock_timeout: one of the circle fails.
DeadlockFound(r) ==
    /\ Deadlocked(r)
    /\ Fail(r)
    /\ UNCHANGED <<jars, scrolls>>

\* The client goes away, and with it the context of the statements, or the
\* connection to the database breaks.
Cancel(r) ==
    /\ Active(r)
    /\ Fail(r)
    /\ UNCHANGED <<jars, scrolls>>

Insert(r, id) ==
    \/ Wait(r, id)
    \/ Collides(r, id)
    \/ InsertJar(r, id)
    \/ InsertScroll(r, id)
    \/ InsertRow(r, id)

Statement(r) ==
    \/ \E id \in JarIds \cup ScrollIds : Insert(r, id)
    \/ InsertFails(r)
    \/ PingAndCommit(r)
    \/ Commit(r)
    \/ DeadlockFound(r)

Next ==
    \E r \in Requests :
        \/ \E anonymous \in BOOLEAN, duration \in Durations \cup {None},
              want \in 0..MaxScrolls, delay \in Delays :
              StartJar(r, anonymous, duration, want, delay)
        \/ \E j \in JarIds : StartScroll(r, j)
        \/ Statement(r)
        \/ Cancel(r)

Spec == Init /\ [][Next]_vars

\* The server runs every statement on, its deadlock detector fires, and the
\* generator does not draw used ids for ever.
Fairness ==
    \A r \in Requests :
        /\ WF_vars(Statement(r))
        /\ SF_vars(\E id \in ScrollIds : InsertRow(r, id))

FairSpec == Spec /\ Fairness

-----------------------------------------------------------------------------
(* Properties *)

JarsOf(r) == {j \in JarIds : jars[j] # None /\ jars[j].by = r}
ScrollsOf(r) == {s \in ScrollIds : scrolls[s] # None /\ scrolls[s].by = r}

\* A CreateJar leaves nothing before its commit, whichever insert of it
\* collides, waits or fails; afterwards all its scrolls are there, in its jar,
\* also if the answer said that it failed.
CreatedWhole ==
    \A r \in Requests : InTransaction(r) =>
        /\ request[r].pc \notin Ended => JarsOf(r) = {}
        /\ JarsOf(r) = {} => ScrollsOf(r) = {}
        /\ \A j \in JarsOf(r) :
              /\ \A s \in ScrollsOf(r) : scrolls[s].jar = j
              /\ Cardinality(ScrollsOf(r)) = jars[j].size

\* What was answered 200 is there: the ids in the answer are rows of this
\* request and of no other, although ids are drawn without asking.
AnsweredIsThere ==
    \A r \in Requests : request[r].pc = "created" =>
        /\ ScrollsOf(r) = request[r].got
        /\ Cardinality(request[r].got) = request[r].want
        /\ \A s \in request[r].got : scrolls[s].jar = request[r].jar
        /\ InTransaction(r) => JarsOf(r) = {request[r].jar}

\* However late the transaction starts, a jar lives for five minutes at least,
\* and one that belongs to nobody for a year at most.
LifeInBounds ==
    \A j \in JarIds : jars[j] # None =>
        /\ jars[j].life # None => jars[j].life >= MinLife
        /\ jars[j].anonymous => jars[j].life # None /\ jars[j].life <= Year

\* Rows stay as they were made: no insert takes an id from another row.
RowsKept ==
    [][/\ \A j \in JarIds : jars[j] # None => jars'[j] = jars[j]
       /\ \A s \in ScrollIds : scrolls[s] # None => scrolls'[s] = scrolls[s]]_vars

\* No creation waits or draws for ever, given that the ids are not used up.
CreationsEnd == \A r \in Requests : Active(r) ~> ~Active(r)
=============================================================================
