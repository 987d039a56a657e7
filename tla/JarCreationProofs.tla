------------------------- MODULE JarCreationProofs -------------------------
(***************************************************************************)
(* The creation of rows, for any number of requests and ids: what a        *)
(* transaction has inserted nobody else gets, so that it is there as a     *)
(* whole after the commit, and no row takes the id of another.             *)
(***************************************************************************)
EXTENDS JarCreation, Circles, FiniteSetTheorems, TLAPS

-----------------------------------------------------------------------------
(* Waiting.  The assumptions on numbers and ids play no part in it. *)

\* A creation waits for others, and each of these is under way.
LEMMA BlockersAct ==
    ASSUME NEW r \in Requests, NEW q \in Blockers(r)
    PROVE  q \in Requests \ {r} /\ Active(q)
BY DEF Blockers, Holders, Pending, Sharers, Active

\* Who is in a circle is waited for by one that is waited for as well.
LEMMA BeforeInCircle ==
    ASSUME NEW r \in Requests, Deadlocked(r)
    PROVE  /\ Blockers(r) # {}
           /\ \E q, p \in Requests : r \in Blockers(q) /\ q \in Blockers(p)
<1>1. PICK n \in 2..Cardinality(Requests) : \E c \in [1..n -> Requests] :
          /\ c[1] = r
          /\ \A i \in 1..n : c[(i % n) + 1] \in Blockers(c[i])
    BY DEF Deadlocked
<1>2. PICK c \in [1..n -> Requests] :
          /\ c[1] = r
          /\ \A i \in 1..n : c[(i % n) + 1] \in Blockers(c[i])
    BY <1>1
<1>3. n \in Nat /\ n >= 2 /\ 1 \in 1..n /\ n \in 1..n /\ n - 1 \in 1..n
    BY <1>1, RequestsAssumption, FS_CardinalityType
<1>4. (1 % n) + 1 = 2 /\ (n % n) + 1 = 1 /\ ((n - 1) % n) + 1 = n
    <2> DEFINE next(i) == (i % n) + 1
    <2>1. \A i \in 1..n : next(i) = IF i = n THEN 1 ELSE i + 1
        BY <1>3, AroundTheCircle
    <2> HIDE DEF next
    <2>2. next(1) = 2 /\ next(n) = 1 /\ next(n - 1) = n
        BY <1>3, <2>1
    <2> QED
        BY <2>2 DEF next
<1>5. c[2] \in Blockers(r) /\ r \in Blockers(c[n]) /\ c[n] \in Blockers(c[n - 1])
    BY <1>2, <1>3, <1>4
<1> QED
    BY <1>2, <1>3, <1>5

\* The ids are held by creations that are under way, and these are finitely
\* many: one of them has nothing to wait for, or there is a circle.
LEMMA FreeOrInCircle ==
    ASSUME \E r \in Requests : Active(r)
    PROVE  \E r \in Requests : Active(r) /\ (Blockers(r) = {} \/ Deadlocked(r))
<1> SUFFICES ASSUME \A r \in Requests : Active(r) => Blockers(r) # {}
             PROVE  \E r \in Requests : Active(r) /\ Deadlocked(r)
    OBVIOUS
<1> DEFINE W == {r \in Requests : Active(r)}
           b == [r \in W |-> Blockers(r)]
<1>1. b \in [W -> SUBSET W] /\ \A r \in W : b[r] # {} /\ r \notin b[r]
    BY BlockersAct
<1>2. PICK n \in 2..Cardinality(Requests) : \E c \in [1..n -> W] :
          \A i \in 1..n : c[(i % n) + 1] \in b[c[i]]
    <2>1. W \in SUBSET Requests /\ W # {}
        OBVIOUS
    <2>2. IsFiniteSet(Requests)
        BY RequestsAssumption
    <2> HIDE DEF W, b
    <2> QED
        BY <1>1, <2>1, <2>2, SomeWaitInACircle
<1>3. PICK c \in [1..n -> W] : \A i \in 1..n : c[(i % n) + 1] \in b[c[i]]
    BY <1>2
<1>4. c \in [1..n -> Requests] /\ c[1] \in W
    BY <1>2
<1>5. Deadlocked(c[1])
    BY <1>2, <1>3, <1>4 DEF Deadlocked
<1> QED
    BY <1>4, <1>5

USE IdAssumption, NumberAssumption, NoneAssumption, RowAssumption

-----------------------------------------------------------------------------
(* The inductive invariant.  q is the record of a request. *)

Trying == {"draw", "wait"}

\* What a request has so far, and how its jar will live.
Shape(q) ==
    /\ IsFiniteSet(q.got)
    /\ q.kind = "scroll" /\ q.pc \in Trying =>
          q.jar \in JarIds /\ q.want = 1 /\ q.got = {} /\ ~q.broken
    /\ q.pc = "ping" => /\ q.kind = "scroll" /\ ~q.broken /\ q.jar \in JarIds
                        /\ q.want = 1 /\ Cardinality(q.got) = 1
    /\ q.pc = "commit" => /\ q.kind = "jar" /\ ~q.broken /\ q.jar \in JarIds
                          /\ Cardinality(q.got) = q.want
    /\ q.pc = "wait" => /\ ~q.broken
                        /\ q.jar = None => q.drawn \in JarIds
                        /\ q.jar = None /\ q.life # None => q.life >= MinLife
                        /\ q.jar # None => q.drawn \in ScrollIds
    /\ q.pc \in Trying => /\ q.jar = None => q.got = {}
                          /\ q.jar # None => Cardinality(q.got) < q.want
    /\ q.pc \in Trying \cup {"commit"} /\ q.kind = "jar" =>
          /\ q.anonymous => q.life # None /\ q.life <= Year
          /\ q.jar # None /\ q.life # None => q.life >= MinLife

\* The ids that a transaction has inserted and not committed: Pending.
Held(q) ==
    CASE q.pc = "ping" -> q.got
      [] q.pc \in Trying \cup {"commit"} /\ q.kind = "jar" /\ ~q.broken ->
            {q.jar} \cup q.got
      [] OTHER -> {}

\* They are free for everybody else.
HeldFree(q) ==
    /\ \A j \in JarIds : j \in Held(q) => jars[j] = None
    /\ \A s \in ScrollIds : s \in Held(q) => scrolls[s] = None

Apart(p, q) == Held(p) \cap Held(q) \subseteq {None}

\* A request that has not come to its end has no rows.
NoRowsYet ==
    \A r \in Requests : request[r].pc \notin {"created", "failed"} =>
        JarsOf(r) = {} /\ ScrollsOf(r) = {}

IInv ==
    /\ TypeOK
    /\ NoRowsYet
    /\ CreatedWhole
    /\ AnsweredIsThere
    /\ LifeInBounds
    /\ \A r \in Requests : Shape(request[r]) /\ HeldFree(request[r])
    /\ \A r, q \in Requests : r # q => Apart(request[r], request[q])

-----------------------------------------------------------------------------
(* Steps *)

\* What the invariant says of a request and of its relation to another.
LEMMA Known ==
    ASSUME IInv, NEW r \in Requests
    PROVE  /\ request[r] \in RequestRecords
           /\ Cardinality(request[r].got) <= request[r].want
           /\ Shape(request[r]) /\ HeldFree(request[r])
           /\ \A p \in Requests \ {r} : Apart(request[r], request[p])
BY DEF IInv, TypeOK

\* A step that only changes the record of a request that has no rows.
LEMMA Moves ==
    ASSUME IInv, NEW r \in Requests, NEW q \in RequestRecords,
           request' = [request EXCEPT ![r] = q],
           UNCHANGED <<jars, scrolls>>,
           request[r].pc \notin {"created", "failed"}, q.pc # "created",
           Cardinality(q.got) <= q.want, Shape(q), HeldFree(q),
           \A p \in Requests \ {r} : Apart(q, request[p])
    PROVE  IInv'
<1>1. request \in [Requests -> RequestRecords]
    BY DEF IInv, TypeOK
<1>2. request'[r] = q /\ \A p \in Requests \ {r} : request'[p] = request[p]
    BY <1>1
<1>3. TypeOK'
    <2>1. \A p \in Requests : Cardinality(request'[p].got) <= request'[p].want
        BY <1>2, Known
    <2> QED
        BY <1>1, <2>1 DEF IInv, TypeOK
<1>4. \A p \in Requests : JarsOf(p)' = JarsOf(p) /\ ScrollsOf(p)' = ScrollsOf(p)
    BY DEF JarsOf, ScrollsOf
<1>5. JarsOf(r) = {} /\ ScrollsOf(r) = {}
    BY DEF IInv, NoRowsYet
<1>6. NoRowsYet'
    BY <1>2, <1>4, <1>5 DEF IInv, NoRowsYet
<1>7. CreatedWhole'
    <2>1. ASSUME NEW p \in Requests, InTransaction(p)'
          PROVE  /\ request'[p].pc \notin Ended => JarsOf(p)' = {}
                 /\ JarsOf(p)' = {} => ScrollsOf(p)' = {}
                 /\ \A j \in JarsOf(p)' :
                       /\ \A s \in ScrollsOf(p)' : scrolls'[s].jar = j
                       /\ Cardinality(ScrollsOf(p)') = jars'[j].size
        <3>1. CASE p = r
            BY <1>4, <1>5, <3>1
        <3>2. CASE p # r
            <4>1. InTransaction(p) /\ request'[p] = request[p]
                BY <1>2, <2>1, <3>2 DEF InTransaction
            <4> QED
                BY <1>4, <4>1 DEF IInv, CreatedWhole
        <3> QED
            BY <3>1, <3>2
    <2> QED
        BY <2>1 DEF CreatedWhole
<1>8. AnsweredIsThere'
    BY <1>2, <1>4 DEF IInv, AnsweredIsThere, InTransaction
<1>9. LifeInBounds'
    BY DEF IInv, LifeInBounds
<1>10. ASSUME NEW p \in Requests
       PROVE  Shape(request[p])' /\ HeldFree(request[p])'
    <2>1. CASE p = r
        BY <1>2, <2>1 DEF Shape, HeldFree, Held
    <2>2. CASE p # r
        <3>1. Shape(request[p]) /\ HeldFree(request[p])
            BY Known
        <3> QED
            BY <1>2, <2>2, <3>1 DEF Shape, HeldFree, Held
    <2> QED
        BY <2>1, <2>2
<1>11. ASSUME NEW p \in Requests, NEW w \in Requests, p # w
       PROVE  Apart(request[p], request[w])'
    <2>1. CASE p = r \/ w = r
        BY <1>2, <1>11, <2>1 DEF Apart, Held
    <2>2. CASE p # r /\ w # r
        <3>1. Apart(request[p], request[w])
            BY <1>11 DEF IInv
        <3> QED
            BY <1>2, <2>2, <3>1 DEF Apart, Held
    <2> QED
        BY <2>1, <2>2
<1> QED
    BY <1>3, <1>6, <1>7, <1>8, <1>9, <1>10, <1>11 DEF IInv

\* A request that starts, or fails, has nothing yet.
LEMMA EmptyRecord ==
    ASSUME NEW q \in RequestRecords, q.got = {}, ~q.broken,
           q.pc \in {"draw", "refused", "failed"},
           q.pc = "draw" /\ q.kind = "jar" =>
              q.jar = None /\ (q.anonymous => q.life # None /\ q.life <= Year),
           q.pc = "draw" /\ q.kind = "scroll" => q.jar \in JarIds /\ q.want = 1
    PROVE  /\ Cardinality(q.got) <= q.want
           /\ Shape(q) /\ HeldFree(q) /\ \A p : Apart(q, p)
<1>1. IsFiniteSet({}) /\ Cardinality({}) = 0
    BY FS_EmptySet
<1>2. q.want \in Nat /\ q.kind \in Kinds
    BY DEF RequestRecords
<1>3. Shape(q)
    BY <1>1, <1>2 DEF Shape, Trying, Kinds
<1>4. Held(q) \subseteq {None}
    BY <1>2 DEF Held, Trying, Kinds
<1> QED
    BY <1>1, <1>2, <1>3, <1>4 DEF HeldFree, Apart

\* A request that gives everything up.
LEMMA FailStep ==
    ASSUME IInv, NEW r \in Requests, Fail(r), UNCHANGED <<jars, scrolls>>,
           request[r].pc \notin {"created", "failed"}
    PROVE  IInv'
<1> DEFINE q == [NewRequest EXCEPT !.pc = "failed", !.kind = request[r].kind]
<1>1. request[r].kind \in Kinds
    BY Known DEF RequestRecords
<1>2. q \in RequestRecords
    BY <1>1 DEF NewRequest, RequestRecords, Ended, Lives
<1>3. q.got = {} /\ ~q.broken /\ q.pc = "failed"
    BY DEF NewRequest
<1>4. request' = [request EXCEPT ![r] = q]
    BY DEF Fail
<1> HIDE DEF q
<1>5. /\ Cardinality(q.got) <= q.want /\ Shape(q) /\ HeldFree(q)
      /\ \A p \in Requests \ {r} : Apart(q, request[p])
    BY <1>2, <1>3, EmptyRecord
<1> QED
    BY <1>2, <1>3, <1>4, <1>5, Moves

\* The requests start.
LEMMA StartJarStep ==
    ASSUME IInv, NEW r \in Requests, NEW anonymous \in BOOLEAN,
           NEW duration \in Durations \cup {None}, NEW want \in 0..MaxScrolls,
           NEW delay \in Delays, StartJar(r, anonymous, duration, want, delay)
    PROVE  IInv'
<1>1. PICK q \in RequestRecords :
        /\ request' = [request EXCEPT ![r] = q]
        /\ q.got = {} /\ ~q.broken /\ q.kind = "jar"
        /\ q.pc \in {"draw", "refused"} /\ q.jar = None
        /\ q.pc = "draw" /\ q.anonymous => q.life # None /\ q.life <= Year
    <2>1. CASE Valid(anonymous, duration)
        <3> DEFINE life == Life(anonymous, duration, delay)
                   q == [NewRequest EXCEPT !.pc = "draw", !.anonymous = anonymous,
                                           !.want = want, !.life = life]
        <3>1. /\ life \in Lives /\ (anonymous => life # None /\ life <= Year)
              /\ want \in Nat
            BY <2>1 DEF Life, Lives, Valid
        <3>2. request' = [request EXCEPT ![r] = q]
            BY <2>1 DEF StartJar
        <3> HIDE DEF life
        <3>3. q \in RequestRecords
            BY <3>1 DEF NewRequest, RequestRecords, Kinds
        <3>4. /\ q.got = {} /\ ~q.broken /\ q.kind = "jar" /\ q.pc = "draw"
              /\ q.jar = None /\ q.anonymous = anonymous /\ q.life = life
            BY DEF NewRequest
        <3> HIDE DEF q
        <3> QED
            BY <3>1, <3>2, <3>3, <3>4
    <2>2. CASE ~Valid(anonymous, duration)
        <3> DEFINE q == [NewRequest EXCEPT !.pc = "refused"]
        <3>1. request' = [request EXCEPT ![r] = q]
            BY <2>2 DEF StartJar
        <3>2. q \in RequestRecords
            BY DEF NewRequest, RequestRecords, Kinds, Ended, Lives
        <3>3. /\ q.got = {} /\ ~q.broken /\ q.kind = "jar" /\ q.pc = "refused"
              /\ q.jar = None
            BY DEF NewRequest
        <3> HIDE DEF q
        <3> QED
            BY <3>1, <3>2, <3>3
    <2> QED
        BY <2>1, <2>2
<1>2. /\ Cardinality(q.got) <= q.want /\ Shape(q) /\ HeldFree(q)
      /\ \A p \in Requests \ {r} : Apart(q, request[p])
    BY <1>1, EmptyRecord
<1>3. UNCHANGED <<jars, scrolls>> /\ request[r].pc = "idle"
    BY DEF StartJar
<1> QED
    BY <1>1, <1>2, <1>3, Moves

\* A CreateScroll begins at its jar, with no id.
LEMMA StartScrollStep ==
    ASSUME IInv, NEW r \in Requests, NEW j \in JarIds, StartScroll(r, j)
    PROVE  IInv'
<1> DEFINE q == [NewRequest EXCEPT !.pc = "draw", !.kind = "scroll", !.want = 1,
                                   !.jar = j]
<1>1. q \in RequestRecords
    BY DEF NewRequest, RequestRecords, Kinds, Lives
<1>2. /\ q.got = {} /\ ~q.broken /\ q.kind = "scroll" /\ q.pc = "draw"
      /\ q.jar = j /\ q.want = 1
    BY DEF NewRequest
<1>3. /\ request' = [request EXCEPT ![r] = q]
      /\ UNCHANGED <<jars, scrolls>> /\ request[r].pc = "idle"
    BY DEF StartScroll
<1> HIDE DEF q
<1>4. /\ Cardinality(q.got) <= q.want /\ Shape(q) /\ HeldFree(q)
      /\ \A p \in Requests \ {r} : Apart(q, request[p])
    BY <1>1, <1>2, EmptyRecord
<1> QED
    BY <1>1, <1>2, <1>3, <1>4, Moves

-----------------------------------------------------------------------------
(* The inserts *)

\* Before its row is at the ping, a CreateScroll holds nothing.
LEMMA PendingHeld ==
    ASSUME IInv, NEW r \in Requests
    PROVE  Pending(r) = Held(request[r])
<1>1. Shape(request[r]) /\ request[r].kind \in Kinds
    BY Known DEF RequestRecords
<1>2. CASE request[r].kind = "jar"
    BY <1>1, <1>2 DEF Pending, Held, Active, InTransaction, Trying, Shape
<1>3. CASE request[r].kind = "scroll"
    BY <1>1, <1>3 DEF Pending, Held, Active, InTransaction, Trying, Shape
<1> QED
    BY <1>1, <1>2, <1>3 DEF Kinds

\* An id that an insert comes to the index with.
LEMMA TriedIds ==
    ASSUME IInv, NEW r \in Requests, NEW id, id \in Tried(r)
    PROVE  /\ request[r].pc \in Trying
           /\ ForJar(r) => id \in JarIds
           /\ ~ForJar(r) => id \in ScrollIds
<1>1. Shape(request[r])
    BY Known
<1> QED
    BY <1>1 DEF Tried, Shape, ForJar, Trying

\* One that passes is nobody's.
LEMMA PassesFree ==
    ASSUME IInv, NEW r \in Requests, NEW id, Passes(r, id)
    PROVE  /\ id \in JarIds => jars[id] = None
           /\ id \in ScrollIds => scrolls[id] = None
           /\ id \notin request[r].got
           /\ \A p \in Requests \ {r} : id \notin Held(request[p])
           /\ ~request[r].broken /\ Checked(r)
<1>1. Holders(r, id) = {} /\ ~Taken(r, id)
    BY DEF Passes
<1>2. \A p \in Requests : Pending(p) = Held(request[p])
    BY PendingHeld
<1> QED
    BY <1>1, <1>2 DEF Passes, AtIndex, Taken, Holders

\* An insert that waits holds what it held before.
LEMMA WaitStep ==
    ASSUME IInv, NEW r \in Requests, NEW id, Wait(r, id)
    PROVE  IInv'
<1> DEFINE q == [request[r] EXCEPT !.pc = "wait", !.drawn = id]
<1>1. /\ request[r] \in RequestRecords /\ Shape(request[r])
      /\ HeldFree(request[r]) /\ request[r].pc = "draw"
      /\ Cardinality(request[r].got) <= request[r].want
      /\ ~request[r].broken
    BY Known DEF Wait, AtIndex
<1>2. /\ request[r].jar = None => id \in JarIds
      /\ request[r].jar # None => id \in ScrollIds
      /\ request[r].jar = None /\ request[r].life # None =>
            request[r].life >= MinLife
    BY TriedIds DEF Wait, AtIndex, ForJar, Checked
<1>3. q \in RequestRecords
    BY <1>1, <1>2 DEF RequestRecords
<1>4. /\ q.pc = "wait" /\ q.drawn = id /\ q.kind = request[r].kind
      /\ q.anonymous = request[r].anonymous /\ q.life = request[r].life
      /\ q.want = request[r].want /\ q.jar = request[r].jar
      /\ q.got = request[r].got /\ q.broken = request[r].broken
    BY <1>1 DEF RequestRecords
<1>5. request' = [request EXCEPT ![r] = q] /\ UNCHANGED <<jars, scrolls>>
    BY DEF Wait
<1> HIDE DEF q
<1>6. Shape(q)
    BY <1>1, <1>2, <1>4 DEF Shape, Trying
<1>7. Held(q) = Held(request[r])
    BY <1>1, <1>4 DEF Held, Trying
<1>8. HeldFree(q) /\ \A p \in Requests \ {r} : Apart(q, request[p])
    BY <1>1, <1>7, Known DEF HeldFree, Apart
<1> QED
    BY <1>1, <1>3, <1>4, <1>5, <1>6, <1>8, Moves

\* A taken id breaks the transaction, or is drawn again outside of one.
LEMMA CollidesStep ==
    ASSUME IInv, NEW r \in Requests, NEW id, Collides(r, id)
    PROVE  IInv'
<1> DEFINE q == [request[r] EXCEPT !.pc = "draw", !.drawn = None,
                                   !.broken = InTransaction(r)]
<1>1. /\ request[r] \in RequestRecords /\ Shape(request[r])
      /\ HeldFree(request[r]) /\ request[r].pc \in Trying
      /\ Cardinality(request[r].got) <= request[r].want
    BY Known, TriedIds DEF Collides, AtIndex
<1>2. InTransaction(r) \in BOOLEAN
    BY DEF InTransaction
<1>3. q \in RequestRecords
    BY <1>1, <1>2 DEF RequestRecords
<1>4. /\ q.pc = "draw" /\ q.kind = request[r].kind
      /\ q.anonymous = request[r].anonymous /\ q.life = request[r].life
      /\ q.want = request[r].want /\ q.jar = request[r].jar
      /\ q.got = request[r].got /\ q.broken = InTransaction(r)
    BY <1>1 DEF RequestRecords
<1>5. request' = [request EXCEPT ![r] = q] /\ UNCHANGED <<jars, scrolls>>
    BY DEF Collides
<1> HIDE DEF q
<1>6. Shape(q)
    BY <1>1, <1>4 DEF Shape, Trying, InTransaction
<1>7. Held(q) = {}
    BY <1>4 DEF Held, InTransaction
<1>8. HeldFree(q) /\ \A p \in Requests \ {r} : Apart(q, request[p])
    BY <1>7 DEF HeldFree, Apart
<1> QED
    BY <1>1, <1>3, <1>4, <1>5, <1>6, <1>8, Moves DEF Trying

\* The jar's id was free, and now nobody else gets it.
LEMMA InsertJarStep ==
    ASSUME IInv, NEW r \in Requests, NEW id, InsertJar(r, id)
    PROVE  IInv'
<1> DEFINE pc == After(r, {})
           q == [request[r] EXCEPT !.pc = pc, !.jar = id, !.drawn = None]
<1>1. /\ request[r] \in RequestRecords /\ Shape(request[r])
      /\ request[r].pc \in Trying /\ id \in JarIds /\ request[r].jar = None
      /\ Cardinality(request[r].got) <= request[r].want
    BY Known, TriedIds DEF InsertJar, Passes, AtIndex, ForJar
<1>2. /\ jars[id] = None /\ Checked(r) /\ ~request[r].broken
      /\ \A p \in Requests \ {r} : id \notin Held(request[p])
    BY <1>1, PassesFree DEF InsertJar
<1>3. /\ request[r].got = {} /\ request[r].want \in Nat /\ IsFiniteSet({})
      /\ Cardinality({}) = 0
    BY <1>1, FS_EmptySet DEF Shape, RequestRecords
<1>4. /\ pc \in {"draw", "commit"}
      /\ pc = "commit" => request[r].want = 0
      /\ pc = "draw" => 0 < request[r].want
    BY <1>3 DEF After
<1>5. request' = [request EXCEPT ![r] = q] /\ UNCHANGED <<jars, scrolls>>
    BY DEF InsertJar
<1> HIDE DEF pc
<1>6. q \in RequestRecords
    BY <1>1, <1>4 DEF RequestRecords
<1>7. /\ q.pc = pc /\ q.kind = request[r].kind
      /\ q.anonymous = request[r].anonymous /\ q.life = request[r].life
      /\ q.want = request[r].want /\ q.jar = id
      /\ q.got = {} /\ q.broken = request[r].broken
    BY <1>1, <1>3 DEF RequestRecords
<1> HIDE DEF q
<1>8. request[r].kind = "jar" /\ id # None
    BY <1>1 DEF Shape, RequestRecords, Kinds
<1>9. Shape(q)
    BY <1>1, <1>2, <1>3, <1>4, <1>7, <1>8 DEF Shape, Trying, Checked, ForJar
<1>10. Held(q) = {id}
    BY <1>2, <1>4, <1>7, <1>8 DEF Held, Trying
<1>11. HeldFree(q)
    BY <1>1, <1>2, <1>10 DEF HeldFree
<1>12. \A p \in Requests \ {r} : Apart(q, request[p])
    BY <1>2, <1>10 DEF Apart
<1>13. Cardinality(q.got) <= q.want
    BY <1>3, <1>7
<1> QED
    BY <1>1, <1>4, <1>5, <1>6, <1>7, <1>9, <1>11, <1>12, <1>13, Moves DEF Trying

\* The same for the id of one more scroll of the transaction.
LEMMA InsertScrollStep ==
    ASSUME IInv, NEW r \in Requests, NEW id, InsertScroll(r, id)
    PROVE  IInv'
<1> DEFINE got == request[r].got \cup {id}
           pc == After(r, got)
           q == [request[r] EXCEPT !.pc = pc, !.got = got, !.drawn = None]
<1>1. /\ request[r] \in RequestRecords /\ Shape(request[r])
      /\ HeldFree(request[r])
      /\ request[r].pc \in Trying /\ id \in ScrollIds /\ request[r].jar # None
      /\ request[r].kind = "jar"
    BY Known, TriedIds DEF InsertScroll, Passes, AtIndex, ForJar, InTransaction
<1>2. /\ scrolls[id] = None /\ ~request[r].broken /\ id \notin request[r].got
      /\ \A p \in Requests \ {r} : id \notin Held(request[p])
    BY <1>1, PassesFree DEF InsertScroll
<1>3. /\ IsFiniteSet(got) /\ Cardinality(got) = Cardinality(request[r].got) + 1
      /\ Cardinality(request[r].got) \in Nat /\ request[r].want \in Nat
      /\ Cardinality(request[r].got) < request[r].want
    <2>1. IsFiniteSet(request[r].got)
        BY <1>1 DEF Shape
    <2>2. Cardinality(request[r].got) < request[r].want
        BY <1>1 DEF Shape
    <2>3. request[r].want \in Nat
        BY <1>1 DEF RequestRecords
    <2> QED
        BY <1>2, <2>1, <2>2, <2>3, FS_AddElement, FS_CardinalityType
<1>4. /\ pc \in {"draw", "commit"} /\ Cardinality(got) <= request[r].want
      /\ pc = "commit" => Cardinality(got) = request[r].want
      /\ pc = "draw" => Cardinality(got) < request[r].want
    BY <1>3 DEF After
<1>5. request' = [request EXCEPT ![r] = q] /\ UNCHANGED <<jars, scrolls>>
    BY DEF InsertScroll
<1> HIDE DEF pc
<1>6. q \in RequestRecords
    BY <1>1, <1>4 DEF RequestRecords
<1>7. /\ q.pc = pc /\ q.kind = request[r].kind
      /\ q.anonymous = request[r].anonymous /\ q.life = request[r].life
      /\ q.want = request[r].want /\ q.jar = request[r].jar
      /\ q.got = got /\ q.broken = request[r].broken
      /\ q.jar \in JarIds
    BY <1>1 DEF RequestRecords
<1>8. Held(q) = Held(request[r]) \cup {id}
    BY <1>1, <1>2, <1>4, <1>7 DEF Held, Trying
<1> HIDE DEF q, got
<1>9. Shape(q)
    BY <1>1, <1>2, <1>3, <1>4, <1>7 DEF Shape, Trying
<1>10. HeldFree(q)
    BY <1>1, <1>2, <1>8 DEF HeldFree
<1>11. \A p \in Requests \ {r} : Apart(q, request[p])
    <2>1. \A p \in Requests \ {r} : Apart(request[r], request[p])
        BY Known
    <2> QED
        BY <1>2, <1>8, <2>1 DEF Apart
<1>12. Cardinality(q.got) <= q.want
    BY <1>4, <1>7
<1> QED
    BY <1>1, <1>4, <1>5, <1>6, <1>7, <1>9, <1>10, <1>11, <1>12, Moves DEF Trying

\* The same for the only id of a CreateScroll, which now goes for its jar.
LEMMA InsertRowStep ==
    ASSUME IInv, NEW r \in Requests, NEW id, InsertRow(r, id)
    PROVE  IInv'
<1> DEFINE q == [request[r] EXCEPT !.pc = "ping", !.got = {id}, !.drawn = None]
<1>1. /\ request[r] \in RequestRecords /\ Shape(request[r])
      /\ request[r].pc \in Trying /\ request[r].kind = "scroll"
      /\ request[r].jar \in JarIds /\ request[r].want = 1
      /\ ~request[r].broken /\ id \in ScrollIds
    <2>1. /\ request[r] \in RequestRecords /\ Shape(request[r])
          /\ request[r].pc \in Trying
        BY Known, TriedIds DEF InsertRow, Passes, AtIndex
    <2>2. request[r].kind = "scroll"
        BY <2>1 DEF InsertRow, InTransaction, RequestRecords, Kinds
    <2>3. request[r].jar \in JarIds /\ request[r].want = 1 /\ ~request[r].broken
        BY <2>1, <2>2 DEF Shape
    <2> QED
        BY <2>1, <2>2, <2>3, TriedIds DEF InsertRow, Passes, AtIndex, ForJar
<1>2. /\ scrolls[id] = None
      /\ \A p \in Requests \ {r} : id \notin Held(request[p])
    BY <1>1, PassesFree DEF InsertRow
<1>3. request' = [request EXCEPT ![r] = q] /\ UNCHANGED <<jars, scrolls>>
    BY DEF InsertRow
<1>4. q \in RequestRecords
    BY <1>1 DEF RequestRecords
<1>5. /\ q.pc = "ping" /\ q.kind = "scroll" /\ q.want = 1 /\ q.got = {id}
      /\ q.jar = request[r].jar /\ q.broken = request[r].broken
    BY <1>1 DEF RequestRecords
<1>6. IsFiniteSet({id}) /\ Cardinality({id}) = 1
    BY FS_Singleton
<1> HIDE DEF q
<1>7. Shape(q) /\ Cardinality(q.got) <= q.want
    BY <1>1, <1>5, <1>6 DEF Shape, Trying
<1>8. Held(q) = {id}
    BY <1>5 DEF Held
<1>9. HeldFree(q) /\ \A p \in Requests \ {r} : Apart(q, request[p])
    BY <1>1, <1>2, <1>8 DEF HeldFree, Apart
<1> QED
    BY <1>1, <1>3, <1>4, <1>5, <1>7, <1>9, Moves DEF Trying

-----------------------------------------------------------------------------
(* The ends *)

\* A request that ends by writing the rows J and S, which were its own to write.
LEMMA Writes ==
    ASSUME IInv, NEW r \in Requests, NEW q \in RequestRecords,
           request' = [request EXCEPT ![r] = q],
           request[r].pc \notin {"created", "failed"},
           q.pc \in {"created", "failed"},
           Cardinality(q.got) <= q.want, IsFiniteSet(q.got),
           NEW J \in SUBSET JarIds, NEW S \in SUBSET ScrollIds,
           jars' \in [JarIds -> JarRows \cup {None}],
           scrolls' \in [ScrollIds -> ScrollRows \cup {None}],
           \A j \in JarIds \ J : jars'[j] = jars[j],
           \A s \in ScrollIds \ S : scrolls'[s] = scrolls[s],
           \A j \in J : jars[j] = None /\ jars'[j] # None /\ jars'[j].by = r,
           \A s \in S : scrolls[s] = None /\ scrolls'[s] # None
                        /\ scrolls'[s].by = r,
           \A p \in Requests \ {r} : (J \cup S) \cap Held(request[p]) = {},
           q.kind = "jar" =>
              /\ J = {} => S = {}
              /\ \A j \in J : /\ \A s \in S : scrolls'[s].jar = j
                              /\ Cardinality(S) = jars'[j].size,
           q.pc = "created" =>
              /\ S = q.got /\ Cardinality(q.got) = q.want
              /\ \A s \in S : scrolls'[s].jar = q.jar
              /\ q.kind = "jar" => J = {q.jar},
           \A j \in J :
              /\ jars'[j].life # None => jars'[j].life >= MinLife
              /\ jars'[j].anonymous =>
                    jars'[j].life # None /\ jars'[j].life <= Year
    PROVE  IInv'
<1>1. request \in [Requests -> RequestRecords]
    BY DEF IInv, TypeOK
<1>2. request'[r] = q /\ \A p \in Requests \ {r} : request'[p] = request[p]
    BY <1>1
<1>3. TypeOK'
    <2>1. \A p \in Requests : Cardinality(request'[p].got) <= request'[p].want
        BY <1>2, Known
    <2> QED
        BY <1>1, <2>1 DEF TypeOK
<1>4. JarsOf(r) = {} /\ ScrollsOf(r) = {}
    BY DEF IInv, NoRowsYet
<1>5. JarsOf(r)' = J /\ ScrollsOf(r)' = S
    <2>1. JarsOf(r)' = J
        BY <1>4 DEF JarsOf
    <2>2. ScrollsOf(r)' = S
        BY <1>4 DEF ScrollsOf
    <2> QED
        BY <2>1, <2>2
<1>6. ASSUME NEW p \in Requests \ {r}
      PROVE  /\ JarsOf(p)' = JarsOf(p) /\ ScrollsOf(p)' = ScrollsOf(p)
             /\ JarsOf(p) \subseteq JarIds \ J
             /\ ScrollsOf(p) \subseteq ScrollIds \ S
    <2>1. JarsOf(p)' = JarsOf(p) /\ JarsOf(p) \subseteq JarIds \ J
        BY DEF JarsOf
    <2>2. ScrollsOf(p)' = ScrollsOf(p) /\ ScrollsOf(p) \subseteq ScrollIds \ S
        BY DEF ScrollsOf
    <2> QED
        BY <2>1, <2>2
<1>7. NoRowsYet'
    BY <1>2, <1>6 DEF IInv, NoRowsYet
<1>8. CreatedWhole'
    <2>1. ASSUME NEW p \in Requests, InTransaction(p)'
          PROVE  /\ request'[p].pc \notin Ended => JarsOf(p)' = {}
                 /\ JarsOf(p)' = {} => ScrollsOf(p)' = {}
                 /\ \A j \in JarsOf(p)' :
                       /\ \A s \in ScrollsOf(p)' : scrolls'[s].jar = j
                       /\ Cardinality(ScrollsOf(p)') = jars'[j].size
        <3>1. CASE p = r
            BY <1>2, <1>5, <2>1, <3>1 DEF InTransaction, Ended
        <3>2. CASE p # r
            <4>1. InTransaction(p) /\ request'[p] = request[p]
                BY <1>2, <2>1, <3>2 DEF InTransaction
            <4>2. /\ request[p].pc \notin Ended => JarsOf(p) = {}
                  /\ JarsOf(p) = {} => ScrollsOf(p) = {}
                  /\ \A j \in JarsOf(p) :
                        /\ \A s \in ScrollsOf(p) : scrolls[s].jar = j
                        /\ Cardinality(ScrollsOf(p)) = jars[j].size
                BY <4>1 DEF IInv, CreatedWhole
            <4> QED
                BY <1>6, <3>2, <4>1, <4>2
        <3> QED
            BY <3>1, <3>2
    <2> QED
        BY <2>1 DEF CreatedWhole
<1>9. AnsweredIsThere'
    <2>1. ASSUME NEW p \in Requests, request'[p].pc = "created"
          PROVE  /\ ScrollsOf(p)' = request'[p].got
                 /\ Cardinality(request'[p].got) = request'[p].want
                 /\ \A s \in request'[p].got :
                       scrolls'[s].jar = request'[p].jar
                 /\ InTransaction(p)' => JarsOf(p)' = {request'[p].jar}
        <3>1. CASE p = r
            BY <1>2, <1>5, <2>1, <3>1 DEF InTransaction
        <3>2. CASE p # r
            <4>1. /\ ScrollsOf(p) = request[p].got
                  /\ Cardinality(request[p].got) = request[p].want
                  /\ \A s \in request[p].got : scrolls[s].jar = request[p].jar
                  /\ InTransaction(p) => JarsOf(p) = {request[p].jar}
                BY <1>2, <2>1, <3>2 DEF IInv, AnsweredIsThere
            <4> QED
                BY <1>2, <1>6, <3>2, <4>1 DEF InTransaction
        <3> QED
            BY <3>1, <3>2
    <2> QED
        BY <2>1 DEF AnsweredIsThere
<1>10. LifeInBounds'
    BY DEF IInv, LifeInBounds
<1>11. Held(q) = {} /\ Shape(q)
    BY DEF Held, Shape, Trying
<1>12. ASSUME NEW p \in Requests
       PROVE  Shape(request[p])' /\ HeldFree(request[p])'
    <2>1. CASE p = r
        BY <1>2, <1>11, <2>1 DEF Shape, HeldFree, Held
    <2>2. CASE p # r
        <3>1. Shape(request[p]) /\ HeldFree(request[p])
            BY Known
        <3>2. Shape(request[p])' /\ Held(request[p])' = Held(request[p])
            BY <1>2, <2>2, <3>1 DEF Shape, Held
        <3> QED
            BY <1>2, <2>2, <3>1, <3>2 DEF HeldFree
    <2> QED
        BY <2>1, <2>2
<1>13. ASSUME NEW p \in Requests, NEW w \in Requests, p # w
       PROVE  Apart(request[p], request[w])'
    <2>1. CASE p = r \/ w = r
        BY <1>2, <1>11, <1>13, <2>1 DEF Apart, Held
    <2>2. CASE p # r /\ w # r
        <3>1. Apart(request[p], request[w])
            BY <1>13 DEF IInv
        <3> QED
            BY <1>2, <2>2, <3>1 DEF Apart, Held
    <2> QED
        BY <2>1, <2>2
<1> QED
    BY <1>3, <1>7, <1>8, <1>9, <1>10, <1>12, <1>13 DEF IInv

\* The record of a request that failed, whatever it has written.
LEMMA FailedRecord ==
    ASSUME IInv, NEW r \in Requests
    PROVE  LET q == [NewRequest EXCEPT !.pc = "failed",
                                       !.kind = request[r].kind]
           IN  /\ q \in RequestRecords /\ q.pc = "failed"
               /\ q.kind = request[r].kind
               /\ Cardinality(q.got) <= q.want /\ IsFiniteSet(q.got)
<1> DEFINE q == [NewRequest EXCEPT !.pc = "failed", !.kind = request[r].kind]
<1>1. request[r].kind \in Kinds
    BY Known DEF RequestRecords
<1>2. q \in RequestRecords
    BY <1>1 DEF NewRequest, RequestRecords, Ended, Lives
<1>3. q.got = {} /\ q.want = 0 /\ q.pc = "failed" /\ q.kind = request[r].kind
    BY DEF NewRequest
<1>4. IsFiniteSet({}) /\ Cardinality({}) = 0
    BY FS_EmptySet
<1> HIDE DEF q
<1>5. Cardinality(q.got) <= q.want /\ IsFiniteSet(q.got)
    BY <1>3, <1>4
<1> QED
    BY <1>2, <1>3, <1>5 DEF q

\* The statement of CreateScroll writes the only row of its request.
LEMMA PingAndCommitStep ==
    ASSUME IInv, NEW r \in Requests, PingAndCommit(r)
    PROVE  IInv'
<1> DEFINE J == {}
           S == request[r].got
<1>1. /\ request[r] \in RequestRecords /\ Shape(request[r])
      /\ HeldFree(request[r]) /\ request[r].pc = "ping"
      /\ request[r].kind = "scroll" /\ request[r].jar \in JarIds
      /\ request[r].want = 1 /\ Cardinality(S) = 1 /\ IsFiniteSet(S)
      /\ S \in SUBSET ScrollIds
    BY Known DEF PingAndCommit, Shape, RequestRecords
<1>2. Held(request[r]) = S
    BY <1>1 DEF Held
<1>3. /\ jars' = jars /\ jars \in [JarIds -> JarRows \cup {None}]
      /\ scrolls \in [ScrollIds -> ScrollRows \cup {None}]
      /\ scrolls' = [s \in ScrollIds |-> IF s \in S THEN Row(r) ELSE scrolls[s]]
    BY DEF PingAndCommit, WithScrolls, IInv, TypeOK
<1>4. /\ Row(r) \in ScrollRows /\ Row(r).by = r
      /\ Row(r).jar = request[r].jar /\ Row(r) # None
    BY <1>1 DEF Row, ScrollRows
<1>5. \A p \in Requests \ {r} : S \cap Held(request[p]) = {}
    <2>1. ASSUME NEW p \in Requests \ {r}
          PROVE  S \cap Held(request[p]) \subseteq {None}
        BY <1>2, Known DEF Apart
    <2> QED
        BY <1>1, <2>1
<1>6. \A s \in S : scrolls[s] = None
    BY <1>1, <1>2 DEF HeldFree
<1>7. /\ scrolls' \in [ScrollIds -> ScrollRows \cup {None}]
      /\ \A s \in S : scrolls'[s] = Row(r)
      /\ \A s \in ScrollIds \ S : scrolls'[s] = scrolls[s]
    BY <1>1, <1>3, <1>4
<1>8. PICK q \in RequestRecords :
        /\ request' = [request EXCEPT ![r] = q]
        /\ q.pc \in {"created", "failed"} /\ q.kind = "scroll"
        /\ Cardinality(q.got) <= q.want /\ IsFiniteSet(q.got)
        /\ q.pc = "created" => /\ q.got = S /\ q.jar = request[r].jar
                               /\ Cardinality(q.got) = q.want
    <2>1. CASE Fail(r)
        BY <1>1, <2>1, FailedRecord DEF Fail
    <2>2. CASE ~Fail(r)
        <3> DEFINE q == [request[r] EXCEPT !.pc = "created"]
        <3>1. request' = [request EXCEPT ![r] = q]
            BY <2>2 DEF PingAndCommit
        <3>2. q \in RequestRecords
            BY <1>1 DEF RequestRecords, Ended
        <3>3. /\ q.pc = "created" /\ q.kind = "scroll" /\ q.got = S
              /\ q.jar = request[r].jar /\ q.want = 1
            BY <1>1 DEF RequestRecords
        <3> HIDE DEF q
        <3>4. /\ Cardinality(q.got) <= q.want /\ IsFiniteSet(q.got)
              /\ Cardinality(q.got) = q.want
            BY <1>1, <3>3
        <3> QED
            BY <3>1, <3>2, <3>3, <3>4, Zenon
    <2> QED
        BY <2>1, <2>2
<1>9. /\ J \in SUBSET JarIds /\ S \in SUBSET ScrollIds
      /\ \A j \in J : FALSE
      /\ \A j \in JarIds \ J : jars'[j] = jars[j]
      /\ jars' \in [JarIds -> JarRows \cup {None}]
      /\ \A p \in Requests \ {r} : (J \cup S) \cap Held(request[p]) = {}
    BY <1>1, <1>3, <1>5
<1>10. \A s \in S : scrolls[s] = None /\ scrolls'[s] # None
                    /\ scrolls'[s].by = r /\ scrolls'[s].jar = request[r].jar
    BY <1>4, <1>6, <1>7
<1>11. request[r].pc \notin {"created", "failed"}
    BY <1>1
<1> HIDE DEF J, S
<1>12. q.pc = "created" =>
         /\ S = q.got /\ Cardinality(q.got) = q.want
         /\ \A s \in S : scrolls'[s].jar = q.jar
         /\ q.kind = "jar" => J = {q.jar}
    BY <1>8, <1>10
<1>13. q.kind = "jar" =>
         /\ J = {} => S = {}
         /\ \A j \in J : /\ \A s \in S : scrolls'[s].jar = j
                         /\ Cardinality(S) = jars'[j].size
    BY <1>8
<1>14. /\ \A j \in J : jars[j] = None /\ jars'[j] # None /\ jars'[j].by = r
       /\ \A j \in J :
             /\ jars'[j].life # None => jars'[j].life >= MinLife
             /\ jars'[j].anonymous =>
                   jars'[j].life # None /\ jars'[j].life <= Year
    BY <1>9
<1>15. \A s \in S : scrolls[s] = None /\ scrolls'[s] # None
                    /\ scrolls'[s].by = r
    BY <1>10
<1>16. \A s \in ScrollIds \ S : scrolls'[s] = scrolls[s]
    BY <1>7
<1> QED
    BY <1>7, <1>8, <1>9, <1>11, <1>12, <1>13, <1>14, <1>15, <1>16, Writes

\* A transaction writes its jar and all scrolls that it was asked for.
LEMMA CommitStep ==
    ASSUME IInv, NEW r \in Requests, Commit(r)
    PROVE  IInv'
<1> DEFINE J == {request[r].jar}
           S == request[r].got
           row == [by |-> r, anonymous |-> request[r].anonymous,
                   life |-> request[r].life, size |-> request[r].want]
<1>1. /\ request[r] \in RequestRecords /\ Shape(request[r])
      /\ HeldFree(request[r]) /\ request[r].pc = "commit"
      /\ request[r].kind = "jar" /\ ~request[r].broken
      /\ request[r].jar \in JarIds /\ request[r].jar # None
      /\ Cardinality(S) = request[r].want /\ IsFiniteSet(S)
      /\ S \in SUBSET ScrollIds /\ request[r].want \in Nat
    BY Known DEF Commit, Shape, RequestRecords
<1>2. Held(request[r]) = J \cup S
    BY <1>1 DEF Held
<1>3. /\ jars \in [JarIds -> JarRows \cup {None}]
      /\ scrolls \in [ScrollIds -> ScrollRows \cup {None}]
      /\ jars' = [jars EXCEPT ![request[r].jar] = row]
      /\ scrolls' = [s \in ScrollIds |-> IF s \in S THEN Row(r) ELSE scrolls[s]]
    BY DEF Commit, WithScrolls, IInv, TypeOK
<1>4. /\ Row(r) \in ScrollRows /\ Row(r).by = r /\ Row(r).jar = request[r].jar
      /\ row \in JarRows /\ row.by = r
      /\ row.anonymous = request[r].anonymous
      /\ row.life = request[r].life /\ row.size = request[r].want
    BY <1>1 DEF Row, ScrollRows, JarRows, RequestRecords
<1> HIDE DEF row
<1>5. /\ row # None /\ Row(r) # None
      /\ row.life # None => row.life >= MinLife
      /\ row.anonymous => row.life # None /\ row.life <= Year
    BY <1>1, <1>4 DEF Shape
<1>6. \A p \in Requests \ {r} : (J \cup S) \cap Held(request[p]) = {}
    <2>1. ASSUME NEW p \in Requests \ {r}
          PROVE  (J \cup S) \cap Held(request[p]) \subseteq {None}
        BY <1>2, Known DEF Apart
    <2>2. None \notin J \cup S
        BY <1>1
    <2> QED
        BY <2>1, <2>2
<1>7. /\ jars[request[r].jar] = None
      /\ \A s \in S : scrolls[s] = None
    BY <1>1, <1>2 DEF HeldFree
<1>8. PICK q \in RequestRecords :
        /\ request' = [request EXCEPT ![r] = q]
        /\ q.pc \in {"created", "failed"} /\ q.kind = "jar"
        /\ Cardinality(q.got) <= q.want /\ IsFiniteSet(q.got)
        /\ q.pc = "created" => /\ q.got = S /\ q.jar = request[r].jar
                               /\ Cardinality(q.got) = q.want
    <2>1. CASE Fail(r)
        BY <1>1, <2>1, FailedRecord DEF Fail
    <2>2. CASE ~Fail(r)
        <3> DEFINE q == [request[r] EXCEPT !.pc = "created"]
        <3>1. request' = [request EXCEPT ![r] = q]
            BY <2>2 DEF Commit
        <3>2. q \in RequestRecords
            BY <1>1 DEF RequestRecords, Ended
        <3>3. /\ q.pc = "created" /\ q.kind = "jar" /\ q.got = S
              /\ q.jar = request[r].jar /\ q.want = request[r].want
            BY <1>1 DEF RequestRecords
        <3> HIDE DEF q
        <3>4. /\ Cardinality(q.got) <= q.want /\ IsFiniteSet(q.got)
              /\ Cardinality(q.got) = q.want
            BY <1>1, <3>3
        <3> QED
            BY <3>1, <3>2, <3>3, <3>4, Zenon
    <2> QED
        BY <2>1, <2>2
<1>9. /\ jars' \in [JarIds -> JarRows \cup {None}]
      /\ jars'[request[r].jar] = row
      /\ \A j \in JarIds \ J : jars'[j] = jars[j]
    BY <1>1, <1>3, <1>4
<1>10. /\ scrolls' \in [ScrollIds -> ScrollRows \cup {None}]
       /\ \A s \in S : scrolls'[s] = Row(r)
       /\ \A s \in ScrollIds \ S : scrolls'[s] = scrolls[s]
    BY <1>1, <1>3, <1>4
<1>11. J \in SUBSET JarIds /\ (\A j \in J : j = request[r].jar) /\ J # {}
       /\ J = {request[r].jar}
    BY <1>1
<1>12. /\ \A j \in J : jars[j] = None /\ jars'[j] # None /\ jars'[j].by = r
       /\ \A s \in S : scrolls[s] = None /\ scrolls'[s] # None
                       /\ scrolls'[s].by = r /\ scrolls'[s].jar = request[r].jar
       /\ \A j \in J : Cardinality(S) = jars'[j].size
       /\ \A j \in J : jars'[j] = row
    BY <1>1, <1>4, <1>5, <1>7, <1>9, <1>10, <1>11
<1>13. request[r].pc \notin {"created", "failed"}
    BY <1>1
<1> HIDE DEF J, S
<1>14. q.pc = "created" =>
         /\ S = q.got /\ Cardinality(q.got) = q.want
         /\ \A s \in S : scrolls'[s].jar = q.jar
         /\ q.kind = "jar" => J = {q.jar}
    BY <1>8, <1>11, <1>12
<1>15. q.kind = "jar" =>
         /\ J = {} => S = {}
         /\ \A j \in J : /\ \A s \in S : scrolls'[s].jar = j
                         /\ Cardinality(S) = jars'[j].size
    BY <1>11, <1>12
<1>16. \A j \in J :
         /\ jars'[j].life # None => jars'[j].life >= MinLife
         /\ jars'[j].anonymous => jars'[j].life # None /\ jars'[j].life <= Year
    BY <1>5, <1>12
<1>17. \A s \in S : scrolls[s] = None /\ scrolls'[s] # None
                    /\ scrolls'[s].by = r
    BY <1>12
<1>18. J \in SUBSET JarIds /\ S \in SUBSET ScrollIds
    BY <1>1, <1>11
<1>19. \A j \in J : jars[j] = None /\ jars'[j] # None /\ jars'[j].by = r
    BY <1>12
<1>20. /\ jars' \in [JarIds -> JarRows \cup {None}]
       /\ \A j \in JarIds \ J : jars'[j] = jars[j]
    BY <1>9
<1>21. /\ scrolls' \in [ScrollIds -> ScrollRows \cup {None}]
       /\ \A s \in ScrollIds \ S : scrolls'[s] = scrolls[s]
    BY <1>10
<1>22. /\ request' = [request EXCEPT ![r] = q]
       /\ q.pc \in {"created", "failed"}
       /\ Cardinality(q.got) <= q.want /\ IsFiniteSet(q.got)
    BY <1>8
<1> QED
    BY <1>6, <1>13, <1>14, <1>15, <1>16, <1>17, <1>18, <1>19, <1>20, <1>21,
       <1>22, Writes

-----------------------------------------------------------------------------
(* The invariant holds *)

\* One jar is there at first, and it is no request's.
LEMMA AtStart ==
    Init => IInv
<1> SUFFICES ASSUME Init  PROVE IInv
    OBVIOUS
<1> DEFINE first == [by |-> None, anonymous |-> FALSE, life |-> None, size |-> 0]
<1>1. first \in JarRows
    BY DEF JarRows, Lives
<1>2. /\ first.by = None /\ first.life = None /\ first.anonymous = FALSE
      /\ jars = [j \in JarIds |-> IF j = FirstJar THEN first ELSE None]
      /\ scrolls = [s \in ScrollIds |-> None]
      /\ request = [r \in Requests |-> NewRequest]
    BY DEF Init
<1> HIDE DEF first
<1>3. NewRequest \in RequestRecords /\ NewRequest.got = {} /\ NewRequest.want = 0
      /\ NewRequest.pc = "idle"
    BY DEF NewRequest, RequestRecords, Kinds, Lives
<1>4. IsFiniteSet({}) /\ Cardinality({}) = 0
    BY FS_EmptySet
<1>5. TypeOK
    BY <1>1, <1>2, <1>3, <1>4 DEF TypeOK
<1>6. \A r \in Requests : JarsOf(r) = {} /\ ScrollsOf(r) = {}
    <2>1. \A j \in JarIds : jars[j] = None \/ jars[j].by = None
        BY <1>2
    <2> QED
        BY <1>2, <2>1 DEF JarsOf, ScrollsOf
<1>7. NoRowsYet /\ CreatedWhole /\ AnsweredIsThere
    BY <1>2, <1>3, <1>6 DEF NoRowsYet, CreatedWhole, AnsweredIsThere
<1>8. LifeInBounds
    BY <1>2 DEF LifeInBounds
<1>9. Shape(NewRequest) /\ Held(NewRequest) = {}
    BY <1>3, <1>4 DEF Shape, Held, Trying
<1> QED
    BY <1>2, <1>5, <1>7, <1>8, <1>9 DEF IInv, HeldFree, Apart

\* The statements together.
LEMMA StatementStep ==
    ASSUME IInv, NEW r \in Requests, Statement(r)
    PROVE  IInv'
<1>1. ASSUME InsertFails(r)  PROVE IInv'
    BY <1>1, FailStep DEF InsertFails
<1>2. ASSUME DeadlockFound(r)  PROVE IInv'
    <2>1. Blockers(r) # {}
        <3>1. PICK n \in 2..Cardinality(Requests) :
                \E c \in [1..n -> Requests] :
                   /\ c[1] = r
                   /\ \A i \in 1..n : c[(i % n) + 1] \in Blockers(c[i])
            BY <1>2 DEF DeadlockFound, Deadlocked
        <3>2. PICK c \in [1..n -> Requests] :
                /\ c[1] = r
                /\ \A i \in 1..n : c[(i % n) + 1] \in Blockers(c[i])
            BY <3>1
        <3>3. 1 \in 1..n
            BY <3>1
        <3> QED
            BY <3>2, <3>3
    <2>2. request[r].pc \in {"wait", "ping"}
        BY <2>1 DEF Blockers
    <2> QED
        BY <1>2, <2>2, FailStep DEF DeadlockFound
<1> QED
    BY <1>1, <1>2, WaitStep, CollidesStep, InsertJarStep, InsertScrollStep,
       InsertRowStep, PingAndCommitStep, CommitStep DEF Statement, Insert

\* Every step keeps the invariant.
LEMMA NextStep ==
    IInv /\ [Next]_vars => IInv'
<1> SUFFICES ASSUME IInv, [Next]_vars  PROVE IInv'
    OBVIOUS
<1>1. CASE UNCHANGED vars
    <2>1. jars' = jars /\ scrolls' = scrolls /\ request' = request
        BY <1>1 DEF vars
    <2> QED
        BY <2>1 DEF IInv, TypeOK, NoRowsYet, CreatedWhole, AnsweredIsThere,
           LifeInBounds, JarsOf, ScrollsOf, InTransaction, Shape, HeldFree,
           Held, Apart
<1>2. ASSUME NEW r \in Requests, Cancel(r)  PROVE IInv'
    BY <1>2, FailStep DEF Cancel, Active
<1>3. CASE Next
    BY <1>2, <1>3, StartJarStep, StartScrollStep, StatementStep DEF Next
<1> QED
    BY <1>1, <1>3

-----------------------------------------------------------------------------
(* Theorems *)

\* What transactions hold is theirs, and what they wrote is whole.
THEOREM CreationSound == Spec => []IInv
BY AtStart, NextStep, PTL DEF Spec

\* The tables and the requests always have their types, and no request inserts
\* more scrolls than it was asked for.
THEOREM TypesHold == Spec => []TypeOK
<1>1. IInv => TypeOK
    BY DEF IInv
<1> QED
    BY <1>1, CreationSound, PTL

\* A jar is created with all of its scrolls or not at all.
THEOREM JarsWhole == Spec => []CreatedWhole
<1>1. IInv => CreatedWhole
    BY DEF IInv
<1> QED
    BY <1>1, CreationSound, PTL

\* The ids of an answer are the rows of the request that it answers.
THEOREM AnswersHold == Spec => []AnsweredIsThere
<1>1. IInv => AnsweredIsThere
    BY DEF IInv
<1> QED
    BY <1>1, CreationSound, PTL

\* No jar lives for less than five minutes, no anonymous one for ever.
THEOREM LivesBounded == Spec => []LifeInBounds
<1>1. IInv => LifeInBounds
    BY DEF IInv
<1> QED
    BY <1>1, CreationSound, PTL

\* No insert takes the id of a row, whichever ids are drawn.
THEOREM RowsStay == Spec => RowsKept
<1> DEFINE Kept ==
             /\ \A j \in JarIds : jars[j] # None => jars'[j] = jars[j]
             /\ \A s \in ScrollIds : scrolls[s] # None => scrolls'[s] = scrolls[s]
<1>1. ASSUME IInv, [Next]_vars
      PROVE  Kept
    <2>1. CASE UNCHANGED <<jars, scrolls>>
        BY <2>1
    <2>2. ASSUME NEW r \in Requests, PingAndCommit(r)
          PROVE  Kept
        <3>1. HeldFree(request[r]) /\ Held(request[r]) = request[r].got
            <4>1. request[r].pc = "ping"
                BY <2>2 DEF PingAndCommit
            <4>2. HeldFree(request[r])
                BY <1>1, Known
            <4> QED
                BY <4>1, <4>2 DEF Held, Trying
        <3>2. \A s \in ScrollIds : s \in request[r].got => scrolls[s] = None
            BY <3>1 DEF HeldFree
        <3> QED
            BY <2>2, <3>2 DEF PingAndCommit, WithScrolls
    <2>3. ASSUME NEW r \in Requests, Commit(r)
          PROVE  Kept
        <3>1. /\ HeldFree(request[r]) /\ request[r].jar \in JarIds
              /\ Held(request[r]) = {request[r].jar} \cup request[r].got
            BY <1>1, <2>3, Known DEF Commit, Shape, Held
        <3>2. /\ jars[request[r].jar] = None
              /\ \A s \in ScrollIds : s \in request[r].got => scrolls[s] = None
            BY <3>1 DEF HeldFree
        <3>3. jars \in [JarIds -> JarRows \cup {None}]
            BY <1>1 DEF IInv, TypeOK
        <3> QED
            BY <2>3, <3>2, <3>3 DEF Commit, WithScrolls
    <2> HIDE DEF Kept
    <2> QED
        BY <1>1, <2>1, <2>2, <2>3 DEF Next, vars, StartJar, StartScroll,
           Statement, Insert, Wait, Collides, InsertJar, InsertScroll,
           InsertRow, InsertFails, DeadlockFound, Cancel
<1>2. IInv /\ [Next]_vars => [Kept]_vars
    BY <1>1
<1> QED
    BY <1>2, CreationSound, PTL DEF Spec, RowsKept

-----------------------------------------------------------------------------
(* Nobody waits for good unnoticed *)

\* A CreateJar that has inserted a scroll and wants another one.
MidJar(r) ==
    /\ InTransaction(r) /\ request[r].pc = "wait"
    /\ request[r].got # {} /\ Cardinality(request[r].got) < request[r].want

\* Two creations fail in a deadlock of creations and no others: a CreateJar that
\* is in the middle of its scrolls, and a CreateScroll that has locked the row
\* of its jar, as another one has, and now wants it for itself.
TwoKindsDeadlock ==
    \A r \in Requests : Deadlocked(r) =>
        \/ MidJar(r)
        \/ request[r].pc = "ping" /\ Sharers(r) # {}

\* Who waits at the ping waits for others at the ping.  In any other circle
\* everybody holds an id for which another one waits, so all are transactions;
\* who waits for a jar's id has none yet, so all of them wait for scrolls.
THEOREM DeadlocksOfTwoKinds == Spec => []TwoKindsDeadlock
<1>1. ASSUME IInv, NEW r \in Requests, NEW q \in Requests, r \in Blockers(q),
             NEW p \in Requests, q \in Blockers(p), Blockers(r) # {},
             request[r].pc # "ping"
      PROVE  MidJar(r)
    <2>1. \A x \in Requests : \A y \in Blockers(x) :
              \/ request[x].pc = "ping" /\ request[y].pc = "ping"
              \/ /\ request[x].pc = "wait"
                 /\ request[x].drawn \in Held(request[y])
        <3>1. ASSUME NEW x \in Requests, NEW y \in Blockers(x)
              PROVE  \/ request[x].pc = "ping" /\ request[y].pc = "ping"
                     \/ /\ request[x].pc = "wait"
                        /\ request[x].drawn \in Held(request[y])
            <4>1. y \in Requests
                BY BlockersAct
            <4>2. Pending(y) = Held(request[y])
                BY <1>1, <4>1, PendingHeld
            <4> QED
                BY <3>1, <4>2 DEF Blockers, Holders, Sharers
        <3> QED
            BY <3>1
    <2>2. /\ request[r].pc = "wait" /\ request[q].pc = "wait"
          /\ request[p].pc = "wait"
          /\ request[q].drawn \in Held(request[r])
          /\ request[p].drawn \in Held(request[q])
        BY <1>1, <2>1
    <2>3. \A x \in {r, q} : /\ request[x].kind = "jar"
                            /\ Held(request[x]) =
                                  {request[x].jar} \cup request[x].got
        BY <2>2 DEF Held
    <2>4. request[q].jar # None
        <3>1. SUFFICES ASSUME request[q].jar = None  PROVE FALSE
            OBVIOUS
        <3>2. request[q].got = {} /\ request[p].drawn = None
            BY <1>1, <2>2, <2>3, <3>1, Known DEF Shape, Trying
        <3>3. request[p].drawn \in JarIds \cup ScrollIds
            BY <1>1, <2>2, Known DEF Shape
        <3> QED
            BY <3>2, <3>3
    <2>5. request[q].drawn \in ScrollIds
        BY <1>1, <2>2, <2>4, Known DEF Shape
    <2>6. request[r].jar \in JarIds \cup {None}
        BY <1>1, Known DEF RequestRecords
    <2>7. request[q].drawn \in request[r].got
        BY <1>1, <2>2, <2>3, <2>5, <2>6
    <2>8. request[r].jar # None
        BY <1>1, <2>2, <2>7, Known DEF Shape, Trying
    <2> QED
        BY <1>1, <2>2, <2>3, <2>7, <2>8, Known
        DEF Shape, Trying, MidJar, InTransaction
<1>2. IInv => TwoKindsDeadlock
    <2> SUFFICES ASSUME IInv, NEW r \in Requests, Deadlocked(r)
                 PROVE  \/ MidJar(r)
                        \/ request[r].pc = "ping" /\ Sharers(r) # {}
        BY DEF TwoKindsDeadlock
    <2>1. CASE request[r].pc = "ping"
        <3>1. Blockers(r) # {}
            BY BeforeInCircle
        <3> QED
            BY <2>1, <3>1 DEF Blockers
    <2>2. CASE request[r].pc # "ping"
        BY <1>1, <2>2, BeforeInCircle
    <2> QED
        BY <2>1, <2>2
<1> QED
    BY <1>2, CreationSound, PTL

\* The second kind is no rarity: as soon as two CreateScrolls have both locked
\* the row of one jar, they are in a circle, and one of them must fail.
THEOREM SharersDeadlock ==
    ASSUME NEW r \in Requests, NEW q \in Sharers(r), request[r].pc = "ping"
    PROVE  Deadlocked(r)
<1> DEFINE c == [i \in 1..2 |-> IF i = 1 THEN r ELSE q]
<1>1. q \in Requests \ {r} /\ q \in Blockers(r) /\ r \in Blockers(q)
    BY DEF Sharers, Blockers
<1>2. c \in [1..2 -> Requests] /\ c[1] = r /\ c[2] = q
    BY <1>1
<1>3. (1 % 2) + 1 = 2 /\ (2 % 2) + 1 = 1
    OBVIOUS
<1>4. \A i \in 1..2 : c[(i % 2) + 1] \in Blockers(c[i])
    <2>1. \A i \in 1..2 : i = 1 \/ i = 2
        OBVIOUS
    <2> HIDE DEF c
    <2> QED
        BY <1>1, <1>2, <1>3, <2>1
<1>5. 2 \in 2..Cardinality(Requests)
    <2>1. IsFiniteSet({r, q}) /\ Cardinality({r, q}) = 2
        <3>1. IsFiniteSet({r}) /\ Cardinality({r}) = 1
            BY FS_Singleton
        <3>2. {r, q} = {r} \cup {q} /\ q \notin {r}
            BY <1>1
        <3>3. IsFiniteSet({r} \cup {q})
              /\ Cardinality({r} \cup {q}) = Cardinality({r}) + 1
            BY <3>1, <3>2, FS_AddElement
        <3> QED
            BY <3>1, <3>2, <3>3
    <2>2. Cardinality({r, q}) <= Cardinality(Requests)
        BY <1>1, RequestsAssumption, FS_Subset
    <2> QED
        BY <2>1, <2>2, RequestsAssumption, FS_CardinalityType
<1> HIDE DEF c
<1> QED
    BY <1>2, <1>4, <1>5 DEF Deadlocked

\* What the guards of Statement(r) come to, apart from the deadlock: it commits,
\* or has the jar's row to itself, or it fails for good, or its insert reaches the index, where it waits if it
\* does not wait yet, or finds that nobody holds the id.
CanGoOn(r) ==
    \/ request[r].pc = "commit"
    \/ request[r].pc = "ping" /\ Sharers(r) = {}
    \/ request[r].pc = "draw" /\ (request[r].broken \/ ~Checked(r))
    \/ \E id \in JarIds \cup ScrollIds :
          AtIndex(r, id) /\ (request[r].pc = "draw" \/ Holders(r, id) = {})

\* As long as creations are under way, one of them can go on, or one is in a
\* circle that the deadlock detector finds.
SomeoneMoves ==
    (\E r \in Requests : Active(r)) =>
        \E r \in Requests : Active(r) /\ (CanGoOn(r) \/ Deadlocked(r))

\* The safety core of CreationsEnd, for any number of creations: who follows
\* the waiting comes to one that can go on or around a circle, and who was let
\* to the index before it waited is let there again after it.
THEOREM NobodyStuck ==
    ASSUME ScrollIds # {}
    PROVE  Spec => []SomeoneMoves
<1>1. ASSUME IInv, NEW r \in Requests, Active(r), Blockers(r) = {}
      PROVE  CanGoOn(r)
    <2>1. CASE request[r].pc = "commit"
        BY <2>1 DEF CanGoOn
    <2>2. CASE request[r].pc = "draw" /\ (request[r].broken \/ ~Checked(r))
        BY <2>2 DEF CanGoOn
    <2>3. CASE request[r].pc = "draw" /\ ~request[r].broken /\ Checked(r)
        <3>1. PICK id \in JarIds \cup ScrollIds : id \in Tried(r)
            BY <2>3 DEF Tried
        <3> QED
            BY <2>3, <3>1 DEF CanGoOn, AtIndex
    <2>4. CASE request[r].pc = "wait"
        <3>1. ~request[r].broken /\ Checked(r)
            BY <1>1, <2>4, Known DEF Shape, Checked, ForJar
        <3>2. request[r].drawn \in JarIds \cup ScrollIds
            BY <1>1, <2>4, Known DEF Shape
        <3>3. request[r].drawn \in Tried(r) /\ Holders(r, request[r].drawn) = {}
            BY <1>1, <2>4 DEF Tried, Blockers
        <3> QED
            BY <3>1, <3>2, <3>3 DEF CanGoOn, AtIndex
    <2>5. CASE request[r].pc = "ping"
        BY <1>1, <2>5 DEF Blockers, CanGoOn
    <2> QED
        BY <1>1, <2>1, <2>2, <2>3, <2>4, <2>5 DEF Active
<1>2. IInv => SomeoneMoves
    BY <1>1, FreeOrInCircle DEF SomeoneMoves
<1> QED
    BY <1>2, CreationSound, PTL
=============================================================================
