---------------------------- MODULE CleanerProofs ----------------------------
(***************************************************************************)
(* The cleaner's loop implements the outline of it in ScrollService, for   *)
(* any number of keys and requests, and any size of a page and of a batch. *)
(***************************************************************************)
EXTENDS Cleaner, FiniteSetTheorems, TLAPS

USE KeyAssumption, SizeAssumption

\* The local variables of a run, well typed and as their position says.
RunOK == run \in Runs /\ RunShape

\* The keys of a page are ids, and so are those of the bucket.
LEMMA PageKeys ==
    \A n \in Nat, S \in SUBSET Scrolls :
        Smallest(n, S) \subseteq S
BY DEF Smallest

\* The bucket has no other keys than those of scrolls.
LEMMA StoredKeys == Service!Stored \in SUBSET Scrolls
BY DEF Service!Stored

\* No run has begun.
LEMMA InitRun == Init => RunOK
BY DEF Init, NoRun, RunOK, Runs, RunShape

\* A step of the cleaner keeps its slices in shape, a step of a request does not
\* touch them.
LEMMA StepRun == RunOK /\ [Next]_vars => RunOK'
<1> SUFFICES ASSUME RunOK, [Next]_vars
             PROVE  RunOK'
    OBVIOUS
<1> USE DEF RunOK, Runs, RunShape, NoRun
<1>1. ASSUME NEW lucky \in BOOLEAN, Start(lucky)  PROVE RunOK'
    <2>1. Orphans \in SUBSET Scrolls
        BY StoredKeys DEF Orphans
    <2> QED
        BY <1>1, <2>1 DEF Start
<1>2. CASE NextPage
    <2> DEFINE ahead == Service!Stored \ run.passed
    <2>5. PICK n \in 1 .. PageSize :
              run' = [run EXCEPT !.page = Smallest(n, ahead),
                                 !.passed = @ \cup UpTo(Smallest(n, ahead)),
                                 !.more = ahead # Smallest(n, ahead)]
        BY <1>2 DEF NextPage
    <2> DEFINE page == Smallest(n, ahead)
               more == ahead # page
    <2>6. page \in SUBSET ahead /\ more \in BOOLEAN
        BY StoredKeys, PageKeys
    <2> HIDE DEF page, more
    <2>1. run' = [run EXCEPT !.page = page,
                             !.passed = @ \cup UpTo(page), !.more = more]
        BY <2>5 DEF page, more
    <2>2. page \subseteq UpTo(page) /\ UpTo(page) \subseteq Scrolls
        BY <2>6, StoredKeys DEF UpTo
    <2>3. /\ run'.page = page /\ run'.batch = run.batch
          /\ run'.passed = run.passed \cup UpTo(page)
          /\ run'.pc = "list" /\ ~run'.final
          /\ run'.doomed = {} /\ run' \in Runs
        BY <1>2, <2>1, <2>2, <2>6, StoredKeys DEF NextPage
    <2> QED
        BY <2>2, <2>3, <2>6
<1>3. CASE TakeKey
    <2> DEFINE key == Smallest(1, run.page)
    <2>1. key \subseteq run.page
        BY PageKeys
    <2>2. /\ run'.page = run.page \ key
          /\ run'.batch = run.batch \cup key
          /\ run'.passed = run.passed /\ run'.doomed = run.doomed
          /\ run.doomed = {} /\ run' \in Runs /\ ~run'.final
          /\ \/ run'.pc = "list"
             \/ run'.pc = "query" /\ Cardinality(run'.batch) = BatchSize
        BY <1>3, <2>1 DEF TakeKey
    <2>3. run'.pc = "query" => run'.batch # {}
        BY <2>2, FS_EmptySet
    <2> QED
        BY <2>1, <2>2, <2>3
<1>4. CASE EndListing
    BY <1>4 DEF EndListing
<1>5. CASE Query
    BY <1>5 DEF Query
<1>6. CASE QueryFails
    BY <1>6 DEF QueryFails
<1>7. CASE DeleteBatch
    <2>1. PICK D : DeleteKeys(D)
        BY <1>7 DEF DeleteBatch
    <2> DEFINE due == IF D = run.doomed THEN run.due \ D ELSE {}
    <2>2. due \in SUBSET Scrolls /\ run.batch = {} /\ run.pc = "delete"
        BY <2>1 DEF DeleteKeys
    <2> HIDE DEF due
    <2>3. \/ run.final /\ run' = [NoRun EXCEPT !.due = due]
          \/ ~run.final /\ run' = [run EXCEPT !.pc = "list", !.doomed = {},
                                              !.due = due]
        BY <2>1 DEF DeleteKeys, due
    <2>4. run'.page = run.page /\ run'.batch = {} /\ run'.doomed = {}
        BY <2>2, <2>3
    <2>5. /\ run' \in Runs
          /\ run'.pc \in {"idle", "list"} /\ ~run'.final
          /\ run'.pc = "idle" => run'.page = {} /\ ~run'.more
          /\ run'.page \subseteq run'.passed
        BY <2>2, <2>3
    <2> QED
        BY <2>4, <2>5
<1>8. CASE Stop
    BY <1>8 DEF Stop
<1>9. CASE UNCHANGED run
    BY <1>9
<1> QED
    BY <1>1, <1>2, <1>3, <1>4, <1>5, <1>6, <1>7, <1>8, <1>9
    DEF Next, RunNext, vars

\* Every step is a step of ScrollService, or changes nothing there.
LEMMA ServiceStep ==
    RunOK /\ [Next]_vars => [Service!Next]_(Service!vars)
<1> SUFFICES ASSUME RunOK, [Next]_vars
             PROVE  [Service!Next]_(Service!vars)
    OBVIOUS
<1> USE DEF Service!Next, Service!CleanerNext
<1>1. run \in Runs /\ RunShape
    BY DEF RunOK
<1>2. ASSUME UNCHANGED <<jar, scroll, bucket, token, request, acked>>,
             Held' = Held
      PROVE  UNCHANGED Service!vars
    BY <1>2 DEF Service!vars
<1>3. ASSUME NEW lucky \in BOOLEAN, Start(lucky)
      PROVE  UNCHANGED Service!vars
    <2>1. Held' = Held
        BY <1>1, <1>3 DEF Start, Held, NoRun, RunShape
    <2> QED
        BY <1>2, <1>3, <2>1 DEF Start, Tables
<1>4. CASE NextPage
    <2>1. PICK page \in SUBSET Service!Stored :
              /\ run'.page = page /\ run'.batch = run.batch
              /\ run'.doomed = run.doomed
        BY <1>1, <1>4, PageKeys, StoredKeys DEF NextPage, Runs
    <2>2. run.page = {} /\ run.doomed = {}
        BY <1>1, <1>4 DEF NextPage, RunShape
    <2>3. Held' = [Held EXCEPT !.batch = Held.batch \cup page]
        <3>1. Held' = [batch |-> page \cup run.batch, doomed |-> run.doomed]
            BY <2>1 DEF Held
        <3>2. [Held EXCEPT !.batch = Held.batch \cup page]
                 = [batch |-> Held.batch \cup page, doomed |-> run.doomed]
            BY DEF Held
        <3>3. Held.batch = run.batch
            BY <2>2 DEF Held
        <3>4. page \cup run.batch = Held.batch \cup page
            BY <3>3
        <3> QED
            BY <3>1, <3>2, <3>4
    <2>4. UNCHANGED <<jar, scroll, bucket, token, request, acked>>
        BY <1>4 DEF NextPage, Tables
    <2>5. CASE page = {}
        BY <1>2, <2>3, <2>4, <2>5 DEF Held
    <2>6. CASE page # {}
        <3>1. Held.doomed = {}
            BY <2>2 DEF Held
        <3> QED
            <4>1. \E B \in (SUBSET Service!Stored) \ {{}} :
                     Held' = [Held EXCEPT !.batch = Held.batch \cup B]
                <5>1. page \in (SUBSET Service!Stored) \ {{}}
                    BY <2>6, Zenon
                <5> QED
                    BY <2>3, <5>1, Zenon
            <4> QED
                BY <2>4, <3>1, <4>1 DEF Service!CleanerList
    <2> QED
        BY <2>5, <2>6
<1>5. CASE TakeKey
    <2>1. Smallest(1, run.page) \subseteq run.page
        BY <1>1, PageKeys DEF Runs
    <2>2. /\ run'.page = run.page \ Smallest(1, run.page)
          /\ run'.batch = run.batch \cup Smallest(1, run.page)
          /\ run'.doomed = run.doomed
        BY <1>1, <1>5 DEF TakeKey, Runs
    <2>3. Held' = Held
        BY <2>1, <2>2 DEF Held
    <2> QED
        BY <1>2, <1>5, <2>3 DEF TakeKey, Tables
<1>6. CASE EndListing
    <2>1. /\ run'.page = run.page /\ run'.batch = run.batch
          /\ run'.doomed = run.doomed
        BY <1>1, <1>6 DEF EndListing, Runs, NoRun, RunShape
    <2> QED
        BY <1>2, <1>6, <2>1 DEF EndListing, Tables, Held
<1>7. CASE Query
    <2>1. /\ run'.page = run.page /\ run'.batch = {}
          /\ run'.doomed = {s \in run.batch : ~Service!IsRow(s)}
          /\ run.doomed = {} /\ run.batch # {}
        BY <1>1, <1>7 DEF Query, Runs, RunShape
    <2>2. Held.batch \ run.batch = run.page /\ Held.doomed = {}
        BY <1>1, <2>1 DEF Held, RunShape
    <2>3. Held' = [batch |-> Held.batch \ run.batch,
                   doomed |-> {s \in run.batch : ~Service!IsRow(s)}]
        BY <2>1, <2>2 DEF Held
    <2>4. run.batch \in (SUBSET Held.batch) \ {{}}
        <3>1. run.batch \subseteq Held.batch
            BY DEF Held
        <3> QED
            BY <2>1, <3>1, Zenon
    <2> QED
        BY <1>7, <2>2, <2>3, <2>4 DEF Query, Tables, Service!CleanerQuery
<1>8. CASE QueryFails
    <2>1. /\ run'.page = run.page /\ run'.batch = run.batch
          /\ run'.doomed = run.doomed
        BY <1>1, <1>8 DEF QueryFails, Runs
    <2> QED
        BY <1>2, <1>8, <2>1 DEF QueryFails, Tables, Held
<1>9. CASE DeleteBatch
    <2>1. PICK D \in SUBSET run.doomed : DeleteKeys(D)
        BY <1>9 DEF DeleteBatch, Deletable
    <2>2. /\ run'.page = run.page /\ run'.batch = run.batch
          /\ run'.doomed = {}
        BY <1>1, <2>1 DEF DeleteKeys, Runs, RunShape, NoRun
    <2>3. Held' = [Held EXCEPT !.doomed = {}] /\ Held.doomed = run.doomed
        BY <2>2 DEF Held
    <2> QED
        BY <2>1, <2>3 DEF DeleteKeys, Tables, Service!CleanerDelete
<1>10. CASE Stop
    <2>1. Held' = Service!CleanerIdle
        BY <1>10 DEF Stop, Held, NoRun, Service!CleanerIdle
    <2>2. UNCHANGED <<jar, scroll, bucket, token, request, acked>>
        BY <1>10 DEF Stop, Tables
    <2> QED
        BY <1>2, <2>1, <2>2 DEF Service!CleanerStop
<1>11. CASE Service!RequestNext
    BY <1>11
<1>12. CASE UNCHANGED vars
    BY <1>2, <1>12 DEF vars, Held
<1> QED
    BY <1>3, <1>4, <1>5, <1>6, <1>7, <1>8, <1>9, <1>10, <1>11, <1>12
    DEF Next, RunNext

\* The page and the slices are always as the position of the run says: the part of
\* TypeOK that is about main; the tables are those of ScrollService.
THEOREM RunsHold == Spec => []RunOK
BY InitRun, StepRun, PTL DEF Spec

\* Beside the requests, the cleaner does nothing that ScrollService rules out:
\* what holds of its outline there, PublishedHasObject among it, holds of it.
THEOREM Implements == Spec => ImplementsService
<1>1. Init => Service!Init
    BY DEF Init
<1> QED
    BY <1>1, RunsHold, ServiceStep, PTL DEF Spec, ImplementsService, Service!Spec

-----------------------------------------------------------------------------
(* Nothing is forgotten *)

\* As much of Service!TypeOK as the next lemmas need.
Carried ==
    /\ DOMAIN scroll = Scrolls /\ DOMAIN bucket = Scrolls
    /\ DOMAIN request = Requests
    /\ \A r \in Requests :
          /\ {"op", "pc", "content"} \subseteq DOMAIN request[r]
          /\ request[r].op = "upload" => request[r].content \in Contents

\* A deleted row does not come back, and no request removes an object.
OrphansKept ==
    \A s \in Scrolls :
        /\ scroll[s].state = "deleted" => scroll'[s].state = "deleted"
        /\ bucket[s] # None => bucket'[s] # None

\* A request keeps the deleted rows deleted and takes nothing from the bucket.
LEMMA RequestWrites ==
    ASSUME Carried, Service!RequestNext
    PROVE  OrphansKept /\ DOMAIN scroll' = Scrolls /\ DOMAIN bucket' = Scrolls
<1> DEFINE Kept == /\ OrphansKept
                   /\ DOMAIN scroll' = Scrolls /\ DOMAIN bucket' = Scrolls
<1>1. ASSUME UNCHANGED <<scroll, bucket>>  PROVE Kept
    BY <1>1 DEF Carried, OrphansKept
<1>2. ASSUME NEW j, NEW S, NEW user, NEW state, NEW m,
             Service!CreateJar(j, S, user, state, m)
      PROVE  Kept
    BY <1>2 DEF Carried, OrphansKept, Service!CreateJar, Service!NewScroll
<1>3. ASSUME NEW j, Service!ExpireJar(j)  PROVE Kept
    BY <1>1, <1>3 DEF Service!ExpireJar
<1>4. ASSUME NEW s, NEW kind, Service!ExpireToken(s, kind)  PROVE Kept
    BY <1>1, <1>4 DEF Service!ExpireToken
<1>5. ASSUME NEW r, NEW op, NEW user, NEW s, NEW input,
             Service!StartScrollRequest(r, op, user, s, input)
      PROVE  Kept
    BY <1>1, <1>5 DEF Service!StartScrollRequest
<1>6. ASSUME NEW r, NEW op, NEW user, NEW j, NEW input,
             Service!StartJarRequest(r, op, user, j, input)
      PROVE  Kept
    BY <1>1, <1>6 DEF Service!StartJarRequest
<1>7. ASSUME NEW r, NEW s, Service!CreateWrite(r, s)  PROVE Kept
    BY <1>7 DEF Carried, OrphansKept, Service!CreateWrite
<1>8. ASSUME NEW r, NEW s, Service!FetchStart(r, s)  PROVE Kept
    BY <1>1, <1>8 DEF Service!FetchStart
<1>9. ASSUME NEW r, NEW s, NEW c, Service!UploadStart(r, s, c)  PROVE Kept
    BY <1>1, <1>9 DEF Service!UploadStart
<1>10. ASSUME NEW r, Service!PatchApply(r) \/ Service!UploadPublish(r)
       PROVE  Kept
    BY <1>10 DEF Carried, OrphansKept, Service!PatchApply, Service!UploadPublish,
                 Service!Matches, Service!IsRow
<1>11. ASSUME NEW r, Service!DeleteWrite(r) \/ Service!DeleteJarWrite(r)
       PROVE  Kept
    <2>1. Service!GoneScroll.state = "deleted"
        BY DEF Service!GoneScroll, Service!FreeScroll
    <2>2. ASSUME NEW S, Service!RemoveRows(S), UNCHANGED bucket  PROVE Kept
        BY <2>1, <2>2 DEF Carried, OrphansKept, Service!RemoveRows
    <2> QED
        BY <1>11, <2>2 DEF Service!DeleteWrite, Service!DeleteJarWrite
<1>12. ASSUME NEW r \in Requests, Service!UploadStream(r)  PROVE Kept
    <2>1. request[r].content # None
        BY <1>12, NoneAssumption DEF Carried, Service!UploadStream, Service!At
    <2> QED
        BY <1>12, <2>1 DEF Carried, OrphansKept, Service!UploadStream
<1>13. ASSUME NEW r, \/ Service!Authorize(r) \/ Service!PatchConflict(r)
                     \/ Service!UploadConflict(r) \/ Service!FetchURL(r)
                     \/ Service!FetchObject(r) \/ Service!Abandon(r)
       PROVE  Kept
    BY <1>1, <1>13
    DEF Service!Authorize, Service!PatchConflict, Service!UploadConflict,
        Service!FetchURL, Service!FetchObject, Service!Abandon
<1> QED
    BY <1>2, <1>3, <1>4, <1>5, <1>6, <1>7, <1>8, <1>9, <1>10, <1>11, <1>12,
       <1>13, Zenon DEF Service!RequestNext

\* A request that starts or goes on carries what it needs.
LEMMA RequestCarries ==
    ASSUME Carried, Service!RequestNext
    PROVE  Carried'
<1> DEFINE Good == /\ DOMAIN request' = Requests
                   /\ \A r \in Requests :
                        /\ {"op", "pc", "content"} \subseteq DOMAIN request'[r]
                        /\ request'[r].op = "upload" =>
                              request'[r].content \in Contents
<1>1. ASSUME UNCHANGED request  PROVE Good
    BY <1>1 DEF Carried
<1>2. ASSUME NEW r, NEW q, request' = [request EXCEPT ![r] = q],
             {"op", "pc", "content"} \subseteq DOMAIN q,
             q.op = "upload" => q.content \in Contents
      PROVE  Good
    BY <1>2 DEF Carried
<1>3. ASSUME NEW r, Service!Finish(r)  PROVE Good
    BY <1>2, <1>3 DEF Service!Finish, Service!Idle
<1>4. ASSUME NEW r, NEW pc, Service!Goto(r, pc)  PROVE Good
    BY <1>4 DEF Carried, Service!Goto
<1>5. ASSUME NEW r, NEW op \in {"patch", "delete"}, NEW user, NEW s, NEW input,
             Service!StartScrollRequest(r, op, user, s, input)
      PROVE  Good
    BY <1>2, <1>5 DEF Service!StartScrollRequest
<1>6. ASSUME NEW r, NEW op \in {"create", "deleteJar"}, NEW user, NEW j,
             NEW input, Service!StartJarRequest(r, op, user, j, input)
      PROVE  Good
    BY <1>2, <1>6 DEF Service!StartJarRequest, Service!Idle
<1>7. ASSUME NEW r, NEW s, Service!FetchStart(r, s)  PROVE Good
    BY <1>2, <1>7 DEF Service!FetchStart, Service!Idle
<1>8. ASSUME NEW r, NEW s, NEW c \in Contents, Service!UploadStart(r, s, c)
      PROVE  Good
    BY <1>2, <1>8 DEF Service!UploadStart, Service!Idle
<1>9. ASSUME NEW r, \/ Service!Authorize(r) \/ Service!UploadStream(r)
                    \/ Service!FetchURL(r) \/ Service!FetchObject(r)
                    \/ Service!PatchApply(r) \/ Service!PatchConflict(r)
                    \/ Service!DeleteWrite(r) \/ Service!DeleteJarWrite(r)
                    \/ Service!UploadPublish(r) \/ Service!UploadConflict(r)
                    \/ Service!Abandon(r) \/ \E s : Service!CreateWrite(r, s)
      PROVE  Good
    BY <1>3, <1>4, <1>9
    DEF Service!Authorize, Service!UploadStream, Service!FetchURL,
        Service!FetchObject, Service!PatchApply, Service!PatchConflict,
        Service!DeleteWrite, Service!DeleteJarWrite, Service!UploadPublish,
        Service!UploadConflict, Service!Abandon, Service!CreateWrite
<1>10. ASSUME \/ \E j, S, user, state, m :
                    Service!CreateJar(j, S, user, state, m)
              \/ \E j : Service!ExpireJar(j)
              \/ \E s, kind : Service!ExpireToken(s, kind)
       PROVE  Good
    BY <1>1, <1>10
    DEF Service!CreateJar, Service!ExpireJar, Service!ExpireToken
<1>11. Good
    BY <1>5, <1>6, <1>7, <1>8, <1>9, <1>10, Zenon DEF Service!RequestNext
<1> QED
    BY <1>11, RequestWrites DEF Carried

\* A key that a page does not name, with room on the page or not, lies behind
\* all of its keys: the next page begins before it.
LEMMA PageIsFirst ==
    ASSUME NEW n \in Nat, NEW S \in SUBSET Scrolls,
           NEW s \in S \ Smallest(n, S)
    PROVE  s \notin UpTo(Smallest(n, S))
<1> SUFFICES ASSUME NEW x \in Smallest(n, S), s <= x  PROVE FALSE
    BY DEF UpTo
<1> DEFINE low(y) == {z \in S : z <= y}
<1>1. x \in S /\ Cardinality(low(x)) <= n /\ x \in Nat /\ s \in Nat
    BY DEF Smallest
<1>2. IsFiniteSet(low(x))
    <2>1. ASSUME NEW z \in low(x)  PROVE z \in 1 .. x
        <3>1. z \in Nat \ {0} /\ z <= x
            BY <2>1
        <3> QED
            BY <1>1, <3>1
    <2>2. IsFiniteSet(1 .. x)
        BY <1>1, FS_Interval
    <2> QED
        BY <2>1, <2>2, FS_Subset
<1>3. ASSUME NEW z \in low(s)  PROVE z \in low(x)
    <2>1. z \in S /\ z \in Nat /\ z <= s
        BY <1>3
    <2> QED
        BY <1>1, <2>1
<1>4. /\ Cardinality(low(s)) <= Cardinality(low(x))
      /\ Cardinality(low(s)) \in Nat /\ Cardinality(low(x)) \in Nat
    BY <1>2, <1>3, FS_Subset, FS_CardinalityType
<1>5. Cardinality(low(s)) <= n
    BY <1>1, <1>4
<1> QED
    BY <1>5 DEF Smallest

\* What a run owes are orphans, each of them still to come or in a slice.
Owing ==
    /\ run.due \subseteq Orphans
    /\ NothingForgotten
    /\ run.final => ~run.more

\* A step of the cleaner passes what it owes on to where it deals with it later.
LEMMA OwingStep ==
    Carried /\ RunOK /\ Owing /\ [Next]_vars => Owing'
<1> SUFFICES ASSUME Carried, RunOK, Owing, [Next]_vars
             PROVE  Owing'
    OBVIOUS
<1>1. run \in Runs /\ RunShape
    BY DEF RunOK
<1>2. /\ run.due \subseteq Orphans /\ (run.final => ~run.more)
      /\ \A s \in run.due :
            \/ s \in run.page \cup run.batch \cup run.doomed
            \/ run.more /\ s \notin run.passed
    BY DEF Owing, NothingForgotten, Ahead
<1>3. ASSUME UNCHANGED <<Tables, bucket>>  PROVE Orphans' = Orphans
    BY <1>3 DEF Tables, Orphans, Service!Stored
<1>4. ASSUME NEW lucky \in BOOLEAN, Start(lucky)  PROVE Owing'
    <2>1. /\ run'.due = Orphans /\ run'.more = TRUE /\ run'.passed = {}
          /\ run'.final = FALSE /\ Orphans' = Orphans
        BY <1>3, <1>4 DEF Start, NoRun
    <2> QED
        BY <2>1 DEF Owing, NothingForgotten, Ahead
<1>5. CASE NextPage
    <2> DEFINE ahead == Service!Stored \ run.passed
    <2>1. PICK n \in 1 .. PageSize :
              run' = [run EXCEPT !.page = Smallest(n, ahead),
                                 !.passed = @ \cup UpTo(Smallest(n, ahead)),
                                 !.more = ahead # Smallest(n, ahead)]
        BY <1>5 DEF NextPage
    <2> DEFINE page == Smallest(n, ahead)
    <2>2. /\ run'.page = page /\ run'.passed = run.passed \cup UpTo(page)
          /\ run'.more = (ahead # page) /\ run'.due = run.due
          /\ run'.batch = run.batch /\ run'.doomed = run.doomed
          /\ run'.final = run.final /\ Orphans' = Orphans
        BY <1>1, <1>3, <1>5, <2>1 DEF Runs, NextPage
    <2>3. run.page = {} /\ run.more /\ ~run.final
        BY <1>2, <1>5 DEF NextPage
    <2>4. \A s \in ahead \ page : s \notin UpTo(page)
        BY StoredKeys, PageIsFirst
    <2>5. run.due \subseteq Service!Stored
        BY <1>2 DEF Orphans
    <2> HIDE DEF page
    <2> QED
        BY <1>2, <2>2, <2>3, <2>4, <2>5 DEF Owing, NothingForgotten, Ahead
<1>6. CASE TakeKey
    <2>1. /\ run'.page = run.page \ Smallest(1, run.page)
          /\ run'.batch = run.batch \cup Smallest(1, run.page)
          /\ run'.more = run.more /\ run'.passed = run.passed
          /\ run'.due = run.due /\ run'.doomed = run.doomed
          /\ run'.final = run.final /\ Orphans' = Orphans
        BY <1>1, <1>3, <1>6 DEF TakeKey, Runs
    <2> QED
        BY <1>2, <2>1 DEF Owing, NothingForgotten, Ahead
<1>7. CASE EndListing
    <2>1. /\ run.page = {} /\ ~run.more /\ run.doomed = {}
          /\ Orphans' = Orphans
        BY <1>1, <1>3, <1>7 DEF EndListing, RunShape
    <2>2. /\ run'.due = run.due /\ run'.more = FALSE
          /\ run.batch # {} => run'.batch = run.batch
        BY <1>1, <1>7, <2>1 DEF EndListing, NoRun, Runs
    <2> QED
        BY <1>2, <2>1, <2>2 DEF Owing, NothingForgotten, Ahead
<1>8. CASE Query
    <2>1. /\ run'.page = run.page /\ run'.more = run.more
          /\ run'.passed = run.passed /\ run'.due = run.due
          /\ run'.doomed = {s \in run.batch : ~Service!IsRow(s)}
          /\ run'.final = run.final /\ Orphans' = Orphans
          /\ run.doomed = {}
        BY <1>1, <1>3, <1>8 DEF Query, Runs, RunShape
    <2>2. \A s \in run.due : ~Service!IsRow(s)
        BY <1>2 DEF Orphans, Service!IsRow
    <2> QED
        BY <1>2, <2>1, <2>2 DEF Owing, NothingForgotten, Ahead
<1>9. CASE QueryFails
    <2>1. /\ run'.page = run.page /\ run'.more = run.more
          /\ run'.passed = run.passed /\ run'.due = run.due
          /\ run'.doomed = run.doomed /\ run'.batch = run.batch
          /\ run'.final = run.final /\ Orphans' = Orphans
        BY <1>1, <1>3, <1>9 DEF QueryFails, Runs
    <2> QED
        BY <1>2, <2>1 DEF Owing, NothingForgotten, Ahead
<1>10. CASE DeleteBatch
    <2>1. PICK D \in SUBSET run.doomed : DeleteKeys(D)
        BY <1>10 DEF DeleteBatch, Deletable
    <2> DEFINE due == IF D = run.doomed THEN run.due \ D ELSE {}
    <2>2. /\ due \subseteq run.due \ D /\ (due # {} => D = run.doomed)
          /\ due \subseteq Scrolls
        BY <1>1 DEF Runs
    <2>3. run'.due = due /\ run.batch = {}
        BY <1>1, <2>1 DEF DeleteKeys, NoRun, Runs, RunShape
    <2>4. due \subseteq Orphans'
        <3>1. /\ scroll' = scroll
              /\ bucket' = [s \in Scrolls |-> IF s \in D THEN None ELSE bucket[s]]
            BY <2>1 DEF DeleteKeys, Tables
        <3> QED
            BY <1>2, <2>2, <3>1 DEF Orphans, Service!Stored
    <2> HIDE DEF due
    <2>5. CASE run.final
        <3>1. due = {}
            BY <1>1, <1>2, <2>2, <2>3, <2>5 DEF RunShape
        <3>2. run'.final = FALSE
            BY <2>1, <2>5 DEF DeleteKeys, NoRun
        <3> QED
            BY <2>3, <3>1, <3>2 DEF Owing, NothingForgotten
    <2>6. CASE ~run.final
        <3>1. /\ run'.page = run.page /\ run'.more = run.more
              /\ run'.passed = run.passed /\ run'.final = run.final
            BY <1>1, <2>1, <2>6 DEF DeleteKeys, Runs
        <3> QED
            BY <1>2, <2>2, <2>3, <2>4, <2>6, <3>1
            DEF Owing, NothingForgotten, Ahead
    <2> QED
        BY <2>5, <2>6
<1>11. CASE Stop
    BY <1>11 DEF Stop, NoRun, Owing, NothingForgotten
<1>12. CASE UNCHANGED run /\ Service!RequestNext
    <2>1. Orphans \subseteq Orphans'
        BY <1>12, RequestWrites DEF Orphans, OrphansKept, Service!Stored
    <2> QED
        BY <1>2, <1>12, <2>1 DEF Owing, NothingForgotten, Ahead
<1>13. CASE UNCHANGED vars
    BY <1>2, <1>13
    DEF vars, Owing, NothingForgotten, Ahead, Orphans, Service!Stored
<1> QED
    BY <1>4, <1>5, <1>6, <1>7, <1>8, <1>9, <1>10, <1>11, <1>12, <1>13
    DEF Next, RunNext

\* The cleaner keeps the tables' shape, and so do the requests.
LEMMA CarriedStep ==
    Carried /\ [Next]_vars => Carried'
<1> SUFFICES ASSUME Carried, [Next]_vars  PROVE Carried'
    OBVIOUS
<1>1. CASE Service!RequestNext
    BY <1>1, RequestCarries
<1>2. ASSUME UNCHANGED <<Tables, bucket>>  PROVE Carried'
    BY <1>2 DEF Tables, Carried
<1>3. CASE DeleteBatch
    BY <1>3 DEF DeleteBatch, DeleteKeys, Tables, Carried
<1> QED
    BY <1>1, <1>2, <1>3
    DEF Next, RunNext, Start, NextPage, TakeKey, EndListing, Query,
        QueryFails, Stop, vars, Tables

\* Whatever the sizes of pages and slices, and whatever fails or comes late: a
\* run forgets no orphan that was there when it began.
THEOREM NoneForgotten == Spec => []NothingForgotten
<1>1. Init => Carried /\ Owing
    BY DEF Init, NoRun, Owing, NothingForgotten, Carried, Service!Init,
           Service!Idle
<1>2. Owing => NothingForgotten
    BY DEF Owing
<1> QED
    BY <1>1, <1>2, InitRun, StepRun, CarriedStep, OwingStep, PTL DEF Spec

-----------------------------------------------------------------------------
(* What is proved of the service holds with this cleaner *)

\* The theorems about ScrollService, for the tables that this cleaner shares
\* with it.
Proved == INSTANCE ScrollServiceProofs WITH cleaner <- Held

\* Proved has a copy of every definition of ScrollService: both say the same.
LEMMA SameService == Spec => Proved!Spec
<1>1. Service!Init => Proved!Init
    BY DEF Service!Init, Service!Idle, Service!Blank, Service!Fields,
            Service!CleanerIdle, Service!FreeJar, Service!FreeScroll,
            Proved!Init, Proved!Idle, Proved!Blank, Proved!Fields,
            Proved!CleanerIdle, Proved!FreeJar, Proved!FreeScroll
<1>2. Service!Next => Proved!Next
    BY Zenon
    DEF Service!Fields, Service!Metadata, Service!Blank, Service!LiveStates,
        Service!RowStates, Service!FreeScroll, Service!GoneScroll,
        Service!NewScroll, Service!Touched, Service!Edited, Service!Published,
        Service!Idle, Service!CleanerIdle, Service!JarRowExists,
        Service!JarLive, Service!IsRow, Service!ScrollsOf, Service!Found,
        Service!Matches, Service!At, Service!Finish, Service!Goto,
        Service!Deliver, Service!RemoveRows, Service!NewJar, Service!GoneJar,
        Service!CreateJar, Service!ExpireJar, Service!ExpireToken,
        Service!StartScrollRequest, Service!StartJarRequest,
        Service!IsJarCreator, Service!Authorize, Service!Patched,
        Service!PatchApply, Service!PatchConflict, Service!DeleteWrite,
        Service!DeleteJarWrite, Service!CreateWrite, Service!UploadStart,
        Service!UploadStream, Service!UploadPublish, Service!UploadConflict,
        Service!FetchStart, Service!FetchURL, Service!FetchObject,
        Service!Abandon, Service!Stored, Service!CleanerList,
        Service!CleanerQuery, Service!CleanerDelete, Service!CleanerStop,
        Service!RequestNext, Service!CleanerNext, Service!Next,
        Service!Cardinality, Proved!Fields, Proved!Metadata, Proved!Blank,
        Proved!LiveStates, Proved!RowStates, Proved!FreeScroll,
        Proved!GoneScroll, Proved!NewScroll, Proved!Touched, Proved!Edited,
        Proved!Published, Proved!Idle, Proved!CleanerIdle,
        Proved!JarRowExists, Proved!JarLive, Proved!IsRow, Proved!ScrollsOf,
        Proved!Found, Proved!Matches, Proved!At, Proved!Finish, Proved!Goto,
        Proved!Deliver, Proved!RemoveRows, Proved!NewJar, Proved!GoneJar,
        Proved!CreateJar, Proved!ExpireJar, Proved!ExpireToken,
        Proved!StartScrollRequest, Proved!StartJarRequest,
        Proved!IsJarCreator, Proved!Authorize, Proved!Patched,
        Proved!PatchApply, Proved!PatchConflict, Proved!DeleteWrite,
        Proved!DeleteJarWrite, Proved!CreateWrite, Proved!UploadStart,
        Proved!UploadStream, Proved!UploadPublish, Proved!UploadConflict,
        Proved!FetchStart, Proved!FetchURL, Proved!FetchObject,
        Proved!Abandon, Proved!Stored, Proved!CleanerList,
        Proved!CleanerQuery, Proved!CleanerDelete, Proved!CleanerStop,
        Proved!RequestNext, Proved!CleanerNext, Proved!Next,
        Proved!Cardinality
<1>3. Service!vars = Proved!vars /\ Service!vars' = Proved!vars'
    BY DEF Service!vars, Proved!vars
<1>4. [Service!Next]_(Service!vars) => [Proved!Next]_(Proved!vars)
    BY <1>2, <1>3
<1> QED
    BY <1>1, <1>4, Implements, PTL
    DEF ImplementsService, Service!Spec, Proved!Spec

\* The tables and the cleaner's run always have their types.
THEOREM TypesHold == Spec => []TypeOK
<1>1. Spec => []Proved!TypeOK
    BY SameService, Proved!TypeCorrect, NoneAssumption, BoundAssumption, PTL
<1>2. Proved!TypeOK => Service!TypeOK
    BY Zenon
    DEF Service!TypeOK, Service!JarRows, Service!ScrollRows,
        Service!RequestRecords, Service!CleanerRecords, Service!Metadata,
        Service!Fields, Service!JarStates, Service!RowStates,
        Service!LiveStates, Service!Ops, Proved!TypeOK, Proved!JarRows,
        Proved!ScrollRows, Proved!RequestRecords, Proved!CleanerRecords,
        Proved!Metadata, Proved!Fields, Proved!JarStates, Proved!RowStates,
        Proved!LiveStates, Proved!Ops
<1> QED
    BY <1>1, <1>2, RunsHold, PTL DEF TypeOK, RunOK

\* However the cleaner's pages, slices, late answers and failures fall among
\* uploads and deletions: a row that is marked uploaded has an object.
THEOREM PublishedSafe == Spec => []Service!PublishedHasObject
<1>1. Spec => []Proved!PublishedHasObject
    BY SameService, Proved!PublishedSafe, NoneAssumption, BoundAssumption, PTL
<1>2. Proved!PublishedHasObject => Service!PublishedHasObject
    BY DEF Service!PublishedHasObject, Service!IsRow,
           Proved!PublishedHasObject, Proved!IsRow
<1> QED
    BY <1>1, <1>2, PTL

\* A URL that a reader holds while the loop runs leads to an object, as long
\* as the row is there.
THEOREM UrlsFindObjects == Spec => []Service!UrlFindsObject
<1>1. Spec => []Proved!UrlFindsObject
    BY SameService, Proved!UrlsFindObjects, NoneAssumption, BoundAssumption, PTL
<1>2. Proved!UrlFindsObject => Service!UrlFindsObject
    BY DEF Service!UrlFindsObject, Service!At, Service!IsRow,
           Proved!UrlFindsObject, Proved!At, Proved!IsRow
<1> QED
    BY <1>1, <1>2, PTL

\* DeleteBatch takes no object but those of scrolls that are deleted for good,
\* although the listing and the answer of the query are old by then.
THEOREM OnlyOrphansDeleted == Spec => Service!CleanerDeletesOnlyOrphans
<1> DEFINE OrphansOnly ==
             \A s \in Scrolls : bucket[s] # None /\ bucket'[s] = None =>
                 scroll[s].state = "deleted" /\ scroll'[s].state = "deleted"
<1>1. Spec => Proved!CleanerDeletesOnlyOrphans
    BY SameService, Proved!OnlyOrphansDeleted, NoneAssumption,
       BoundAssumption, PTL
<1>2. [OrphansOnly]_(Proved!vars) => [OrphansOnly]_(Service!vars)
    BY DEF Service!vars, Proved!vars
<1> QED
    BY <1>1, <1>2, PTL
    DEF Service!CleanerDeletesOnlyOrphans, Proved!CleanerDeletesOnlyOrphans

\* Two refinements make one: the loop, page by page and slice by slice, implements
\* PasteStore, in which storage is reclaimed only after its paste was removed.
THEOREM ImplementsPastes == Spec => Service!ImplementsStore
<1>1. Spec => Proved!ImplementsStore
    BY SameService, Proved!Implements, NoneAssumption, BoundAssumption, PTL
<1>2. Proved!Store!StoreInit => Service!Store!StoreInit
    BY DEF Service!Stage, Service!IsRow, Service!Stored,
           Service!Store!StoreInit, Proved!Stage, Proved!IsRow, Proved!Stored,
           Proved!Store!StoreInit
<1>3. [Proved!Store!StoreNext]_(Proved!Store!storeVars) =>
          [Service!Store!StoreNext]_(Service!Store!storeVars)
    BY DEF Service!Stage, Service!IsRow, Service!Stored,
           Service!Store!StoreNext, Service!Store!storeVars,
           Service!Store!Reserve, Service!Store!Publish, Service!Store!Remove,
           Service!Store!Move, Service!Store!StoreContent,
           Service!Store!Reclaim, Proved!Stage, Proved!IsRow, Proved!Stored,
           Proved!Store!StoreNext, Proved!Store!storeVars,
           Proved!Store!Reserve, Proved!Store!Publish, Proved!Store!Remove,
           Proved!Store!Move, Proved!Store!StoreContent, Proved!Store!Reclaim
<1> QED
    BY <1>1, <1>2, <1>3, PTL
    DEF Service!ImplementsStore, Proved!ImplementsStore,
        Service!Store!StoreSpec, Proved!Store!StoreSpec
=============================================================================
