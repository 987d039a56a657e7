-------------------------- MODULE ApiServerProofs --------------------------
(***************************************************************************)
(* The server process, for any number of connections and hosts: how far    *)
(* apart full token buckets are, and what a shutdown waits for.            *)
(***************************************************************************)
EXTENDS ApiServer, TLAPS

USE NoneAssumption, BoundAssumption

-----------------------------------------------------------------------------
(* The inductive invariant *)

LastBurst(h) == bursts[h][Len(bursts[h])]

\* A limiter is as old as the last burst; without one, that was long ago.
LimiterKnown ==
    \A h \in Hosts :
        /\ clients[h] # None => bursts[h] # <<>> /\ clients[h] = LastBurst(h)
        /\ bursts[h] # <<>> => LastBurst(h) <= clock
        /\ clients[h] = None /\ bursts[h] # <<>> =>
              clock - LastBurst(h) > MaxIdle

\* Behind the drained listener there is no request, and the pool is closed last.
PoolLast ==
    /\ server \in {"drained", "stopped"} => \A r \in Requests : ~Serving(r)
    /\ pool = "closed" => server = "stopped"

\* wg.Wait waits for somebody: the task that ends last wakes it.
WaitsForTask == server = "waiting" => ~Quiet

\* A request that is being served is one of a host.
HostKnown == \A r \in Requests : Serving(r) => request[r].host \in Hosts

IInv ==
    /\ TypeOK
    /\ HostKnown
    /\ LimiterKnown
    /\ BurstsFarApart
    /\ PoolLast
    /\ WaitsForTask
    /\ EarlyTasksEnd

-----------------------------------------------------------------------------
(* Each part is kept *)

\* A server that starts has no requests, no limiters and no tasks.
LEMMA AtStart ==
    Init => IInv
<1> SUFFICES ASSUME Init  PROVE IInv
    OBVIOUS
<1>1. TypeOK /\ HostKnown
    <2>1. Idle \in RequestRecords
        BY DEF Idle, RequestRecords
    <2>2. NoTask \in [left : 0..Tries, early : BOOLEAN]
        BY DEF NoTask
    <2>3. \A h \in Hosts : <<>> \in Seq(Nat)
        OBVIOUS
    <2>4. \A r \in Requests : ~Serving(r)
        BY DEF Init, Serving, Idle
    <2>5. /\ clock = 0 /\ server = "serving" /\ late = FALSE /\ pool = "open"
          /\ clients \in [Hosts -> Nat \cup {None}]
          /\ request \in [Requests -> RequestRecords]
        BY <2>1 DEF Init
    <2>6. task \in [Requests -> [left : 0..Tries, early : BOOLEAN]]
        BY <2>2 DEF Init
    <2>7. bursts \in [Hosts -> Seq(Nat)]
        BY <2>3 DEF Init
    <2>8. clock \in 0..MaxClock /\ server \in Phases
        BY <2>5 DEF Phases, Up, Awaiting
    <2>9. TypeOK
        BY <2>5, <2>6, <2>7, <2>8 DEF TypeOK
    <2> QED
        BY <2>4, <2>9 DEF HostKnown
<1>2. LimiterKnown /\ BurstsFarApart
    BY DEF Init, LimiterKnown, BurstsFarApart
<1>3. PoolLast /\ WaitsForTask /\ EarlyTasksEnd
    BY DEF Init, PoolLast, WaitsForTask, EarlyTasksEnd, Awaiting
<1> QED
    BY <1>1, <1>2, <1>3 DEF IInv

\* A request only moves on through the middlewares.
LEMMA RequestStep ==
    ASSUME TypeOK, HostKnown, [Next]_vars
    PROVE  /\ request' \in [Requests -> RequestRecords]
           /\ HostKnown'
           /\ server \in {"drained", "stopped"} /\ (\A r \in Requests : ~Serving(r))
                => \A r \in Requests : ~Serving(r)'
<1> DEFINE Moved == /\ request' \in [Requests -> RequestRecords]
                    /\ HostKnown'
<1>1. request \in [Requests -> RequestRecords]
    BY DEF TypeOK
<1>2. Idle \in RequestRecords
    BY DEF Idle, RequestRecords
<1>3. ASSUME NEW r \in Requests, NEW h \in Hosts, Accept(r, h)
      PROVE  Moved /\ server \notin {"drained", "stopped"}
    BY <1>1, <1>3 DEF Accept, RequestRecords, Up, Awaiting, HostKnown, Serving
<1>4. ASSUME NEW r \in Requests, Serving(r),
             NEW pc \in {"allow"} \cup UsesPool, Goto(r, pc)
      PROVE  Moved
    BY <1>1, <1>4 DEF Goto, RequestRecords, HostKnown, Serving
<1>5. ASSUME NEW r \in Requests, Done(r)
      PROVE  Moved
    BY <1>1, <1>2, <1>5 DEF Done, Serving, Idle, HostKnown
<1>6. CASE UNCHANGED request
    BY <1>1, <1>6 DEF Serving, HostKnown
<1>7. ASSUME NEW r \in Requests,
             \/ LookupLimiter(r) \/ Allow(r) \/ Authenticate(r)
             \/ Return(r) \/ ReturnWithTask(r)
      PROVE  Moved /\ Serving(r)
    <2>1. Serving(r)
        BY <1>7 DEF LookupLimiter, Allow, Authenticate, Return,
           ReturnWithTask, Serving
    <2>2. (\E pc \in {"allow"} \cup UsesPool : Goto(r, pc)) \/ Done(r)
        BY <1>7 DEF LookupLimiter, Allow, Authenticate, Return,
           ReturnWithTask, UsesPool
    <2> QED
        BY <1>4, <1>5, <2>1, <2>2
<1> HIDE DEF Moved
<1>8. UNCHANGED request
        \/ (\E r \in Requests, h \in Hosts : Accept(r, h))
        \/ \E r \in Requests : \/ LookupLimiter(r) \/ Allow(r)
                               \/ Authenticate(r) \/ Return(r)
                               \/ ReturnWithTask(r)
    BY DEF Next, vars, SendMail, Tick, Janitor, Signal, TimeOut, ListenFails,
       Shutdown, TasksAwaited, WaitPanics, CloseListener, Drained,
       DrainFails, ClosePool
<1>9. Moved
    BY <1>3, <1>6, <1>7, <1>8 DEF Moved
<1>10. ASSUME server \in {"drained", "stopped"}, \A r \in Requests : ~Serving(r)
       PROVE  UNCHANGED request
    BY <1>3, <1>7, <1>8, <1>10
<1> QED
    BY <1>9, <1>10 DEF Moved, Serving

\* The table of limiters and the history of bursts.
LEMMA LimiterStep ==
    ASSUME TypeOK, HostKnown, LimiterKnown, BurstsFarApart, [Next]_vars
    PROVE  /\ clock' \in 0..MaxClock
           /\ clients' \in [Hosts -> Nat \cup {None}]
           /\ bursts' \in [Hosts -> Seq(Nat)]
           /\ LimiterKnown' /\ BurstsFarApart'
<1>1. /\ clock \in 0..MaxClock /\ clients \in [Hosts -> Nat \cup {None}]
      /\ bursts \in [Hosts -> Seq(Nat)]
      /\ request \in [Requests -> RequestRecords]
    BY DEF TypeOK
<1>2. CASE UNCHANGED <<clock, clients, bursts>>
    BY <1>1, <1>2 DEF LimiterKnown, BurstsFarApart, LastBurst
<1>3. ASSUME NEW r \in Requests, LookupLimiter(r), clients[request[r].host] = None,
             request[r].host \in Hosts,
             clients' = [clients EXCEPT ![request[r].host] = clock],
             bursts' = [bursts EXCEPT ![request[r].host] = Append(@, clock)],
             clock' = clock
      PROVE  /\ clients' \in [Hosts -> Nat \cup {None}]
             /\ bursts' \in [Hosts -> Seq(Nat)]
             /\ LimiterKnown' /\ BurstsFarApart'
    <2> DEFINE h == request[r].host
    <2>1. h \in Hosts /\ clock \in Nat /\ bursts[h] \in Seq(Nat)
        BY <1>1, <1>3
    <2>2. /\ clients' \in [Hosts -> Nat \cup {None}]
          /\ bursts' \in [Hosts -> Seq(Nat)]
        BY <1>1, <1>3, <2>1
    <2>3. bursts'[h] = Append(bursts[h], clock) /\ clients'[h] = clock
        BY <1>1, <1>3, <2>1
    <2>4. \A g \in Hosts \ {h} : bursts'[g] = bursts[g] /\ clients'[g] = clients[g]
        BY <1>1, <1>3
    <2>5. bursts[h] # <<>> => clock - LastBurst(h) > MaxIdle
        BY <1>3, <2>1 DEF LimiterKnown
    <2> HIDE DEF h
    <2>6. LimiterKnown'
        <3>1. /\ bursts'[h] # <<>>
              /\ bursts'[h][Len(bursts'[h])] = clock
            BY <2>1, <2>3
        <3>2. clock # None
            BY <2>1
        <3> QED
            BY <1>1, <1>3, <2>1, <2>3, <2>4, <3>1, <3>2
            DEF LimiterKnown, LastBurst
    <2>7. BurstsFarApart'
        <3>1. ASSUME NEW i \in 1..Len(bursts'[h]) - 1
              PROVE  bursts'[h][i + 1] - bursts'[h][i] > MaxIdle
            <4>1. Len(bursts'[h]) = Len(bursts[h]) + 1 /\ i \in 1..Len(bursts[h])
                BY <2>1, <2>3
            <4>2. CASE i = Len(bursts[h])
                <5>1. bursts'[h][i + 1] = clock /\ bursts'[h][i] = LastBurst(h)
                      /\ bursts[h] # <<>>
                    BY <2>1, <2>3, <4>1, <4>2 DEF LastBurst
                <5> QED
                    BY <2>5, <5>1
            <4>3. CASE i # Len(bursts[h])
                <5>1. i \in 1..Len(bursts[h]) - 1
                    BY <2>1, <4>1, <4>3
                <5>2. bursts'[h][i + 1] = bursts[h][i + 1]
                      /\ bursts'[h][i] = bursts[h][i]
                    BY <2>1, <2>3, <4>1, <5>1
                <5> QED
                    BY <2>1, <5>1, <5>2 DEF BurstsFarApart
            <4> QED
                BY <4>2, <4>3
        <3>2. ASSUME NEW g \in Hosts \ {h}, NEW i \in 1..Len(bursts'[g]) - 1
              PROVE  bursts'[g][i + 1] - bursts'[g][i] > MaxIdle
            BY <2>4, <3>2 DEF BurstsFarApart
        <3> QED
            BY <3>1, <3>2 DEF BurstsFarApart
    <2> QED
        BY <2>2, <2>6, <2>7
<1>4. CASE Tick
    <2>1. /\ clock' = clock + 1 /\ clock' \in 0..MaxClock
          /\ clients' = clients /\ bursts' = bursts
        BY <1>1, <1>4 DEF Tick
    <2>2. \A h \in Hosts : bursts[h] # <<>> => LastBurst(h) \in Nat
        BY <1>1 DEF LastBurst
    <2>3. LimiterKnown'
        BY <1>1, <2>1, <2>2 DEF LimiterKnown, LastBurst
    <2> QED
        BY <1>1, <2>1, <2>3 DEF BurstsFarApart
<1>5. CASE Janitor
    <2>1. /\ clock' = clock /\ bursts' = bursts
          /\ clients' = [h \in Hosts |->
               IF clients[h] # None /\ clock - clients[h] > MaxIdle
               THEN None ELSE clients[h]]
        BY <1>5 DEF Janitor
    <2>2. clients' \in [Hosts -> Nat \cup {None}]
        BY <1>1, <2>1
    <2>3. LimiterKnown'
        BY <1>1, <2>1 DEF LimiterKnown, LastBurst
    <2> QED
        BY <1>1, <2>1, <2>2, <2>3 DEF BurstsFarApart
<1>6. ASSUME NEW r \in Requests, LookupLimiter(r)
      PROVE  /\ clock' \in 0..MaxClock
             /\ clients' \in [Hosts -> Nat \cup {None}]
             /\ bursts' \in [Hosts -> Seq(Nat)]
             /\ LimiterKnown' /\ BurstsFarApart'
    <2>1. CASE UNCHANGED <<clients, bursts>>
        BY <1>2, <1>6, <2>1 DEF LookupLimiter
    <2>2. CASE ~UNCHANGED <<clients, bursts>>
        <3>1. request[r].host \in Hosts
            BY <1>6 DEF LookupLimiter, HostKnown, Serving
        <3> QED
            BY <1>1, <1>3, <1>6, <2>2, <3>1 DEF LookupLimiter
    <2> QED
        BY <2>1, <2>2
<1> QED
    BY <1>2, <1>4, <1>5, <1>6 DEF Next, vars, Accept, Allow, Authenticate,
       Return, ReturnWithTask, SendMail, Signal, TimeOut, ListenFails,
       Shutdown, TasksAwaited, WaitPanics, CloseListener, Drained,
       DrainFails, ClosePool

\* The phases of the server, its pool and its mail tasks.
LEMMA ServerStep ==
    ASSUME IInv, [Next]_vars
    PROVE  /\ server' \in Phases /\ late' \in BOOLEAN
           /\ pool' \in {"open", "closed"}
           /\ task' \in [Requests -> [left : 0..Tries, early : BOOLEAN]]
           /\ PoolLast' /\ WaitsForTask' /\ EarlyTasksEnd'
<1> DEFINE Kept == /\ task' \in [Requests -> [left : 0..Tries, early : BOOLEAN]]
                   /\ WaitsForTask' /\ EarlyTasksEnd'
<1>1. /\ server \in Phases /\ late \in BOOLEAN /\ pool \in {"open", "closed"}
      /\ task \in [Requests -> [left : 0..Tries, early : BOOLEAN]]
      /\ PoolLast /\ WaitsForTask /\ EarlyTasksEnd
    BY DEF IInv, TypeOK
<1>2. server \in {"drained", "stopped"} => \A r \in Requests : ~Serving(r)'
    BY RequestStep DEF IInv, PoolLast
<1>3. /\ server' \in Phases /\ late' \in BOOLEAN /\ pool' \in {"open", "closed"}
      /\ PoolLast'
    <2>1. CASE UNCHANGED <<server, late, pool>>
        BY <1>1, <1>2, <2>1 DEF PoolLast
    <2>2. ASSUME NEW r \in Requests, SendMail(r)
          PROVE  /\ server' \in Phases /\ late' \in BOOLEAN
                 /\ pool' \in {"open", "closed"} /\ PoolLast'
        BY <1>1, <1>2, <2>2 DEF SendMail, PoolLast, Phases, Up, Awaiting,
           Exited, Serving
    <2>3. CASE Signal \/ TimeOut \/ ListenFails \/ Shutdown
        BY <1>1, <1>2, <2>3 DEF Signal, TimeOut, ListenFails, Shutdown,
           TasksAwaited, WaitPanics, CloseListener, Drained, DrainFails, ClosePool,
           PoolLast, Phases, Up, Awaiting, Exited, Serving
    <2> QED
        BY <2>1, <2>2, <2>3 DEF Next, vars, Accept, LookupLimiter, Allow,
           Authenticate, Return, ReturnWithTask, Tick, Janitor
<1>4. NoTask \in [left : 0..Tries, early : BOOLEAN]
    BY DEF NoTask
<1>5. ASSUME NEW r \in Requests, ReturnWithTask(r)
      PROVE  Kept
    <2> DEFINE new == [left |-> Tries, early |-> server \in Awaiting]
    <2>1. new \in [left : 0..Tries, early : BOOLEAN] /\ new.left > 0
        OBVIOUS
    <2>2. new.early = (server \in Awaiting)
        OBVIOUS
    <2>3. task' = [task EXCEPT ![r] = new] /\ server' = server
        BY <1>5 DEF ReturnWithTask
    <2> HIDE DEF new
    <2>4. task'[r] = new /\ \A q \in Requests \ {r} : task'[q] = task[q]
        BY <1>1, <2>3
    <2>5. EarlyTasksEnd'
        BY <1>1, <2>2, <2>3, <2>4 DEF EarlyTasksEnd, Running
    <2>6. WaitsForTask'
        BY <2>1, <2>4 DEF WaitsForTask, Quiet, Running
    <2> QED
        BY <1>1, <2>1, <2>3, <2>5, <2>6
<1>6. ASSUME NEW r \in Requests, SendMail(r)
      PROVE  Kept
    <2>1. PICK new \in [left : 0..Tries, early : BOOLEAN] :
            /\ task' = [task EXCEPT ![r] = new]
            /\ new.left > 0 => new.early = task[r].early
            /\ server' = IF server = "waiting" /\ new.left = 0 /\ LastTask(r)
                         THEN "woken" ELSE server
        <3>1. CASE /\ task' = [task EXCEPT ![r] = NoTask]
                   /\ server' = IF server = "waiting" /\ LastTask(r)
                                THEN "woken" ELSE server
            <4>1. NoTask.left = 0
                BY DEF NoTask
            <4>2. NoTask.left > 0 => NoTask.early = task[r].early
                BY <4>1
            <4> QED
                BY <1>4, <3>1, <4>1, <4>2, Zenon
        <3>2. CASE /\ task[r].left > 1 /\ server' = server
                   /\ task' = [task EXCEPT ![r].left = @ - 1]
            <4> DEFINE new == [task[r] EXCEPT !.left = task[r].left - 1]
            <4>1. task[r] \in [left : 0..Tries, early : BOOLEAN]
                BY <1>1
            <4>2. task[r].left - 1 \in 0..Tries /\ task[r].left - 1 # 0
                BY <3>2, <4>1
            <4>3. new \in [left : 0..Tries, early : BOOLEAN]
                  /\ new.early = task[r].early /\ new.left # 0
                BY <4>1, <4>2
            <4>4. task' = [task EXCEPT ![r] = new]
                BY <1>1, <3>2
            <4> HIDE DEF new
            <4> QED
                BY <3>2, <4>3, <4>4
        <3> QED
            BY <1>6, <3>1, <3>2 DEF SendMail
    <2>2. Running(r)
        BY <1>6 DEF SendMail
    <2>3. task'[r] = new /\ \A q \in Requests \ {r} : task'[q] = task[q]
        BY <1>1, <2>1
    <2>4. ASSUME NEW q \in Requests, Running(q)',
                 server' \notin Awaiting \cup {"failed"}
          PROVE  ~task'[q].early
        <3>1. server \notin Awaiting
            <4>1. CASE server = "waiting" /\ new.left = 0 /\ LastTask(r)
                BY <2>3, <2>4, <4>1 DEF LastTask, Running
            <4> QED
                BY <2>1, <2>4, <4>1
        <3>2. server' = server
            BY <2>1, <3>1 DEF Awaiting
        <3>3. CASE q = r
            BY <1>1, <2>1, <2>2, <2>3, <2>4, <3>2, <3>3
            DEF EarlyTasksEnd, Running
        <3>4. CASE q # r
            BY <1>1, <2>3, <2>4, <3>2, <3>4 DEF EarlyTasksEnd, Running
        <3> QED
            BY <3>3, <3>4
    <2>5. ASSUME server' = "waiting"  PROVE ~Quiet'
        <3>1. server = "waiting" /\ (new.left # 0 \/ ~LastTask(r))
            BY <2>1, <2>5
        <3>2. CASE new.left # 0
            BY <2>3, <3>2 DEF Quiet, Running
        <3>3. CASE ~LastTask(r)
            BY <2>3, <3>3 DEF LastTask, Quiet, Running
        <3> QED
            BY <3>1, <3>2, <3>3
    <2> QED
        BY <1>1, <2>1, <2>4, <2>5 DEF EarlyTasksEnd, WaitsForTask
<1>7. ASSUME UNCHANGED <<task, server>>
      PROVE  Kept
    <2>1. task' = task /\ server' = server
        BY <1>7
    <2>2. EarlyTasksEnd' <=> EarlyTasksEnd
        BY <2>1 DEF EarlyTasksEnd, Running
    <2>3. WaitsForTask' <=> WaitsForTask
        BY <2>1 DEF WaitsForTask, Quiet, Running
    <2> QED
        BY <1>1, <2>1, <2>2, <2>3
<1>8. ASSUME Signal \/ ListenFails \/ Shutdown
      PROVE  Kept
    <2>1. task' = task
        BY <1>8 DEF Signal, ListenFails, Shutdown, TasksAwaited, WaitPanics,
           CloseListener, Drained, DrainFails, ClosePool
    <2>2. /\ \/ server' \in Awaiting \cup {"failed"}
             \/ Quiet
             \/ server \notin Awaiting \cup {"failed"}
          /\ server' = "waiting" => ~Quiet
        BY <1>8 DEF Signal, ListenFails, Shutdown, TasksAwaited, WaitPanics,
           CloseListener, Drained, DrainFails, ClosePool, Awaiting
    <2>3. /\ \A r \in Requests : Running(r)' <=> Running(r)
          /\ Quiet' <=> Quiet
        BY <2>1 DEF Running, Quiet
    <2>4. EarlyTasksEnd' /\ WaitsForTask'
        BY <1>1, <2>1, <2>2, <2>3 DEF EarlyTasksEnd, WaitsForTask, Quiet
    <2> QED
        BY <1>1, <2>1, <2>4
<1> HIDE DEF Kept
<1>9. Kept
    BY <1>5, <1>6, <1>7, <1>8 DEF Next, vars, Accept, LookupLimiter, Allow,
       Authenticate, Return, Tick, Janitor, TimeOut
<1> QED
    BY <1>3, <1>9 DEF Kept

\* Every step keeps the invariant.
LEMMA NextStep ==
    IInv /\ [Next]_vars => IInv'
<1> SUFFICES ASSUME IInv, [Next]_vars  PROVE IInv'
    OBVIOUS
<1> QED
    BY RequestStep, LimiterStep, ServerStep DEF IInv, TypeOK

\* The server keeps its invariant, whatever requests come.
THEOREM ServerSound == Spec => []IInv
BY AtStart, NextStep, PTL DEF Spec

\* The tables of the server and its phases always have their types.
THEOREM TypesHold == Spec => []TypeOK
<1>1. IInv => TypeOK
    BY DEF IInv
<1> QED
    BY <1>1, ServerSound, PTL

\* However requests and the janitor interleave, a host gets a full bucket only
\* once in MaxIdle: the janitor cannot be used to go faster.
THEOREM OneBurst == Spec => []BurstsFarApart
<1>1. IInv => BurstsFarApart
    BY DEF IInv
<1> QED
    BY <1>1, ServerSound, PTL

\* A request never finds the pool closed under it.
THEOREM PoolSafe == Spec => []PoolOpenWhileUsed
<1>1. IInv => PoolOpenWhileUsed
    BY DEF IInv, PoolLast, Serving, PoolOpenWhileUsed, UsesPool
<1> QED
    BY <1>1, ServerSound, PTL

\* A mail task that the shutdown waited for is cut off by none of the ways in
\* which the shutdown ends, the panic of wg.Wait included; only a failure of the
\* listener, which waits for nothing, cuts it off.
THEOREM MailsAwaited == Spec => []EarlyTasksEnd
<1>1. IInv => EarlyTasksEnd
    BY DEF IInv
<1> QED
    BY <1>1, ServerSound, PTL

-----------------------------------------------------------------------------
(* What the limit comes to over a longer time *)

\* From one full bucket of a host to the k-th after it, k times the time passes
\* after which the janitor drops a limiter.
BurstRateHeld ==
    \A h \in Hosts : \A i, j \in 1..Len(bursts[h]) :
        i < j => bursts[h][j] - bursts[h][i] >= (j - i) * (MaxIdle + 1)

\* One more gap of at least K: x, y and z are the times of the i-th burst, the
\* n-th and the one behind it.
LEMMA OneGapMore ==
    ASSUME NEW n \in Nat, NEW i \in 1..n, NEW K \in Nat,
           NEW x \in Nat, NEW y \in Nat, NEW z \in Nat,
           i = n => x = y, i < n => y - x >= (n - i) * K, z - y >= K
    PROVE  z - x >= (n + 1 - i) * K
<1>1. (n + 1 - i) * K = (n - i) * K + K
    OBVIOUS
<1>2. CASE i = n
    <2>1. (n + 1 - i) * K = K
        BY <1>2
    <2> QED
        BY <1>2, <2>1
<1>3. CASE i < n
    <2>1. n - i \in Nat /\ (n - i) * K \in Nat
        OBVIOUS
    <2> QED
        BY <1>1, <1>3, <2>1
<1> QED
    BY <1>2, <1>3

\* A new burst is far enough from the last one, which is far enough from the
\* others.
LEMMA RateStep ==
    ASSUME IInv, BurstRateHeld, [Next]_vars
    PROVE  BurstRateHeld'
<1>1. CASE UNCHANGED bursts
    BY <1>1 DEF BurstRateHeld
<1>2. ASSUME NEW r \in Requests, LookupLimiter(r), bursts' # bursts
      PROVE  BurstRateHeld'
    <2> DEFINE h == request[r].host
               b == bursts[h]
               K == MaxIdle + 1
    <2>1. h \in Hosts /\ clients[h] = None /\ clock \in Nat /\ b \in Seq(Nat)
        BY <1>2 DEF LookupLimiter, IInv, TypeOK, HostKnown, Serving
    <2>2. /\ bursts'[h] = Append(b, clock)
          /\ \A g \in Hosts \ {h} : bursts'[g] = bursts[g]
        BY <1>2, <2>1 DEF LookupLimiter, IInv, TypeOK
    <2>3. b # <<>> => clock - b[Len(b)] >= K /\ b[Len(b)] \in Nat
        BY <2>1 DEF IInv, LimiterKnown, LastBurst
    <2>4. \A i, j \in 1..Len(b) : i < j => b[j] - b[i] >= (j - i) * K
        BY <2>1 DEF BurstRateHeld
    <2>5. K \in Nat
        OBVIOUS
    <2> HIDE DEF h, b, K
    <2>6. ASSUME NEW i \in 1..Len(bursts'[h]), NEW j \in 1..Len(bursts'[h]), i < j
          PROVE  bursts'[h][j] - bursts'[h][i] >= (j - i) * K
        <3>1. /\ Len(bursts'[h]) = Len(b) + 1 /\ i \in 1..Len(b)
              /\ bursts'[h][i] = b[i] /\ b[i] \in Nat
            BY <2>1, <2>2, <2>6
        <3>2. CASE j \in 1..Len(b)
            BY <2>1, <2>2, <2>4, <2>6, <3>1, <3>2
        <3>3. CASE j = Len(b) + 1
            <4>1. /\ bursts'[h][j] = clock /\ Len(b) \in Nat /\ b # <<>>
                  /\ Len(b) \in 1..Len(b)
                BY <2>1, <2>2, <3>1, <3>3
            <4>2. i < Len(b) => b[Len(b)] - b[i] >= (Len(b) - i) * K
                BY <2>4, <3>1, <4>1
            <4>3. clock - b[Len(b)] >= K /\ b[Len(b)] \in Nat
                BY <2>3, <4>1
            <4>4. clock - b[i] >= (Len(b) + 1 - i) * K
                BY <2>1, <2>5, <3>1, <4>1, <4>2, <4>3, OneGapMore
            <4> QED
                BY <3>1, <3>3, <4>1, <4>4
        <3> QED
            BY <2>1, <3>1, <3>2, <3>3
    <2> QED
        BY <2>2, <2>6 DEF BurstRateHeld, K
<1> QED
    BY <1>1, <1>2 DEF Next, vars, Accept, LookupLimiter, Allow, Authenticate,
       Return, ReturnWithTask, SendMail, Tick, Janitor, Signal, TimeOut,
       ListenFails, Shutdown, TasksAwaited, WaitPanics, CloseListener, Drained,
       DrainFails, ClosePool

\* However long a host goes on and whenever the janitor comes: in less than k
\* times MaxIdle + 1 it is given at most k full buckets.
THEOREM RateBounded == Spec => []BurstRateHeld
<1>1. Init => BurstRateHeld
    BY DEF Init, BurstRateHeld
<1> QED
    BY <1>1, RateStep, ServerSound, PTL DEF Spec
=============================================================================
