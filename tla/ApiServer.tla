------------------------------ MODULE ApiServer ------------------------------
(***************************************************************************)
(* The process of the API server, apart from what its handlers do to the   *)
(* database: the chain of middlewares that a request passes, the table of  *)
(* IP limiters with its janitor, the background tasks that send mail and   *)
(* the shutdown that a signal starts.                                      *)
(*                                                                         *)
(* Whether a token bucket lets a request pass is left open; what matters   *)
(* is when a host is given a new, full one.                                *)
(***************************************************************************)
EXTENDS Naturals, Sequences

CONSTANTS
    Requests,   \* connections that can be served together
    Hosts,      \* client IP addresses; each route has a table of its own
    MaxIdle,    \* age at which the janitor drops a limiter (5 minutes)
    Tries,      \* attempts to send a mail (3)
    MaxClock,   \* bound: how long the model watches the limiters
    None

ASSUME NoneAssumption == None \notin Hosts \cup Nat
ASSUME BoundAssumption ==
    MaxIdle \in Nat /\ MaxClock \in Nat /\ Tries \in Nat \ {0}

VARIABLES
    clock,      \* time.Now()
    clients,    \* per host: the lastSeen of its limiter, None without one
    bursts,     \* history: when a host was given a full token bucket
    request,    \* per connection: the middleware it is in, and its host
    task,       \* per connection: the mail task that it left in the background
    server,     \* phase of Serve and of the shutdown goroutine
    late,       \* the 30 seconds of the shutdown's context are over
    pool        \* the database pool

vars == <<clock, clients, bursts, request, task, server, late, pool>>

\* wg.Wait has not seen the counter of the tasks at zero yet; afterwards it is
\* "woken" until its goroutine runs again, and then "awaited".
Awaiting == {"serving", "waiting"}
Up == Awaiting \cup {"woken", "awaited"}        \* the listener is open
\* How the process ends: by the shutdown, by its deadline, by a failure of the
\* listener, by a panic that nobody recovers.
Exited == {"stopped", "timedOut", "failed", "panicked"}
Phases == Up \cup {"draining", "drained"} \cup Exited
UsesPool == {"authenticate", "handler"}
RequestRecords ==
    [pc : {"idle", "lookup", "allow"} \cup UsesPool, host : Hosts \cup {None}]
Idle == [pc |-> "idle", host |-> None]
\* left: attempts to go; early: started before wg.Wait saw the counter at zero.
NoTask == [left |-> 0, early |-> FALSE]

TypeOK ==
    /\ clock \in 0..MaxClock
    /\ clients \in [Hosts -> Nat \cup {None}]
    /\ bursts \in [Hosts -> Seq(Nat)]
    /\ request \in [Requests -> RequestRecords]
    /\ task \in [Requests -> [left : 0..Tries, early : BOOLEAN]]
    /\ server \in Phases
    /\ late \in BOOLEAN
    /\ pool \in {"open", "closed"}

Init ==
    /\ clock = 0
    /\ clients = [h \in Hosts |-> None]
    /\ bursts = [h \in Hosts |-> <<>>]
    /\ request = [r \in Requests |-> Idle]
    /\ task = [r \in Requests |-> NoTask]
    /\ server = "serving"
    /\ late = FALSE
    /\ pool = "open"

Alive == server \notin Exited
Goto(r, pc) == request' = [request EXCEPT ![r].pc = pc]
Done(r) == request' = [request EXCEPT ![r] = Idle]
Running(r) == task[r].left > 0
Serving(r) == request[r].pc # "idle"

-----------------------------------------------------------------------------
(* The middlewares, from the outermost one on *)

\* Accepted by the listener, let through by the global limiter.
Accept(r, h) ==
    /\ server \in Up
    /\ ~Serving(r)
    /\ request' = [request EXCEPT ![r] = [pc |-> "lookup", host |-> h]]
    /\ UNCHANGED <<clock, clients, bursts, task, server, late, pool>>

\* Under the mutex: the host's limiter, or a new one.  lastSeen is the time of
\* its creation and is never set again.
LookupLimiter(r) ==
    LET h == request[r].host
    IN  /\ Alive /\ request[r].pc = "lookup"
        /\ \/ /\ clients[h] = None
              /\ clients' = [clients EXCEPT ![h] = clock]
              /\ bursts' = [bursts EXCEPT ![h] = Append(@, clock)]
           \/ /\ clients[h] # None
              /\ UNCHANGED <<clients, bursts>>
        /\ Goto(r, "allow")
        /\ UNCHANGED <<clock, task, server, late, pool>>

\* After the mutex: the limiter may have been dropped from the table by now.
Allow(r) ==
    /\ Alive /\ request[r].pc = "allow"
    /\ Goto(r, "authenticate") \/ Done(r)
    /\ UNCHANGED <<clock, clients, bursts, task, server, late, pool>>

\* No header, or a token of an account; anything else is answered 401 or 500,
\* and so is a route that requires an account if there is none.
Authenticate(r) ==
    /\ Alive /\ request[r].pc = "authenticate"
    /\ Goto(r, "handler") \/ Done(r)
    /\ UNCHANGED <<clock, clients, bursts, task, server, late, pool>>

\* A handler returns or panics: recoverPanic keeps the process running.
Return(r) ==
    /\ Alive /\ request[r].pc = "handler"
    /\ Done(r)
    /\ UNCHANGED <<clock, clients, bursts, task, server, late, pool>>

\* FAULT: for i <= maxTries.
ReturnWithTaskAndOneTry(r) ==
    /\ Alive /\ request[r].pc = "handler"
    /\ ~Running(r)
    /\ task' = [task EXCEPT ![r] = [left |-> Tries + 1,
                                   early |-> server \in Awaiting]]
    /\ Done(r)
    /\ UNCHANGED <<clock, clients, bursts, server, late, pool>>

\* createUser: the mail goes to the background, the client gets its answer.
ReturnWithTask(r) ==
    /\ Alive /\ request[r].pc = "handler"
    /\ ~Running(r)
    /\ task' = [task EXCEPT ![r] = [left |-> Tries,
                                   early |-> server \in Awaiting]]
    /\ Done(r)
    /\ UNCHANGED <<clock, clients, bursts, server, late, pool>>

\* No mail task but r's is running.
LastTask(r) == \A q \in Requests \ {r} : ~Running(q)

\* FAULT: every task that ends wakes wg.Wait.
SendMailWaking(r) ==
    /\ Alive /\ Running(r)
    /\ \/ /\ task' = [task EXCEPT ![r] = NoTask]
          /\ server' = IF server = "waiting" THEN "woken" ELSE server
       \/ /\ task[r].left > 1
          /\ task' = [task EXCEPT ![r].left = @ - 1]
          /\ UNCHANGED server
    /\ UNCHANGED <<clock, clients, bursts, request, late, pool>>

\* One Send.  It may fail although the mail went out, and then goes out again.
\* The task ends with wg.Done, which wakes wg.Wait if it was the last one.
SendMail(r) ==
    /\ Alive /\ Running(r)
    /\ \/ /\ task' = [task EXCEPT ![r] = NoTask]
          /\ server' = IF server = "waiting" /\ LastTask(r)
                       THEN "woken" ELSE server
       \/ /\ task[r].left > 1
          /\ task' = [task EXCEPT ![r].left = @ - 1]
          /\ UNCHANGED server
    /\ UNCHANGED <<clock, clients, bursts, request, late, pool>>

-----------------------------------------------------------------------------
(* Time and the janitor *)

Tick ==
    /\ Alive /\ clock < MaxClock
    /\ clock' = clock + 1
    /\ UNCHANGED <<clients, bursts, request, task, server, late, pool>>

\* FAULT: drops a limiter one unit of time early.
JanitorEarly ==
    /\ Alive
    /\ \E h \in Hosts : clients[h] # None /\ clock - clients[h] >= MaxIdle
    /\ clients' = [h \in Hosts |->
         IF clients[h] # None /\ clock - clients[h] >= MaxIdle THEN None
                                                               ELSE clients[h]]
    /\ UNCHANGED <<clock, bursts, request, task, server, late, pool>>

\* Every minute, under the mutex.
Janitor ==
    /\ Alive
    /\ \E h \in Hosts : clients[h] # None /\ clock - clients[h] > MaxIdle
    /\ clients' = [h \in Hosts |->
         IF clients[h] # None /\ clock - clients[h] > MaxIdle THEN None
                                                              ELSE clients[h]]
    /\ UNCHANGED <<clock, bursts, request, task, server, late, pool>>

-----------------------------------------------------------------------------
(* Shutdown *)

Quiet == \A r \in Requests : ~Running(r)

\* FAULT: no wg.Wait.
SignalUnwaited ==
    /\ server = "serving"
    /\ server' = "awaited"
    /\ UNCHANGED <<clock, clients, bursts, request, task, late, pool>>

\* SIGINT or SIGTERM, up to wg.Wait, which returns at once if no task is running
\* and else registers its goroutine as a waiter.  The listener stays open.
Signal ==
    /\ server = "serving"
    /\ server' = IF Quiet THEN "awaited" ELSE "waiting"
    /\ UNCHANGED <<clock, clients, bursts, request, task, late, pool>>

\* The context was made before wg.Wait, so its time runs all along.
TimeOut ==
    /\ server \in {"waiting", "woken", "awaited", "draining"} /\ ~late
    /\ late' = TRUE
    /\ UNCHANGED <<clock, clients, bursts, request, task, server, pool>>

\* FAULT: the requests are waited for as well, with the listener still open.
TasksAwaitedIdle ==
    /\ server = "woken" /\ Quiet
    /\ \A r \in Requests : ~Serving(r)
    /\ server' = "awaited"
    /\ UNCHANGED <<clock, clients, bursts, request, task, late, pool>>

\* The goroutine in wg.Wait runs again and finds the counter still at zero.
TasksAwaited ==
    /\ server = "woken" /\ Quiet
    /\ server' = "awaited"
    /\ UNCHANGED <<clock, clients, bursts, request, task, late, pool>>

\* A handler has started a task since: wg.Wait panics (the WaitGroup is reused
\* before it has returned), nothing recovers in this goroutine, and the process
\* dies with its handlers and tasks.
WaitPanics ==
    /\ server = "woken" /\ ~Quiet
    /\ server' = "panicked"
    /\ UNCHANGED <<clock, clients, bursts, request, task, late, pool>>

\* server.Shutdown closes the listener; ListenAndServe returns.
CloseListener ==
    /\ server = "awaited"
    /\ server' = "draining"
    /\ UNCHANGED <<clock, clients, bursts, request, task, late, pool>>

\* FAULT: Serve goes on as soon as the listener is closed.
DrainedAtOnce ==
    /\ server = "draining"
    /\ server' = "drained"
    /\ UNCHANGED <<clock, clients, bursts, request, task, late, pool>>

\* Shutdown returns nil: no connection is active.
Drained ==
    /\ server = "draining"
    /\ \A r \in Requests : ~Serving(r)
    /\ server' = "drained"
    /\ UNCHANGED <<clock, clients, bursts, request, task, late, pool>>

\* FAULT: Shutdown has no deadline.
DrainFailsNever == FALSE

\* Shutdown gives up waiting for connections once its context is done, which
\* it may be from the start: Serve returns the error, and main exits with
\* handlers and tasks cut off.
DrainFails ==
    /\ server = "draining" /\ late
    /\ \E r \in Requests : Serving(r)
    /\ server' = "timedOut"
    /\ UNCHANGED <<clock, clients, bursts, request, task, late, pool>>

\* ListenAndServe fails by itself, and Serve returns at once.
ListenFails ==
    /\ server \in Up
    /\ server' = "failed"
    /\ UNCHANGED <<clock, clients, bursts, request, task, late, pool>>

ClosePool ==
    /\ server = "drained"
    /\ pool' = "closed"
    /\ server' = "stopped"
    /\ UNCHANGED <<clock, clients, bursts, request, task, late>>

\* The shutdown goroutine, and what is left of Serve.
Shutdown ==
    \/ TasksAwaited
    \/ WaitPanics
    \/ CloseListener
    \/ Drained
    \/ DrainFails
    \/ ClosePool

Next ==
    \/ \E r \in Requests, h \in Hosts : Accept(r, h)
    \/ \E r \in Requests :
          \/ LookupLimiter(r)
          \/ Allow(r)
          \/ Authenticate(r)
          \/ Return(r)
          \/ ReturnWithTask(r)
          \/ SendMail(r)
    \/ Tick
    \/ Janitor
    \/ Signal
    \/ TimeOut
    \/ ListenFails
    \/ Shutdown

Spec == Init /\ [][Next]_vars

\* A mail is sent or fails, the goroutines of the shutdown and of Serve go on
\* when they can, and time passes.  Requests may never come to an end, and
\* handlers may start tasks at any time, also before wg.Wait runs again.
Fairness ==
    /\ \A r \in Requests : WF_vars(SendMail(r))
    /\ WF_vars(TimeOut)
    /\ WF_vars(Shutdown)

FairSpec == Spec /\ Fairness

-----------------------------------------------------------------------------
(* Properties *)

\* A host is given a full token bucket at most once in MaxIdle, however its
\* requests and the janitor interleave: the limit cannot be had twice.
BurstsFarApart ==
    \A h \in Hosts : \A i \in 1..Len(bursts[h]) - 1 :
        bursts[h][i + 1] - bursts[h][i] > MaxIdle

\* Serve closes the pool only after the last request that may use it.
PoolOpenWhileUsed ==
    pool = "closed" => \A r \in Requests : request[r].pc \notin UsesPool

\* The tasks that were there while wg.Wait waited are over when it is woken, so
\* neither its panic nor the end of the shutdown, in time or not, cuts one off;
\* only a failure of the listener does.  Tasks that were started later have no
\* such promise.
EarlyTasksEnd ==
    server \notin Awaiting \cup {"failed"} =>
        \A r \in Requests : Running(r) => ~task[r].early

\* A signal ends the process, one way or another, although requests never cease
\* and handlers hang, as long as the mail tasks leave a gap: until then the
\* listener stays open and the deadline stops nothing.  After the gap the panic
\* of wg.Wait or the deadline does.
ShutdownEnds ==
    /\ []<>Quiet => (server = "waiting" ~> server \in Exited)
    /\ server \in {"woken", "awaited"} ~> server \in Exited
=============================================================================
