------------------------------ MODULE JarTable ------------------------------
(***************************************************************************)
(* What the database promises about one jar and its scrolls, whatever its  *)
(* statements do to each other on the way: every statement happens all at  *)
(* once or not at all.  A scroll is inserted into a jar that is there, each *)
(* update takes its updated_at forward, it is removed once and for all, and *)
(* the jar goes in one step with every scroll that is left in it.          *)
(***************************************************************************)
EXTENDS Naturals

CONSTANTS Scrolls, Initial      \* as in JarTx

VARIABLES
    live,       \* is the jar there?
    stage,      \* life of each scroll id
    version     \* updated_at of each scroll

tableVars == <<live, stage, version>>

TableInit ==
    /\ live = TRUE
    /\ stage = [s \in Scrolls |-> IF s \in Initial THEN "there" ELSE "free"]
    /\ version = [s \in Scrolls |-> 0]

\* updated_at becomes the time of the statement, whatever that is.
Write(s, from) ==
    /\ stage[s] = from
    /\ stage' = [stage EXCEPT ![s] = "there"]
    /\ version' \in [Scrolls -> Nat]
    /\ \A x \in Scrolls \ {s} : version'[x] = version[x]
    /\ UNCHANGED live

Insert(s) == live /\ Write(s, "free")

Update(s) == Write(s, "there") /\ version'[s] > version[s]

Delete(s) ==
    /\ stage[s] = "there"
    /\ stage' = [stage EXCEPT ![s] = "gone"]
    /\ UNCHANGED <<live, version>>

DeleteJar ==
    /\ live
    /\ live' = FALSE
    /\ stage' = [s \in Scrolls |-> IF stage[s] = "there" THEN "gone"
                                                         ELSE stage[s]]
    /\ UNCHANGED version

TableNext ==
    \/ \E s \in Scrolls : Insert(s) \/ Update(s) \/ Delete(s)
    \/ DeleteJar

TableSpec == TableInit /\ [][TableNext]_tableVars
=============================================================================
