----------------------------- MODULE PasteStore -----------------------------
(***************************************************************************)
(* What the service promises about one paste, whatever requests, failures  *)
(* and cleaner runs overlap: its id is reserved, its content is stored,    *)
(* only then is it published; it stays readable until it is removed, it is *)
(* removed once and for all, and storage is reclaimed only afterwards.     *)
(***************************************************************************)
CONSTANT Scrolls

VARIABLES
    stage,      \* life of each id
    stored      \* the ids whose content is in the bucket

storeVars == <<stage, stored>>

Stages == {"free", "reserved", "published", "removed"}

StoreTypeOK == stage \in [Scrolls -> Stages] /\ stored \in SUBSET Scrolls

StoreInit == stage = [s \in Scrolls |-> "free"] /\ stored = {}

Move(S, from, to) ==
    /\ \A s \in S : stage[s] \in from
    /\ stage' = [s \in Scrolls |-> IF s \in S THEN to ELSE stage[s]]
    /\ UNCHANGED stored

Reserve(S) == Move(S, {"free"}, "reserved")
Publish(s) == s \in stored /\ Move({s}, {"reserved"}, "published")
Remove(S)  == Move(S, {"reserved", "published"}, "removed")

\* An upload that was admitted in time may store after the paste is removed.
StoreContent(s) ==
    /\ stage[s] # "free"
    /\ stored' = stored \cup {s}
    /\ UNCHANGED stage

Reclaim(S) ==
    /\ \A s \in S : stage[s] = "removed"
    /\ stored' = stored \ S
    /\ UNCHANGED stage

StoreNext ==
    \/ \E S \in SUBSET Scrolls : Reserve(S) \/ Remove(S) \/ Reclaim(S)
    \/ \E s \in Scrolls : Publish(s) \/ StoreContent(s)

StoreSpec == StoreInit /\ [][StoreNext]_storeVars
=============================================================================
