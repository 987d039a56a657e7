------------------------------- MODULE Cleaner -------------------------------
(***************************************************************************)
(* The cleaner in detail (cmd/cleaner/main.go): it pages through the keys  *)
(* of the bucket, collects them in a slice, and flushes the slice when it  *)
(* is full and at the end: which rows exist, then delete the other keys.   *)
(* It runs beside the requests of ScrollService and implements the         *)
(* cleaner that module outlines.                                           *)
(*                                                                         *)
(* A run only keeps local variables between its calls to S3 and to the     *)
(* database, so being killed is modelled where it makes such a call.  Keys *)
(* are listed in the order of Scrolls.                                     *)
(***************************************************************************)
EXTENDS Naturals, FiniteSets, Sequences

CONSTANTS
    Jars, Scrolls, Users, Texts, Contents, Requests, Workload,
    MaxScrolls, MaxVersion, None,       \* as in ScrollService
    PageSize,           \* keys in one answer of ListObjectsV2
    BatchSize           \* batchSize, and the keys DeleteObjects takes (1000)

ASSUME NoneAssumption ==                \* and the bounds: as in ScrollService
    None \notin Jars \cup Scrolls \cup Users \cup Texts \cup Contents
ASSUME BoundAssumption == MaxScrolls \in Nat /\ MaxVersion \in Nat \ {0}
ASSUME KeyAssumption == Scrolls \subseteq Nat \ {0}
ASSUME SizeAssumption == PageSize \in Nat \ {0} /\ BatchSize \in Nat \ {0}

VARIABLES
    jar, scroll, bucket, token, request, acked,     \* as in ScrollService
    run                 \* the local variables of main and of its iterator

vars == <<jar, scroll, bucket, token, request, acked, run>>

Held == [batch |-> run.page \cup run.batch, doomed |-> run.doomed]

Service == INSTANCE ScrollService WITH cleaner <- Held

-----------------------------------------------------------------------------
\* page: what is left of it.page; passed: the keys up to the last one that was
\* listed; more: HasMorePages; batch: batch and scrollIDs; doomed: toDelete; final: the
\* listing is over; due: history, the orphans that this run still owes; lucky:
\* a prophecy, no call of this run will fail.
Runs == [pc : {"idle", "list", "query", "delete"},
         page : SUBSET Scrolls, passed : SUBSET Scrolls, more : BOOLEAN,
         batch : SUBSET Scrolls, doomed : SUBSET Scrolls, final : BOOLEAN,
         due : SUBSET Scrolls, lucky : BOOLEAN]
NoRun == [pc |-> "idle", page |-> {}, passed |-> {}, more |-> FALSE,
          batch |-> {}, doomed |-> {}, final |-> FALSE, due |-> {},
          lucky |-> FALSE]

\* What the slices hold at each position; no key is in hand twice.
RunShape ==
    /\ run.page \cup run.batch \subseteq run.passed
    /\ run.page \cap run.batch = {}
    /\ run.pc = "idle" => run.page = {} /\ run.batch = {} /\ ~run.more
    /\ run.pc = "query" => run.batch # {}
    /\ run.pc = "delete" => run.batch = {}
    /\ run.pc # "delete" => run.doomed = {}
    /\ run.final => run.pc \in {"query", "delete"} /\ run.page = {}

TypeOK == Service!TypeOK /\ run \in Runs /\ RunShape

Init == run = NoRun /\ Service!Init

Orphans == {s \in Service!Stored : scroll[s].state = "deleted"}
Tables == <<jar, scroll, token, request, acked>>

Start(lucky) ==
    /\ run.pc = "idle"
    /\ run' = [NoRun EXCEPT !.pc = "list", !.more = TRUE, !.due = Orphans,
                            !.lucky = lucky]
    /\ UNCHANGED <<Tables, bucket>>

Smallest(n, S) == {s \in S : Cardinality({x \in S : x <= s}) <= n}

UpTo(S) == {s \in Scrolls : \E x \in S : s <= x}

\* FAULT: HasMorePages is not asked, one page is all there is.
NextPageOnce ==
    \E n \in 1 .. PageSize :
    LET page == Smallest(n, Service!Stored)
    IN  /\ run.pc = "list" /\ run.page = {} /\ run.more
        /\ run' = [run EXCEPT !.page = page, !.passed = UpTo(page),
                              !.more = FALSE]
        /\ UNCHANGED <<Tables, bucket>>

\* ListObjectsV2 goes on behind the last key of the page before; S3 may answer
\* with fewer keys than the page size although there are more.
NextPage ==
    \E n \in 1 .. PageSize :
    LET ahead == Service!Stored \ run.passed
        page == Smallest(n, ahead)
    IN  /\ run.pc = "list" /\ run.page = {} /\ run.more
        /\ run' = [run EXCEPT !.page = page,
                              !.passed = @ \cup UpTo(page),
                              !.more = ahead # page]
        /\ UNCHANGED <<Tables, bucket>>

\* Only a slice of exactly batchSize keys is flushed here.
TakeKey ==
    LET taken == run.batch \cup Smallest(1, run.page)
    IN  /\ run.pc = "list" /\ run.page # {}
        /\ run' = [run EXCEPT
              !.page = @ \ Smallest(1, @), !.batch = taken,
              !.pc = IF Cardinality(taken) = BatchSize THEN "query" ELSE @]
        /\ UNCHANGED <<Tables, bucket>>

\* FAULT: what is left in the slice at the end is forgotten.
EndListingUnflushed ==
    /\ run.pc = "list" /\ run.page = {} /\ ~run.more
    /\ run' = [NoRun EXCEPT !.due = run.due]
    /\ UNCHANGED <<Tables, bucket>>

\* FAULT: an empty slice is flushed.
EndListingAlways ==
    /\ run.pc = "list" /\ run.page = {} /\ ~run.more
    /\ run' = [run EXCEPT !.pc = "query", !.final = TRUE]
    /\ UNCHANGED <<Tables, bucket>>

\* The last flush; it has nothing to do if the slice is empty.
EndListing ==
    /\ run.pc = "list" /\ run.page = {} /\ ~run.more
    /\ run' = IF run.batch = {}
              THEN [NoRun EXCEPT !.due = run.due]
              ELSE [run EXCEPT !.pc = "query", !.final = TRUE]
    /\ UNCHANGED <<Tables, bucket>>

\* FAULT: every key of the slice is deleted.
QueryNothing ==
    /\ run.pc = "query"
    /\ run' = [run EXCEPT !.pc = "delete", !.batch = {}, !.doomed = run.batch]
    /\ UNCHANGED <<Tables, bucket>>

\* GetExistingScrollIDs: a row counts whatever its jar or its mark.
Query ==
    /\ run.pc = "query"
    /\ run' = [run EXCEPT
          !.pc = "delete", !.batch = {},
          !.doomed = {s \in run.batch : ~Service!IsRow(s)}]
    /\ UNCHANGED <<Tables, bucket>>

\* FAULT: a failed query drops the slices.
QueryFailsDropping ==
    /\ run.pc = "query" /\ ~run.final /\ ~run.lucky
    /\ run' = [run EXCEPT !.pc = "list", !.batch = {}]
    /\ UNCHANGED <<Tables, bucket>>

\* The error is logged and the run goes on with the slices as they are.
QueryFails ==
    /\ run.pc = "query" /\ ~run.final /\ ~run.lucky
    /\ run' = [run EXCEPT !.pc = "list"]
    /\ UNCHANGED <<Tables, bucket>>

\* What DeleteObjects can do: a request that names no key or too many keys is
\* refused as a whole, any key may fail, and DeleteBatch hides all of that.
Deletable == CASE run.lucky -> {run.doomed}
               [] Cardinality(run.doomed) > BatchSize -> {{}}
               [] OTHER -> SUBSET run.doomed

DeleteKeys(D) ==
    /\ run.pc = "delete"
    /\ bucket' = [s \in Scrolls |-> IF s \in D THEN None ELSE bucket[s]]
    /\ LET due == IF D = run.doomed THEN run.due \ D ELSE {}
       IN  run' = IF run.final
                  THEN [NoRun EXCEPT !.due = due]
                  ELSE [run EXCEPT !.pc = "list", !.doomed = {}, !.due = due]
    /\ UNCHANGED Tables

DeleteBatch == \E D \in Deletable : DeleteKeys(D)

\* The process ends at one of its calls: an error of the listing or of the last
\* query, or it is killed.
Stop ==
    /\ run.pc # "idle" /\ ~run.lucky
    /\ run.pc = "list" => run.page = {} /\ run.more
    /\ run' = NoRun
    /\ UNCHANGED <<Tables, bucket>>

-----------------------------------------------------------------------------
RunNext == \/ \E lucky \in BOOLEAN : Start(lucky)
           \/ NextPage \/ TakeKey \/ EndListing
           \/ Query \/ QueryFails \/ DeleteBatch \/ Stop

Next == \/ UNCHANGED run /\ Service!RequestNext
        \/ RunNext

Spec == Init /\ [][Next]_vars

\* A cron job starts the cleaner again and again, each of its calls returns or
\* fails, and not every run meets a failure.  Requests promise nothing.
Fairness == WF_vars(RunNext) /\ SF_vars(Start(TRUE))

FairSpec == Spec /\ Fairness

-----------------------------------------------------------------------------
Ahead(s) == s \in run.page \/ (run.more /\ s \notin run.passed)

\* Whatever was an orphan when the run started is still ahead of the listing or
\* in one of the slices until its deletion is asked for; a run that comes to
\* its end without losing a page, its last query or a deletion owes nothing.
NothingForgotten ==
    \A s \in run.due :
        Ahead(s) \/ s \in run.batch \/ s \in run.doomed

\* This cleaner, beside the requests, does nothing that the outline of it in
\* ScrollService cannot do: every property of that module holds with it.
ImplementsService == Service!Spec

\* The object of a deleted scroll leaves the bucket in the end, also one that
\* a late upload stores after the row is gone, whatever is uploaded and removed
\* while the cleaner is at work and wherever its other runs break off.
OrphansCollected ==
    \A s \in Scrolls :
        scroll[s].state = "deleted" /\ bucket[s] # None ~> bucket[s] = None
=============================================================================
