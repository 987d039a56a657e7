---------------------------- MODULE ScrollService ----------------------------
(***************************************************************************)
(* The paste service: the API handlers that create, upload, read, edit and *)
(* delete scrolls, the two PostgreSQL tables they share, the S3 bucket     *)
(* that holds the contents and the cleaner that sweeps it.                 *)
(*                                                                         *)
(* Every SQL statement (with its triggers) and every S3 operation is one   *)
(* step; a handler is the sequence of its steps, and the steps of          *)
(* different requests interleave freely.  What two statements do to each   *)
(* other while both are running is the subject of module JarTx.  The       *)
(* cleaner is an outline here: it lists, asks and deletes in portions of   *)
(* any size.  Module Cleaner has its loop, and implements this one.        *)
(*                                                                         *)
(* Ids are eight random base-62 characters, so an id that was deleted is   *)
(* taken never to be drawn again: "free" ids become "row", then "deleted". *)
(***************************************************************************)
EXTENDS Naturals, FiniteSets, Sequences

CONSTANTS
    Jars, Scrolls,      \* ids the generator can draw
    Users,              \* authenticated accounts
    Texts,              \* titles and formats a client can send
    Contents,           \* bodies a client can upload
    Requests,           \* HTTP requests that can be in flight together
    Workload,           \* kinds of request the clients send
    MaxScrolls,         \* scrolls one CreateJar may carry (254)
    MaxVersion,         \* bound: a row edited this often gets no new PATCH
    None

ASSUME NoneAssumption ==
    None \notin Jars \cup Scrolls \cup Users \cup Texts \cup Contents
ASSUME BoundAssumption == MaxScrolls \in Nat /\ MaxVersion \in Nat \ {0}

VARIABLES
    jar,        \* table scrolljar: state of the row and its user_id
    scroll,     \* table scroll; version stands for updated_at
    bucket,     \* S3: the object stored under jar/scroll, or None
    token,      \* upload tokens that clients hold and that have not expired
    request,    \* per request: where its handler is and what it has read
    cleaner,    \* keys the cleaner holds, and those it is about to delete
    acked       \* history: the contents whose upload was answered 200

vars == <<jar, scroll, bucket, token, request, cleaner, acked>>

-----------------------------------------------------------------------------
Fields == {"title", "format"}
Metadata == [Fields -> Texts \cup {None}]       \* None is SQL NULL / absent
Blank == [f \in Fields |-> None]

JarStates == {"free", "permanent", "expiring", "expired", "deleted"}
LiveStates == {"permanent", "expiring"}
RowStates == LiveStates \cup {"expired"}
JarRows == [state : JarStates, owner : Users \cup {None}]
FreeJar == [state |-> "free", owner |-> None]
GoneJar == [state |-> "deleted", owner |-> None]

ScrollRows == [state : {"free", "row", "deleted"}, jar : Jars \cup {None},
               uploaded : BOOLEAN, meta : Metadata, version : Nat]
FreeScroll == [state |-> "free", jar |-> None, uploaded |-> FALSE,
               meta |-> Blank, version |-> 0]
GoneScroll == [FreeScroll EXCEPT !.state = "deleted"]
NewScroll(j, m) == [state |-> "row", jar |-> j, uploaded |-> FALSE,
                    meta |-> m, version |-> 0]
\* What the two UPDATEs make of a row; the trigger moves updated_at.
TouchedBack(row) == [row EXCEPT !.version = @ - 1]      \* FAULT: clock set back
Touched(row) == [row EXCEPT !.version = @ + 1]
Edited(row, m) == Touched([row EXCEPT !.meta = m])
Published(row) == Touched([row EXCEPT !.uploaded = TRUE])

Ops == {"create", "patch", "delete", "deleteJar", "upload", "fetch"}
RequestRecords ==
    [pc : {"idle", "authorize", "write", "stream", "mark", "jar", "url"},
     op : Ops \cup {"none"}, user : Users \cup {None},
     jar : Jars \cup {None}, scroll : Scrolls \cup {None},
     input : Metadata, meta : Metadata, version : Nat,
     content : Contents \cup {None}]
Idle == [pc |-> "idle", op |-> "none", user |-> None, jar |-> None,
         scroll |-> None, input |-> Blank, meta |-> Blank, version |-> 0,
         content |-> None]

CleanerRecords == [batch : SUBSET Scrolls, doomed : SUBSET Scrolls]
CleanerIdle == [batch |-> {}, doomed |-> {}]

TypeOK ==
    /\ jar \in [Jars -> JarRows]
    /\ scroll \in [Scrolls -> ScrollRows]
    /\ bucket \in [Scrolls -> Contents \cup {None}]
    /\ token \in [Scrolls -> SUBSET {"create", "patch"}]
    /\ request \in [Requests -> RequestRecords]
    /\ cleaner \in CleanerRecords
    /\ acked \in [Scrolls -> Seq(Contents)]

Init ==
    /\ jar = [j \in Jars |-> FreeJar]
    /\ scroll = [s \in Scrolls |-> FreeScroll]
    /\ bucket = [s \in Scrolls |-> None]
    /\ token = [s \in Scrolls |-> {}]
    /\ request = [r \in Requests |-> Idle]
    /\ cleaner = CleanerIdle
    /\ acked = [s \in Scrolls |-> <<>>]

-----------------------------------------------------------------------------
(* What the queries see. *)

JarRowExists(j) == jar[j].state \in RowStates
JarLive(j) == jar[j].state \in LiveStates
IsRow(s) == scroll[s].state = "row"
ScrollsOf(j) == {s \in Scrolls : IsRow(s) /\ scroll[s].jar = j}
\* GetScroll: the row joined with a jar that has not expired.
Found(s) == IsRow(s) /\ JarLive(scroll[s].jar)
MatchesAnyVersion(r) == IsRow(request[r].scroll)        \* FAULT: id only
\* WHERE id = $1 AND updated_at = $2, with the updated_at the request read.
Matches(r) == /\ IsRow(request[r].scroll)
              /\ scroll[request[r].scroll].version = request[r].version

At(r, op, pc) == request[r].op = op /\ request[r].pc = pc
Finish(r) == request' = [request EXCEPT ![r] = Idle]
Goto(r, pc) == request' = [request EXCEPT ![r].pc = pc]

\* The answer carries the new upload token, unless it never arrives.
Deliver(S, kind) ==
    \/ token' = [s \in Scrolls |-> IF s \in S THEN token[s] \cup {kind}
                                              ELSE token[s]]
    \/ UNCHANGED token

\* FAULT: a row that is only marked, and can be uploaded to again.
RemoveRowsSoftly(S) ==
    scroll' = [s \in Scrolls |-> IF s \in S
                                 THEN [scroll[s] EXCEPT !.uploaded = FALSE]
                                 ELSE scroll[s]]

RemoveRows(S) ==
    scroll' = [s \in Scrolls |-> IF s \in S THEN GoneScroll ELSE scroll[s]]

-----------------------------------------------------------------------------
(* Jars: creation is one transaction, expiry is the passing of time. *)

NewJar(state, user) == [state |-> state, owner |-> user]

\* user is None for an anonymous client, whose jar always gets an expiry.
CreateJar(j, S, user, state, m) ==
    /\ jar[j].state = "free"
    /\ \A s \in S : scroll[s].state = "free"
    /\ Cardinality(S) <= MaxScrolls
    /\ user = None => state = "expiring"
    /\ jar' = [jar EXCEPT ![j] = NewJar(state, user)]
    /\ scroll' = [s \in Scrolls |-> IF s \in S THEN NewScroll(j, m)
                                               ELSE scroll[s]]
    /\ Deliver(S, "create")
    /\ UNCHANGED <<bucket, request, cleaner, acked>>

ExpireJar(j) ==
    /\ jar[j].state = "expiring"
    /\ jar' = [jar EXCEPT ![j].state = "expired"]
    /\ UNCHANGED <<scroll, bucket, token, request, cleaner, acked>>

\* A token lives five minutes; the service keeps nothing about it.
ExpireToken(s, kind) ==
    /\ kind \in token[s]
    /\ token' = [token EXCEPT ![s] = @ \ {kind}]
    /\ UNCHANGED <<jar, scroll, bucket, request, cleaner, acked>>

-----------------------------------------------------------------------------
(* Requests of an authenticated user: start, authorize, write. *)

\* FAULT: PATCH of a scroll that is not uploaded.
StartScrollRequestEarly(r, op, user, s, input) ==
    /\ op \in {"patch", "delete"} \cap Workload
    /\ request[r].pc = "idle"
    /\ Found(s)
    /\ op = "patch" => scroll[s].version < MaxVersion
    /\ op = "delete" => input = Blank
    /\ request' = [request EXCEPT ![r] =
         [pc |-> "authorize", op |-> op, user |-> user,
          jar |-> scroll[s].jar, scroll |-> s, input |-> input,
          meta |-> scroll[s].meta, version |-> scroll[s].version,
          content |-> None]]
    /\ UNCHANGED <<jar, scroll, bucket, token, cleaner, acked>>

\* PATCH and DELETE /scroll/{id} read the row before the owner is checked.
StartScrollRequest(r, op, user, s, input) ==
    /\ op \in {"patch", "delete"} \cap Workload
    /\ request[r].pc = "idle"
    /\ Found(s)
    /\ op = "patch" => /\ scroll[s].uploaded
                       /\ scroll[s].version < MaxVersion
    /\ op = "delete" => input = Blank
    /\ request' = [request EXCEPT ![r] =
         [pc |-> "authorize", op |-> op, user |-> user,
          jar |-> scroll[s].jar, scroll |-> s, input |-> input,
          meta |-> scroll[s].meta, version |-> scroll[s].version,
          content |-> None]]
    /\ UNCHANGED <<jar, scroll, bucket, token, cleaner, acked>>

\* POST /scroll/{jar} and DELETE /jar/{id} name the jar and read nothing.
StartJarRequest(r, op, user, j, input) ==
    /\ op \in {"create", "deleteJar"} \cap Workload
    /\ request[r].pc = "idle"
    /\ jar[j].state # "free"
    /\ op = "deleteJar" => input = Blank
    /\ request' = [request EXCEPT ![r] =
         [Idle EXCEPT !.pc = "authorize", !.op = op, !.user = user,
                      !.jar = j, !.input = input]]
    /\ UNCHANGED <<jar, scroll, bucket, token, cleaner, acked>>

\* FAULT: a jar without an owner passes.
IsJarCreatorOrUnowned(r) ==
    LET j == request[r].jar
    IN  JarLive(j) /\ jar[j].owner \in {request[r].user, None}

\* requireJarCreator: an expired or missing jar has no creator.
IsJarCreator(r) ==
    LET j == request[r].jar
    IN  JarLive(j) /\ jar[j].owner = request[r].user

Authorize(r) ==
    /\ request[r].pc = "authorize"
    /\ \/ IsJarCreator(r) /\ Goto(r, "write")
       \/ ~IsJarCreator(r) /\ Finish(r)
    /\ UNCHANGED <<jar, scroll, bucket, token, cleaner, acked>>

\* The row as read, with the fields that the client sent put over it.
Patched(r) == [f \in Fields |-> IF request[r].input[f] # None
                                THEN request[r].input[f]
                                ELSE request[r].meta[f]]

PatchApply(r) ==
    /\ At(r, "patch", "write")
    /\ Matches(r)
    /\ scroll' = [scroll EXCEPT ![request[r].scroll] = Edited(@, Patched(r))]
    /\ Deliver({request[r].scroll}, "patch")
    /\ Finish(r)
    /\ UNCHANGED <<jar, bucket, cleaner, acked>>

\* ErrEditConflict, answered 409.
PatchConflict(r) ==
    /\ At(r, "patch", "write")
    /\ ~Matches(r)
    /\ Finish(r)
    /\ UNCHANGED <<jar, scroll, bucket, token, cleaner, acked>>

\* delete_empty_scrolljar removes the jar of the last scroll; deleting a row
\* that is already gone succeeds and changes nothing.
DeleteWrite(r) ==
    LET s == request[r].scroll
        j == request[r].jar
    IN  /\ At(r, "delete", "write")
        /\ RemoveRows({s})
        /\ jar' = IF ScrollsOf(j) = {s} THEN [jar EXCEPT ![j] = GoneJar]
                                        ELSE jar
        /\ Finish(r)
        /\ UNCHANGED <<bucket, token, cleaner, acked>>

\* ON DELETE CASCADE takes the scrolls of the jar along.
DeleteJarWrite(r) ==
    LET j == request[r].jar
    IN  /\ At(r, "deleteJar", "write")
        /\ RemoveRows(ScrollsOf(j))
        /\ jar' = [jar EXCEPT ![j] = GoneJar]
        /\ Finish(r)
        /\ UNCHANGED <<bucket, token, cleaner, acked>>

\* FAULT: no foreign key.
CreateWriteUnchecked(r, s) ==
    /\ At(r, "create", "write")
    /\ scroll[s].state = "free"
    /\ scroll' = [scroll EXCEPT ![s] =
                    NewScroll(request[r].jar, request[r].input)]
    /\ Deliver({s}, "create")
    /\ Finish(r)
    /\ UNCHANGED <<jar, bucket, cleaner, acked>>

\* The foreign key asks for a jar row; an expired one will do.
CreateWrite(r, s) ==
    /\ At(r, "create", "write")
    /\ JarRowExists(request[r].jar)
    /\ scroll[s].state = "free"
    /\ scroll' = [scroll EXCEPT ![s] =
                    NewScroll(request[r].jar, request[r].input)]
    /\ Deliver({s}, "create")
    /\ Finish(r)
    /\ UNCHANGED <<jar, bucket, cleaner, acked>>

-----------------------------------------------------------------------------
(* PUT /upload: the token names the scroll, no account is asked for. *)

UploadStart(r, s, c) ==
    /\ "upload" \in Workload
    /\ request[r].pc = "idle"
    /\ token[s] # {}
    /\ Found(s)
    /\ ~scroll[s].uploaded
    /\ request' = [request EXCEPT ![r] =
         [Idle EXCEPT !.pc = "stream", !.op = "upload", !.scroll = s,
                      !.version = scroll[s].version, !.content = c]]
    /\ UNCHANGED <<jar, scroll, bucket, token, cleaner, acked>>

\* StreamingUpload: the object appears whole.  S3 may have stored it although
\* the client library reports an error, and then the handler gives up.
UploadStream(r) ==
    /\ At(r, "upload", "stream")
    /\ bucket' = [bucket EXCEPT ![request[r].scroll] = request[r].content]
    /\ Goto(r, "mark") \/ Finish(r)
    /\ UNCHANGED <<jar, scroll, token, cleaner, acked>>

\* SetScrollUploaded hits the row; the 200 reaches the client or is lost.
UploadPublish(r) ==
    LET s == request[r].scroll
    IN  /\ At(r, "upload", "mark")
        /\ Matches(r)
        /\ scroll' = [scroll EXCEPT ![s] = Published(@)]
        /\ \/ acked' = [acked EXCEPT ![s] = Append(@, request[r].content)]
           \/ UNCHANGED acked
        /\ Finish(r)
        /\ UNCHANGED <<jar, bucket, token, cleaner>>

\* ErrEditConflict, answered 409: the object that was stored stays.
UploadConflict(r) ==
    /\ At(r, "upload", "mark")
    /\ ~Matches(r)
    /\ Finish(r)
    /\ UNCHANGED <<jar, scroll, bucket, token, cleaner, acked>>

-----------------------------------------------------------------------------
(* GET /scroll/{id}: the row, then its jar, then a URL for the object. *)

\* FAULT: a row that waits for its upload is found.
FetchStartEarly(r, s) ==
    /\ "fetch" \in Workload
    /\ request[r].pc = "idle"
    /\ Found(s)
    /\ request' = [request EXCEPT ![r] =
         [Idle EXCEPT !.pc = "jar", !.op = "fetch", !.scroll = s,
                      !.jar = scroll[s].jar]]
    /\ UNCHANGED <<jar, scroll, bucket, token, cleaner, acked>>

FetchStart(r, s) ==
    /\ "fetch" \in Workload
    /\ request[r].pc = "idle"
    /\ Found(s)
    /\ scroll[s].uploaded
    /\ request' = [request EXCEPT ![r] =
         [Idle EXCEPT !.pc = "jar", !.op = "fetch", !.scroll = s,
                      !.jar = scroll[s].jar]]
    /\ UNCHANGED <<jar, scroll, bucket, token, cleaner, acked>>

\* GetJar, the password, and a presigned URL that no table knows of.
FetchURL(r) ==
    /\ At(r, "fetch", "jar")
    /\ \/ JarLive(request[r].jar) /\ Goto(r, "url")
       \/ ~JarLive(request[r].jar) /\ Finish(r)
    /\ UNCHANGED <<jar, scroll, bucket, token, cleaner, acked>>

\* The reader goes to S3 with the URL, or lets its three minutes pass.
FetchObject(r) ==
    /\ At(r, "fetch", "url")
    /\ Finish(r)
    /\ UNCHANGED <<jar, scroll, bucket, token, cleaner, acked>>

\* A request ends between two steps: an error from the database or from S3, a
\* rejected body, a foreign key violation, a client that hangs up, a crash.
Abandon(r) ==
    /\ request[r].pc # "idle"
    /\ Finish(r)
    /\ UNCHANGED <<jar, scroll, bucket, token, cleaner, acked>>

-----------------------------------------------------------------------------
(* The cleaner: list keys, ask which rows exist, delete the others. *)

Stored == {s \in Scrolls : bucket[s] # None}

CleanerList ==
    /\ cleaner.doomed = {}
    /\ \E B \in (SUBSET Stored) \ {{}} :
          cleaner' = [cleaner EXCEPT !.batch = @ \cup B]
    /\ UNCHANGED <<jar, scroll, bucket, token, request, acked>>

\* FAULT: sweeps rows that wait for their upload; and: rows of expired jars.
CleanerQueryUploaded ==
    /\ cleaner.doomed = {}
    /\ \E B \in (SUBSET cleaner.batch) \ {{}} :
          cleaner' = [batch |-> cleaner.batch \ B,
                      doomed |-> {s \in B : ~scroll[s].uploaded}]
    /\ UNCHANGED <<jar, scroll, bucket, token, request, acked>>

CleanerQueryLive ==
    /\ cleaner.doomed = {}
    /\ \E B \in (SUBSET cleaner.batch) \ {{}} :
          cleaner' = [batch |-> cleaner.batch \ B,
                      doomed |-> {s \in B : ~Found(s)}]
    /\ UNCHANGED <<jar, scroll, bucket, token, request, acked>>

CleanerQuery ==
    /\ cleaner.doomed = {}
    /\ \E B \in (SUBSET cleaner.batch) \ {{}} :
          cleaner' = [batch |-> cleaner.batch \ B,
                      doomed |-> {s \in B : ~IsRow(s)}]
    /\ UNCHANGED <<jar, scroll, bucket, token, request, acked>>

\* DeleteObjects may fail for any of the keys; DeleteBatch hides it.
CleanerDelete ==
    /\ \E D \in SUBSET cleaner.doomed :
          bucket' = [s \in Scrolls |-> IF s \in D THEN None ELSE bucket[s]]
    /\ cleaner' = [cleaner EXCEPT !.doomed = {}]
    /\ UNCHANGED <<jar, scroll, token, request, acked>>

\* An error of the listing or of the query, or a crash: the keys are lost.
CleanerStop ==
    /\ cleaner # CleanerIdle
    /\ cleaner' = CleanerIdle
    /\ UNCHANGED <<jar, scroll, bucket, token, request, acked>>

-----------------------------------------------------------------------------
RequestNext ==
    \/ \E j \in Jars, S \in SUBSET Scrolls, user \in Users \cup {None},
          state \in LiveStates, m \in Metadata :
             CreateJar(j, S, user, state, m)
    \/ \E j \in Jars : ExpireJar(j)
    \/ \E s \in Scrolls, kind \in {"create", "patch"} : ExpireToken(s, kind)
    \/ \E r \in Requests, user \in Users, input \in Metadata :
          \/ \E s \in Scrolls, op \in {"patch", "delete"} :
                StartScrollRequest(r, op, user, s, input)
          \/ \E j \in Jars, op \in {"create", "deleteJar"} :
                StartJarRequest(r, op, user, j, input)
    \/ \E r \in Requests, s \in Scrolls : CreateWrite(r, s) \/ FetchStart(r, s)
    \/ \E r \in Requests, s \in Scrolls, c \in Contents : UploadStart(r, s, c)
    \/ \E r \in Requests :
          \/ Authorize(r)
          \/ PatchApply(r)
          \/ PatchConflict(r)
          \/ DeleteWrite(r)
          \/ DeleteJarWrite(r)
          \/ UploadStream(r)
          \/ UploadPublish(r)
          \/ UploadConflict(r)
          \/ FetchURL(r)
          \/ FetchObject(r)
          \/ Abandon(r)

CleanerNext ==
    \/ CleanerList
    \/ CleanerQuery
    \/ CleanerDelete
    \/ CleanerStop

Next == RequestNext \/ CleanerNext

Spec == Init /\ [][Next]_vars

-----------------------------------------------------------------------------
(* Safety *)

\* A reader who finds a row marked uploaded (getScroll hands out its fetch URL)
\* finds an object behind it, whatever uploads, deletions and cleaner runs
\* overlap: SetScrollUploaded only follows a stored object of the same key.
PublishedHasObject ==
    \A s \in Scrolls : IsRow(s) /\ scroll[s].uploaded => bucket[s] # None

\* The URL that a reader was given leads to an object for as long as the row is
\* there: neither the expiry of the jar, nor the cleaner, nor another upload in
\* between takes it away, although the URL is used long after the row was read.
UrlFindsObject ==
    \A r \in Requests : At(r, "fetch", "url") /\ IsRow(request[r].scroll) =>
        bucket[request[r].scroll] # None

\* At most one of the uploads that race for a scroll, with one token or with
\* several, is ever answered 200: updated_at lets one SetScrollUploaded win.
SingleAck == \A s \in Scrolls : Len(acked[s]) <= 1

\* The foreign key, the cascade and the trigger that drops an empty jar keep
\* every scroll row in a jar row, also when a create outlives its jar.
ScrollHasJar == \A s \in Scrolls : IsRow(s) => JarRowExists(scroll[s].jar)

\* Two PATCHes that overlap never undo each other: the request whose write
\* changes a field carried that field, with the value that it gets, although the
\* handler writes back the whole row it read some steps ago.  A field that was
\* not sent is never set back, also not to NULL.
PatchTouchesOnlyItsFields ==
    [][\A s \in Scrolls : IsRow(s) /\ scroll'[s].state = "row" =>
          \A f \in Fields : scroll'[s].meta[f] # scroll[s].meta[f] =>
             \E r \in Requests : /\ At(r, "patch", "write")
                                 /\ request'[r] # request[r]
                                 /\ request[r].scroll = s
                                 /\ request[r].input[f] # None
                                 /\ request[r].input[f] = scroll'[s].meta[f]
      ]_vars

\* A row disappears or is edited only by a request of the account that owns
\* the jar of that row, although the owner was looked up in an earlier step.
OnlyCreatorChanges ==
    [][\A s \in Scrolls :
          IsRow(s) /\ (scroll'[s].state # "row"
                       \/ scroll'[s].meta # scroll[s].meta) =>
             \E r \in Requests : /\ request[r].pc = "write"
                                 /\ request[r].user # None
                                 /\ request[r].user
                                      = jar[scroll[s].jar].owner
      ]_vars

\* A token that PATCH hands out never opens a published scroll to another
\* upload: it exists only for rows that are uploaded, and those stay so.
PatchTokenInert ==
    \A s \in Scrolls : IsRow(s) /\ "patch" \in token[s] => scroll[s].uploaded

\* The cleaner works from a listing and a query that are both out of date when
\* it deletes: it still never takes the object of a row that exists or that
\* may yet appear.
CleanerDeletesOnlyOrphans ==
    [][\A s \in Scrolls : bucket[s] # None /\ bucket'[s] = None =>
          scroll[s].state = "deleted" /\ scroll'[s].state = "deleted"]_vars

\* The service implements PasteStore.
Stage(s) == CASE scroll[s].state = "free"    -> "free"
              [] scroll[s].state = "deleted" -> "removed"
              [] IsRow(s) /\ scroll[s].uploaded  -> "published"
              [] IsRow(s) /\ ~scroll[s].uploaded -> "reserved"

Store == INSTANCE PasteStore
            WITH stage <- [s \in Scrolls |-> Stage(s)], stored <- Stored

ImplementsStore == Store!StoreSpec

-----------------------------------------------------------------------------
(* The inductive invariant behind the safety properties. *)

\* What a request carries once it has an operation, and that its ids were drawn.
RequestShape ==
    \A r \in Requests :
        LET q == request[r] IN
        /\ q.op = "none" => q.pc = "idle"
        /\ q.op = "upload" => q.pc \in {"stream", "mark"} /\ q.content # None
        /\ q.op = "fetch" => q.pc \in {"jar", "url"}
        /\ q.op \in {"patch", "delete", "upload", "fetch"} =>
              q.scroll \in Scrolls /\ scroll[q.scroll].state # "free"
        /\ q.op \in {"patch", "delete", "create", "deleteJar"} =>
              /\ q.pc \in {"authorize", "write"}
              /\ q.user \in Users
              /\ q.jar \in Jars /\ jar[q.jar].state # "free"

\* A request that passed the owner check still comes from the owner, and the
\* row that it read is still in the jar it read.
WriterOwnsJar ==
    \A r \in Requests :
        LET q == request[r] IN
        /\ q.pc = "write" /\ JarRowExists(q.jar) => jar[q.jar].owner = q.user
        /\ q.op \in {"patch", "delete"} /\ IsRow(q.scroll) =>
              scroll[q.scroll].jar = q.jar

\* A request never knows a newer version than the table, and if it knows the
\* current one, then what it read with it is current as well.
ReadsAreOld ==
    \A r \in Requests :
        LET q == request[r]
            row == scroll[q.scroll]
        IN  q.op \in {"patch", "upload"} /\ IsRow(q.scroll) =>
              /\ q.version <= row.version
              /\ q.version = row.version =>
                    /\ q.op = "patch" => q.meta = row.meta
                    /\ q.op = "upload" => ~row.uploaded

\* Between the upload and the mark the object cannot go away under a row.
MarkHasObject ==
    \A r \in Requests : request[r].pc = "mark" /\ IsRow(request[r].scroll) =>
        bucket[request[r].scroll] # None

\* Only ids that were drawn have objects; what the cleaner dooms is deleted.
CleanerKnows ==
    /\ \A s \in Scrolls : bucket[s] # None => scroll[s].state # "free"
    /\ \A s \in cleaner.batch : scroll[s].state # "free"
    /\ \A s \in cleaner.doomed : scroll[s].state = "deleted"

AckedIsUploaded ==
    \A s \in Scrolls : acked[s] # <<>> =>
        /\ Len(acked[s]) = 1
        /\ scroll[s].state # "free"
        /\ IsRow(s) => scroll[s].uploaded

\* Only rows get upload tokens; a PATCH or a GET is under way only for a row that
\* was uploaded when it was read.
TokensAreIssued == \A s \in Scrolls : token[s] # {} => scroll[s].state # "free"
ReadsUploaded ==
    \A r \in Requests :
        request[r].op \in {"patch", "fetch"} /\ IsRow(request[r].scroll) =>
            scroll[request[r].scroll].uploaded

IInv ==
    /\ TypeOK
    /\ RequestShape
    /\ WriterOwnsJar
    /\ ReadsAreOld
    /\ MarkHasObject
    /\ CleanerKnows
    /\ AckedIsUploaded
    /\ PublishedHasObject
    /\ TokensAreIssued
    /\ ReadsUploaded
    /\ PatchTokenInert
    /\ \A s \in Scrolls : IsRow(s) => scroll[s].jar \in Jars
    /\ ScrollHasJar

-----------------------------------------------------------------------------
(* What the documents say and the code does not do; see the README. *)

\* store.go:73: SetScrollUploaded is there "for optimistic locking", so an
\* upload answered 409 should leave the content acknowledged before it alone.
AckedContentServed ==
    \A s \in Scrolls : IsRow(s) /\ acked[s] # <<>> => bucket[s] = acked[s][1]
=============================================================================
