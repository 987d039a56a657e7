# Verification of scrolljar

TLA+ models of the scrolljar backend (a paste service in Go on PostgreSQL and
S3), the TLC runs that check them and the TLAPS proofs about them. Paths are
relative to the repository, which is under `src/`; `h_scroll.go` stands for
`internal/api/handler_scroll.go`, `empty_jar.sql` and `update_trigger.sql` for the
migrations of these names, other files are named by their base name.

## 1. The system

| Part | State it keeps | Operations | Talks to |
|---|---|---|---|
| write handlers (`h_scroll.go`, `handler_jar.go`) | none; local variables between their steps | CreateJar, CreateScroll, PatchScroll, DeleteScroll, DeleteJar, UploadScroll | store, bucket, upload tokens |
| read handlers (same files, `handler_user.go`) | none | GetJar, GetJarScrolls, GetScroll, GetUser, GetUserJars | store, presigned URLs |
| upload tokens (`helpers.go`) | none in the service: a JWT with a life of five minutes is in the client's hands | create, verify | handlers |
| tables `scrolljar`, `scroll` and triggers (migrations, `*.sql.go`) | jars, scrolls, `updated_at` as version | one statement per call; triggers delete empty jars and touch the jar | each other through row locks |
| tables `user_account`, `token` (same) | accounts, one token per account and scope | insert, update, upsert, delete | each other through row locks |
| store (`store.go`) | none; per request the transaction and the ids it has inserted | transactions, optimistic locking, retry of ids | tables |
| account handlers (`handler_user.go`, `handler_token.go`) | none | register, activate, new activation token, login | store, mail |
| bucket (`s3.go`) | one object per `jar/scroll` key | upload, batch delete, list in pages, presign | handlers, cleaner |
| cleaner (`cmd/cleaner/main.go`) | a page, two slices | list keys, ask which rows exist, delete the other objects | bucket, `scroll` |
| middlewares (`middleware.go`, `routes.go`) | per route a table of IP limiters behind a mutex, with a janitor goroutine | recover, limit, authenticate | handlers, pool |
| server (`app.go`) | listener, pool, WaitGroup | serve, shut down on a signal | everything |
| mail tasks (`helpers.go`, `handler_user.go`, `mailer.go`) | attempts left | send | server (WaitGroup) |
| text validation (`helpers.go`) with the uploader of the AWS SDK | what was read, a part that fills up | read, check, send a part | connection, bucket |
| validation, errors, JSON, logging, generated router and queries | none | pure functions | - |

What is hard here, and what has to be true in spite of it:

- A handler is several SQL and S3 calls and nothing holds a lock in between. A
  scroll is published only with an object behind it, which a reader still finds
  later on; one upload wins; a PATCH undoes no other PATCH; only the owner of the
  jar changes rows.
- The cleaner acts on two answers that are out of date, in portions, and goes on
  after failures. It must never take the object of a scroll that exists, lose
  none between its slices, and get every orphan in the end.
- A body is cut by the network, the limit, the text check and the parts of a
  multipart upload. No piece or mixture of pieces may become the object.
- Ids are drawn without asking, in a loop that is also used where it cannot
  work. A creation is all or nothing, and never takes another one's rows.
- Triggers run statements of their own at READ COMMITTED. Rows never lose their
  jar, a deleted row never comes back, every deadlock is broken; whether a jar
  goes exactly with its last scroll is another matter.
- Tokens of accounts are replaced while they are in use.
- A shutdown overlaps with requests, mail and an open listener, and its deadline
  runs all along; the janitor overlaps with requests that hold a limiter.

`PROJECT.json` lists the parts with their status, and every hazard with the line
where it bites.

## 2. The modules

| Module | Models |
|---|---|
| `PasteStore` | abstract: the life of a paste - free, reserved, published, removed - and of its stored content |
| `ScrollService` | write handlers and `GetScroll`, tables (a statement is a step), bucket, upload tokens, the cleaner in outline; shown to implement `PasteStore` |
| `Cleaner` | the cleaner's loop beside the requests of `ScrollService`; shown to implement its outline there |
| `UploadBody` | one body on its way from the connection to the bucket |
| `JarCreation` | how rows get their ids: retries, transactions, unique indexes, expiry |
| `JarTable` | abstract: one jar and its scrolls as others see them - inserted, updated, removed, gone with the jar |
| `JarTx` | one jar in PostgreSQL: what the statements of `ScrollService` do to each other while they run; shown to implement `JarTable` |
| `Accounts` | registration, activation, tokens and login, statement by statement |
| `ApiServer` | middlewares, limiters and janitor, mail tasks, shutdown |
| `ScrollServiceProofs`, `CleanerProofs`, `UploadBodyProofs`, `JarCreationProofs`, `JarTxProofs`, `AccountsProofs`, `ApiServerProofs` | the theorems about the module of that name |
| `Circles` | theorem: where all wait, some wait in a circle; for `JarTxProofs` and `JarCreationProofs` |
| `MC...` | the symmetry sets for TLC, where there are any; the values are in the `.cfg` files |

Definitions marked `\* FAULT` are no part of a specification. Each one is the
definition that follows it with a plausible bug, and says what is missing; put
in its place it must break the property for which `PROJECT.json` names it. They
show that each property depends on the code it is about.

### ScrollService

- `jar`, `scroll` are the tables. Ids are eight random characters that are not
  drawn twice: a row goes from `free` to present to `deleted`. `version` stands
  for `updated_at`: it only has to differ after each update. A jar is
  `permanent`, `expiring` or `expired`; an expired one is invisible to
  `GetJarOwnerID`, `GetJar` and `GetScroll`, but still satisfies the foreign key.
- `bucket` holds the content under a scroll's key. `token` holds the upload tokens
  that some client has, by the operation that issued them.
- `request[r]` is a handler between two calls: `pc` says which call is next, the
  other fields are its local variables. `Authorize` is `requireJarCreator`;
  `Matches` is `WHERE id = $1 AND updated_at = $2`. `UploadStart`, `UploadStream`
  and `UploadPublish`/`UploadConflict` are the three calls of `uploadScroll`;
  `FetchStart`, `FetchURL` are the calls of `getScroll`, and `FetchObject` is the
  client using the URL, which the service does not see. `Abandon` is every other
  end: an error, a body that is refused, a crash.
- `cleaner` is an outline of any such program: it adds some stored keys to `batch`,
  asks about some of them, dooms those without a row, deletes any part of them,
  and may stop anywhere.
- `acked` is history: what was answered 200. `Deliver` loses answers.
- `StartScrollRequest` has the guard `version < MaxVersion`, a bound: it keeps TLC
  finite and is in the model only for PATCH. `Workload` chooses the operations a
  run looks at.

### Cleaner

`run` is the local state of `main` and of its iterator. `NextPage` is
`ListObjectsV2`, which may answer with fewer keys than it could; `TakeKey` is one
turn of the loop and flushes a slice of exactly `BatchSize` keys; `EndListing` is
the flush behind the loop. `QueryFails` keeps the slices, as `flush` does, so that
the next one may be too long for `DeleteObjects` (`Deletable`). `due` is history:
the orphans there were when the run began; a
deletion that takes its whole slice pays it off, and one that fails in part cancels it:
from there on `OrphansCollected` is what promises anything. `lucky` is a prophecy: it marks the runs
in which no call fails, so that fairness can promise one without promising which
calls succeed. `Held` maps the page and the slice to the outline's `batch`.
`Service!RequestNext`, everything else in `ScrollService`, runs beside it.

### UploadBody

`Read` is one turn of the uploader's `readFillBuf`: the bytes the connection has
ready, at most what `MaxBytesReader` asks for, through `Limited` and `Validated`
into `part`. A part that is full is sent (`UploadPart`), and EOF with the first one
means a single `PutObject`. Bytes are `ascii`, or the first or the second of a
two-byte rune: enough for a rune to be cut. The order of the readers is the code's,
the limit (`maxSize + 1`) inside of the text check. `net/http` and the SDK's
uploader are external and modelled from how they are used: `handler_scroll.go:168`
wraps the body, `s3.go:51` hands it over without options, so parts have 5 MiB.

### JarCreation

A `jar` request is `CreateJarWithScrolls`: a transaction that inserts the jar, then
each scroll. A `scroll` request is `InsertScroll`, a statement of its own. An insert
draws any id. If another transaction has inserted it and not ended, it waits
(`Wait`); then it gets the id or `Collides`. A collision in a transaction aborts it
(`broken`), so that the retry fails with another error (`InsertFails`); outside of
one the loop draws again. `Checked` is the CHECK of the table on the expiry that
`Valid` has let through, seen `delay` later. `Commit` and `PingAndCommit` may lose
their answer, `Cancel` is a context that ends.

Behind the index a CreateScroll meets the triggers. `InsertRow` leaves it with its id
and with the row of its jar `FOR KEY SHARE`, the lock of the foreign key, and
`PingAndCommit` needs that row for itself (`ping_parent`). Two creations that have both
come to `ping` in one jar are each other's `Sharers` and in a deadlock, whichever ids
they drew; one fails with 500. The statements of a CreateJar lock a row that nobody
else can see. Updates and deletions lock the row of a jar as well: these waits
are in `JarTx`, and what becomes of a creation that loses one is `Cancel` here.

### JarTx

A transaction goes through: wait for the scroll row and look at it again, foreign
key, trigger `delete_empty_scrolljar_trigger`, its DELETE with the cascade, trigger
`ping_scrolljar_on_scrollchange_trigger`, COMMIT. PostgreSQL fires AFTER triggers in
the order of their names; the constraint trigger `RI_...` sorts first. Effects
stay in `tx[t]` until `Commit`. Locks: `FOR KEY SHARE` by the foreign key,
exclusive by DELETE and by the fake UPDATE, which has the key column in its SET
list and meets a BEFORE UPDATE trigger. The rows that a cascade deletes fire the
triggers as well; these find no jar, as the deletion of the jar is the same
transaction's, so they change nothing. `clock` is `NOW()`, the start of a
transaction. `DeadlockAbort` and `Cancel` roll back.

`Table` maps this to `JarTable`: `Stage(s)` is `there` while the committed row is,
`free` before its insert has been committed and `gone` after that. `Commit` is then
the one step that shows, together with the cascade it may carry; every other step
of a transaction is a stutter.

### Accounts

`token[u][scope]` is the row allowed by `unique_user_scope_token`; the texts of
`newToken` are never drawn twice, and the two texts of a login count as one that
both rows share, which is how `SessionPair` can be said. A request holds the slots
it has written (`slots`) and `FOR KEY SHARE` on its account (`share`) until it ends.
`Register` is one step: its rows are new, so nobody can see or wait for them but a
second registration with the same address, which fails as a duplicate. Comparing
passwords changes no state and is left out.

### ApiServer

A request is in the IP limiter (`lookup` under the mutex, `allow` after it), in
authentication or in its handler. `Allow` and `Authenticate` may always refuse.
Each route has its own table of limiters, so the model is of one route. `bursts`
is history: when a host was given a new limiter, which starts full. It does not count
what a request still takes from a limiter that the janitor has dropped meanwhile; that
is one token of a bucket counted before.

`server` is the position of `Serve` and of the signal goroutine together: `serving`,
`waiting` (in `wg.Wait`, with tasks running), `woken` (the last of them has ended, the
goroutine has not run yet), `awaited`, `draining` (in `Shutdown`), `drained`, and four
ends: `stopped`; `timedOut`, when the deadline cuts the drain off; `failed`, when
the listener does; `panicked`. `late` says that the shutdown's context is done: it
is made before `wg.Wait`, but nothing looks at it before `Shutdown` does.

`wg.Wait` returns at once if no task is running (`Signal`). Otherwise the last `Done`
wakes it, and the goroutine looks at the counter again when it runs: if it is still
zero, it returns (`TasksAwaited`); if a handler has started a task in between, it
panics with "WaitGroup is reused before previous Wait has returned" (`WaitPanics`). The
goroutine has no `recover`, so the process dies. The runtime finds the same misuse in
two narrower places, within `Done` and within an `Add` that meets it there. These are
no actions: the first kills the process just when `WaitPanics` can, the second is
recovered as a panic of the handler, which is `Return`.

### How the parts meet

`Cleaner` composes with the requests of `ScrollService` and implements that module,
which implements `PasteStore`: what is proved of the outline holds with the loop, and
`CleanerProofs` states it as theorems about `Cleaner`.
`UploadBody` is inside of `UploadStream`: `StoredWhole` is why that step may store
the content as a whole or not at all, and a refusal is `Abandon`. `JarCreation` is
inside of `CreateJar` and `CreateWrite`: `CreatedWhole` and `RowsKept` are why these
may be single steps with fresh ids. `JarTx` justifies (and in one run limits) the
abstraction of a statement to one step: it implements `JarTable`, in which an insert,
an update, a removal or the end of a jar is a step. The limit is the case of overlapping
statements on the last scrolls of a jar: `ScrollHasJar` does not depend on it, and
`NoOrphanRow` is its counterpart. `Accounts` supplies the accounts that
`ScrollService` takes as `Users`. `ApiServer` runs the handlers of both; a handler
that is cut off is `Abandon`, `Cancel` or `Rollback` there.

## 3. What the runs show

Runs that pass:

| Run | Instance | Properties |
|---|---|---|
| `scroll_upload` | 1 jar, 2 scrolls, 2 contents, 2 requests; uploads, deletions, readers, cleaner | `TypeOK`; `PublishedHasObject`: a row marked uploaded has an object; `UrlFindsObject`: so has a URL given out before, as long as the row is there; `SingleAck`: at most one upload is answered 200; `CleanerDeletesOnlyOrphans`; `ImplementsStore` |
| `scroll_edit` | 1 jar, 1 scroll, 1 account and anonymous clients, 2 texts, 2 requests, versions up to 2; everything but reading | `PatchTouchesOnlyItsFields`: a PATCH changes a field only to the value that it carried for it itself, no lost update; `OnlyCreatorChanges`: a row is changed only by a request of the jar's owner; `ScrollHasJar`; `PatchTokenInert`: a PATCH's token exists only for an uploaded row |
| `cleaner` | 2 keys, pages of 1 or 2, batches of 1, 1 request | `TypeOK`, with the shape of the slices; `NothingForgotten`: what a run owes is ahead of it, in a slice or about to be deleted; `ImplementsService`; `OrphansCollected`: the object of a deleted scroll goes in the end |
| `upload_body` | all bodies of up to 6 bytes of 3 kinds, limits 1 and 3, parts of 3 | `TypeOK`; `StoredWhole`: the object is the whole body, valid and within the limit; `AnswersTrue`: 200 means stored, and ASCII is never invalid |
| `jar_creation` | 2 requests, 2 free jar ids, 3 scroll ids, up to 2 scrolls in a jar, periods on both sides of the limits, delays 0 and 2 | `TypeOK`; `CreatedWhole`: all or nothing; `AnsweredIsThere`: the ids in an answer are this request's rows; `LifeInBounds`; `RowsKept`; `CreationsEnd` |
| `jar_statements` | 3 transactions of any kind, 3 scrolls, 1 of them there at first | `TypeOK`; `NoOrphanRow`; `OneWinnerPerVersion`; `DeletedIsGone`; `ImplementsTable`: a statement takes effect at once, and as one step of `JarTable`; `StatementsEnd`: every statement ends |
| `accounts` | 1 account, 4 texts, 3 requests | `TypeOK`; `SessionPair`; `SessionsOnlyForActive`; `OnlyUsedTokenDeleted`; `WriteIsFresh`; `NoCircularWait`: no deadlock |
| `api_server` | 2 connections, 1 host, 2 attempts, 7 points in time | `TypeOK`; `BurstsFarApart`: no second full bucket within five minutes; `PoolOpenWhileUsed`; `EarlyTasksEnd`: what `wg.Wait` waited for is over before the process ends, unless the listener failed; `ShutdownEnds` |

Why these bounds do. The handlers race in pairs: one row, one version, one
winner, and a third request only repeats what one of two does. Two scrolls tell
"the last one of its jar" from the others, and let the cleaner hold one row and one
orphan; `scroll_edit` is about one row and the jar around it, so it has one. Two
contents tell who stored what. A jar belongs to the account or to nobody, and
requests come from the account or from nobody, so each kind of owner meets a stranger.
Two texts and the empty field are three values, so a field that a stale PATCH
would write back differs from what is there and from what it asked for; a version of 2
is a second PATCH behind the first. With batches of one key a second key after a failed query
makes a slice too long, and two keys are one or two pages. Six bytes are two parts
and the end of a third, with a rune across every border; the limits admit less than
one part, and one part and a byte. Three scroll ids for two creations that want up
to two each make them meet, wait for each other in a circle, and run out; 2, 3 and 4
are periods at, inside and at the other end of `MinLife` and `Year`, and a delay of 2
takes a period that passed the check below the CHECK. Locks are held by one or waited
for in a circle of two or three, so `jar_statements` and `accounts` have three
transactions. One account is enough because no statement takes locks of two. Seven
points in time are two evictions with `MaxIdle = 2`; limiters of two hosts never
touch each other. What the theorems cover does not depend on these bounds at all.

There is no symmetry where liveness is checked. All configurations have
`CHECK_DEADLOCK FALSE`: ids, texts and time run out in a finite instance, an upload
ends, and a server that has stopped does nothing.

Runs that TLC must find violated, each because a comment, a name or a document
promises more than the code does:

| Run | Promise | What happens |
|---|---|---|
| `acked_content` | `store.go:73`, "optimistic locking"; the loser is answered 409 | two uploads pass the check at `h_scroll.go:160`; the one that gets 409 has stored last, and its content is served |
| `jar_life` | `empty_jar.sql`, `delete_empty_scrolljar`, `IF NOT still_exists` | the DELETE of the jar waits for an insert that `SELECT EXISTS` did not see, then cascades to it; the client has had its 200 |
| `split_rune` | `README.md:35` of the repository, "Enforces size and encoding restrictions" | a rune whose two bytes come in two reads is refused as invalid text |
| `activation` | `store.go:144`, "atomically validates" | the token is replaced between the SELECT and the COMMIT; the account is activated by the replaced token |

These runs have smaller instances: the shortest such story is all they are for.
What lies behind the stories is proved for each of the four: the promise holds in every
behaviour without the overlap, or the cut, that the story needs (section 4).
`jar_life` with two scrolls at the start and two deletions fails the other way round:
each `SELECT EXISTS` still sees the other's scroll, and the jar stays, empty.

Fairness.
- `Cleaner`: a cron job starts the cleaner again and again and every call of it
  returns or fails (weak fairness of `RunNext`), and not every single run meets a
  failure (strong fairness of `Start(TRUE)`). A run without a failure has also to
  come across a batch that is not too long, which it does because a slice is kept
  only by a failed query. Requests and clients get no fairness at all, so uploads
  may hang for ever and still may not block the cleaner.
- `JarTx`: weak fairness of `Progress` says that the database server executes every
  statement, and that its deadlock detector fires; nothing forces `Cancel`.
- `JarCreation`: the same for `Statement`, and strong fairness of `InsertRow`:
  as long as some id is free, the generator does not draw used ones for ever. A
  creation in a transaction needs no such promise, as its first collision ends it.
- `ApiServer`: a mail is sent or fails (`SendMail`), the deadline passes
  (`TimeOut`), and the goroutines of `Serve` and of the shutdown go on when they can
  (`Shutdown`), all weakly: a `wg.Wait` that was woken either returns or panics, and so
  one of its two steps is enabled until it runs. Requests get none. So
  `ShutdownEnds` is a conditional promise: with a stream of registrations that never
  leaves a gap between two mail tasks, `wg.Wait` never returns, the listener stays
  open and the deadline stops nothing - `[]<>Quiet` is there for that.

## 4. What is proved

All theorems hold for all values of the constants under the named assumptions of
the modules: `None` is none of the other values, bounds and periods are numbers,
ids of jars and of scrolls differ, keys are positive numbers in the order of the
listing, and a jar gets finitely many statements, the tables finitely many creations
(`TxsAssumption`, `RequestsAssumption`: any number, each of which runs once; a circle of
waiting is only a circle if it closes).

`ScrollServiceProofs`:

| Theorem | States |
|---|---|
| `Inductive` | `Spec => []IInv` |
| `TypeCorrect`, `PublishedSafe`, `UrlsFindObjects`, `AcknowledgedOnce`, `ScrollsHaveJars`, `PatchTokensInert` | the invariants `TypeOK`, `PublishedHasObject`, `UrlFindsObject`, `SingleAck`, `ScrollHasJar`, `PatchTokenInert` |
| `OnlyOrphansDeleted`, `PatchesKeepOtherFields`, `OnlyOwnersWrite` | the action properties `CleanerDeletesOnlyOrphans`, `PatchTouchesOnlyItsFields`, `OnlyCreatorChanges` |
| `Implements` | `Spec => ImplementsStore`, the refinement of `PasteStore` |
| `ServedUnlessOverlapping` | `AckedContentServed`, given that no two uploads of a scroll overlap |

None of the invariants is inductive. The handlers act on what they read earlier,
so `IInv` says how what they remember relates to the tables:

- `RequestShape`: what a request at a given position carries, and that its ids
  have been drawn - so no row it knows can appear later;
- `ReadsAreOld`: a request never knows a newer version than the table, and if it
  knows the current one, all it read is current. This is optimistic locking; with
  it `Matches` makes a write safe;
- `MarkHasObject`: between `UploadStream` and the mark the object stays, as long as
  the row does. It needs `CleanerKnows`: what the cleaner doomed is deleted, and
  deleted ids stay deleted;
- `WriterOwnsJar`: who passed `Authorize` is the owner while the jar's row exists,
  since the owner of a row never changes and ids are not reused;
- `AckedIsUploaded`: an acknowledged upload left the row marked, so no other can
  match; `TokensAreIssued`, `ReadsUploaded`: only drawn ids have tokens, and a
  PATCH or GET that is under way saw an uploaded row, which stays so.

The lemmas `ScrollStep`, `JarStep`, `RequestStep`, `BucketStep`, `TokenStep`,
`CleanerStep` and `AckedStep` say once which actions write which variable; each part
of `IInv` is then preserved by a lemma that looks only at the actions that touch it,
and `StepInv` puts them together. `StoreStep` maps every step to a step of
`PasteStore` or to a stutter.

`CleanerProofs` proves `Implements`: `Spec => ImplementsService`, that the cleaner with
its pages and slices implements `ScrollService`, for every page and batch size. The
invariant behind it is small - in the middle of a deletion the slice is empty,
and nothing is doomed otherwise - because the outline was written to allow what
any such loop does: `NextPage` is `CleanerList` (or a stutter, if the page is empty),
`Query` is `CleanerQuery` for the whole slice, `DeleteBatch` is `CleanerDelete`,
the moves inside of the program are stutters. `Proved` is `ScrollServiceProofs` with the
cleaner's state as seen through `Held`, and `SameService` identifies the two
specifications; through them `TypesHold` (with `RunsHold` for the loop's own state),
`PublishedSafe`, `UrlsFindObjects`, `OnlyOrphansDeleted` and `ImplementsPastes` state of
`Cleaner` what was proved of the outline, down to `PasteStore`. `NoneForgotten` is
`NothingForgotten` for every number of keys. What a run owes are orphans, and these
stay orphans: no request brings a deleted row back or removes an object
(`RequestWrites`). `NextPage` cannot pass one by: a key that a page leaves out lies
behind all of its keys (`PageIsFirst`, by the cardinalities of initial segments).

`UploadBodyProofs` proves `TypesOK`, `StoredIsWhole` and `AnswersAreTrue` for bodies of
any length, any limits and any size of a part. The invariant: what was read is
`parts` and `part` together, a prefix of the body of `taken` bytes; it is valid text
and within the limit; `left` counts down from the limit; and at `put` and `complete`
the prefix is the body. The steps rest on lemmas about `Valid`: the concatenation
of valid texts is valid, a segment of ASCII is, and a segment of a valid text that
begins with a rune is if and only if it does not end within one. From the last one
follow `RefusedExactlyIfCut`, that a body within both restrictions is refused just if a
read has ended within a rune, and `AcceptedUnlessCut`.

The other modules have proofs of one kind: an invariant `IInv` of a few parts, a
lemma `Moves` or `Steps` for the actions that change one request only, a lemma per
action that changes a table, and theorems that read the properties off `IInv`.

| Module | Theorems | What the invariant adds |
|---|---|---|
| `JarCreationProofs` | `TypesHold`, `JarsWhole`, `AnswersHold`, `LivesBounded`, `RowsStay`, `NobodyStuck`, `DeadlocksOfTwoKinds`, `SharersDeadlock` | `HeldFree`, `Apart`: the ids that a transaction has inserted are free in the tables, and no two transactions have the same; `NoRowsYet`: before its end a request has no rows; `Shape`: `got` has `want` ids at the commit |
| `JarTxProofs` | `TypesHold`, `NoOrphans`, `OneWinner`, `DeletedGone`, `Implements`, `RowsForward`, `NobodyStuck`, `JarWhileScrolls`, `JarGoesUnlessOverlapping` | `Apart`: who holds the jar exclusively excludes everyone, and no row is locked by two; `Knows`: who holds a lock on the jar knows it is there, who holds a row knows its version, the id of an insert is not there, and versions grow; `Tables`: a row was there at first or has an insert |
| `AccountsProofs` | `TypesHold`, `SessionsPaired`, `SessionsActive`, `TokensUsed`, `WritesFresh`, `NoDeadlock`, `AtomicIfAlone` | `Shape`: the slots that a request has at each of its statements, in the order in which it takes them; `Knows`, `Apart`: who holds the account has its version, who holds a token's row has its text, and nobody else has either |
| `ApiServerProofs` | `TypesHold`, `OneBurst`, `RateBounded` (k more full buckets take k times as long), `PoolSafe`, `MailsAwaited` | `LimiterKnown`: a limiter is as old as the last burst, and without one that was long ago; `PoolLast`: no request behind a drained listener, and the pool is closed last; `WaitsForTask`: while `wg.Wait` waits, a task is running, so that the one which wakes it is the last |

`JarTxProofs.Implements` maps a commit to a step of `JarTable` by what was committed
(`CommitInTable`) and shows that no other step is seen (`OtherSteps`). `NoDeadlock`
gives each position of a request a `Rank` that falls from whoever waits to whoever
it waits for (`RankFalls`), so a circle of any length would have to fall for ever.
`RateBounded` is an invariant of its own on top of `IInv`: a new burst lies behind the
last one, which lies behind the others (`OneGapMore`).

`RowsForward` is read off `JarTxProofs.Implements`: versions only grow, and what is gone
stays gone.

`NobodyStuck` is in two modules what can be proved of the liveness properties there:
as long as anything is under way, one can take a step of its own, or one is in a
circle that `Deadlocked` finds. Locks and ids are held only by those under way, so if
all of them wait, each for another one, `Circles.SomeWaitInACircle` closes a circle: it
takes a path that cannot be made longer, of which the last member has to wait for an
earlier one. In `JarCreation` it also says that a statement that waited is let to the
index again afterwards (`CanGoOn`). Which deadlocks there are is said by two more:
`DeadlocksOfTwoKinds`, that it is a circle either of CreateJars with a scroll in hand
that want another one, or of CreateScrolls that share the row of a jar, and
`SharersDeadlock`, that the second kind comes about whenever two of them do.

Four theorems are about the promises that the violated runs refute, and show that
the overlap in their stories, or the cut, is the whole cause:

| Promise | holds if | Theorem |
|---|---|---|
| `AckedContentServed` | `UploadsApart`: no two uploads of one scroll are in flight together | `ServedUnlessOverlapping` |
| `JarGoesWithLastScroll` | `CountsAlone`: no deletion of a scroll overlaps with an insert or another deletion; the jar had a scroll, and nobody deletes it directly | `JarGoesUnlessOverlapping` |
| `ValidTextAccepted` | `~Cut`: no read ends within a rune | `AcceptedUnlessCut` |
| `ActivationAtomic` | `ActivationsAlone`: no other activation and no new token of the account while it is activated | `AtomicIfAlone` |

`JarWhileScrolls` goes with the second: under `CountsAlone`, which deletions of the jar
itself do not disturb, the jar exists exactly while it has scrolls. That is the
case in which the end of a jar in `ScrollService` is what PostgreSQL does.

Only model-checked: the liveness properties `OrphansCollected`, `StatementsEnd`,
`CreationsEnd` and `ShutdownEnds`, which rest on fairness and `ENABLED` and are out of
the prover's reach, and that the violated runs are violated. Every other property of
a run that passes has a theorem about the module of the run.

## 5. Observed, without a run

- `DeleteExpiredJars` and `DeleteExpiredTokens` (`jars.sql.go:14`, `tokens.sql.go:14`)
  have no caller. `images/eraser_io_diagram_code.txt:84` says of the cleaner "Find
  expired jars/scrolls" and line 88 "Remove metadata for deleted items"; the code
  only removes objects without a row. Expired jars keep their rows and objects.
- `cmd/cleaner/main.go:2` is `package cleaner`, so `go build` makes no program of
  it. The model takes its `main` as the cleaner that the diagram describes.
- The upload token that PATCH returns (`h_scroll.go:115`) can upload nothing, as
  `uploadScroll` refuses a scroll that is uploaded (line 160) and PATCH refuses one
  that is not (`PatchTokenInert`). A scroll whose first token expired before the
  upload can get no other.
- `NOW()` is the start of a transaction, so of two overlapping changes of scrolls in
  one jar the later writer may set the jar's `updated_at` back to an earlier time
  than that of a scroll in it (`update_trigger.sql:6`).
- The branch for 413 (`h_scroll.go:176`) is never taken: `MaxBytesReader` returns
  `*http.MaxBytesError`. A body over the limit is answered 500, and as the limit is
  `maxSize + 1`, a body of one byte too many is accepted.
- Two `CreateScroll`s into one jar can deadlock (`update_trigger.sql:43`), and one is then
  answered 500: `InsertScroll` does not repeat what PostgreSQL asks to repeat
  (`JarCreation`, `JarTx`).
- `insertJarWithRetry` and `insertScrollWithRetry` cannot retry inside the transaction
  of `CreateJarWithScrolls`; a collision there is answered 500 (`JarCreation`).
- A `wg.Wait` that waits for mail tasks panics if a handler starts another one before
  it has returned (`app.go:119`), as the listener is still open. Nothing recovers in
  that goroutine, so a shutdown in the middle of registrations can be a crash.
- The global limiter never refuses anything. `globalRateLimiter` makes its limiter when
  it is applied to a handler (`middleware.go:31`), and the generated router applies the
  middlewares within each call (`gen.go:293`), so each request has a full bucket of its
  own. `Accept` has therefore no refusal.
- `authenticateUser` takes the hash of any token (`middleware.go:124`), and
  `GetTokenByHash` has no condition on its scope (`tokens.sql.go:41`): a refresh or an
  activation token is as good as an authorization token. `Authenticate` leaves open who
  is let through.
- `DurYear` is 365 days of 25 hours (`types.go:38`, `helpers.go:231`).
- `handler_jar.go:126` drops the error of `hashPassword`, which refuses passwords of
  more than 72 bytes: such a jar is private and no password opens it.
- `CreateScroll` adds to a jar without counting; the limit of 254 scrolls is one of
  `CreateJar` only (`types.go:33`).
- The server has no `ReadTimeout` (`app.go:102`), so a body may take for ever to
  arrive; no property relies on its end.
- `ipRateLimiter` goes on after answering 500 when the address cannot be split
  (`middleware.go:83`).
- `CreateJar` accepts an empty list of scrolls (`types.go:33`), which
  `api_spec.yaml` excludes by `minItems: 1`; so in the model.

## 6. Plan

Done: `ScrollService` and `PasteStore`; `Cleaner` and `UploadBody`; `JarCreation`,
`JarTx` with `JarTable`, `Accounts` and `ApiServer`; and the proofs about all of them.
What could come next:

1. The end of a jar as a step of its own in `ScrollService`, as in `JarTable`: the jar may
   stay empty, or go with a scroll that was just inserted (`jar_life`), instead of going
   exactly with its last scroll.
2. `GetJar` and `GetJarScrolls`, as soon as they hand out something that is used later.
3. The safety core of `ShutdownEnds` and `OrphansCollected`, as `NobodyStuck` is that of
   the other two liveness properties.
4. That a statement of `ScrollService` on one jar is a step of `JarTable` as well, so that
   the two descriptions of a jar meet in a theorem.

Not modelled, and why: the generated router and query code (its SQL is modelled
where it is used), logging, configuration and start-up (no state anyone reads
later), the formatting of answers, mail templates, SMTP and presigning (external),
passwords and hashes (pure functions of one request), the values of rate limits
(which requests a limiter refuses is open in the model), the read handlers other
than `GetScroll` (one query each, nothing is kept), clocks that disagree (the model
has one; `NOW()` of the database and `time.Now()` of the server differ by delays).
