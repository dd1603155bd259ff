# TLA+ models of the CCT review backend

The backend serves a web front end on which seismic analysts review coda
calibration magnitudes (CCT). It reads events from a CCT PostgreSQL database,
keeps them in memory, and on *accept* or *reject* changes the network's AQMS
databases and then the CCT database. This directory holds TLA+ models of it,
TLC configurations and TLAPS proofs. Source paths are relative to `src/src/`.

## 1. Inventory

One process. `main.cpp` reads an ini file, builds the LDAP authenticator, one
`CCTPostgresService` over the schemas `production` and `test`, one
`AQMSPostgresClient` per schema, a `Callback` and a `Listener`; `nThreads`
threads (default 1) run the I/O context, and the CCT service has a poller thread.

| Part | State | Operations | Talks to |
|---|---|---|---|
| CCT event cache (`cctPostgresService`, `events.hpp`) | map of events per schema and its hash, watermark per schema, one mutex, one database session | initial load, poll, refresh, accept/reject, reads | CCT database; called by Callback |
| AQMS client (`aqmsPostgresClient`, `aqms.hpp`) | none but a session per schema | insert, update, delete network magnitude | AQMS database and its stored procedures |
| Review requests (`callback.cpp`) | none of its own | gate, dispatch, accept, reject, reads | all of the above, Authenticator |
| HTTP sessions (`server.hpp`) | one request and response per connection | read, handle, write, close, timeout | Callback |
| Listener (`listener.cpp`) | acceptor | open, accept | sessions |
| Authenticator (`authenticator.cpp`) | map of credentials, signing key | authenticate, authorize | LDAP client |
| LDAP client (`ldap.cpp`) | one handle, bound flag | initialize, bind, unbind | LDAP server |
| PostgreSQL connection (`postgresql.cpp`) | settings, cached connection string, session | set, connect, disconnect | databases |
| Pure algorithms (`callback.cpp`, `aqmsPostgresClient.cpp`, `unpackCCTJSON.hpp`, `secretFile.hpp`, `version.cpp`) | none | azimuthal gap, event identifiers, unpacking, secrets, version order | |
| Base64 (`base64.hpp`) | vendored | | |

What is hard in it, and what makes each part correct:

* **Cache.** The poller and the request threads refresh a schema at the same
  time; the mutex covers single steps and neither the watermark nor a refresh
  as a whole. Queries fail, rows do not unpack, answers are lost, the process
  restarts with the 50 latest rows. Correct: no committed row is lost between
  the table and the cache; an acknowledged review is stored and visible; the
  cache converges; no thread waits forever.
* **AQMS client.** Facts are read in separate queries before a transaction that
  relies on them; a failed query looks like one that found nothing. Correct:
  one coda magnitude on an origin, the preferred magnitude exists, all or
  nothing.
* **Review requests.** Two databases, no common transaction, failures between
  them, two requests on one event. Correct: the status in the CCT database
  agrees with the magnitude in AQMS, and the answer agrees with both.
* **Sessions and listener.** Clients that pipeline, leave or say nothing, a
  deadline that passes while the handler runs, descriptors at their limit.
  Correct: requests in order and once, at most one review in doubt, every
  session whose client falls silent ends and makes room for the next.
* **Start-up.** Secrets in two forms, parts that fail after a thread was started.
  Correct: the process serves completely configured, or it exits.
* **Authenticator and LDAP.** Expiry with leeway, tokens across a restart, one
  handle shared by several threads. Correct: who is authorized has logged in and
  not too long ago; a token that was given out works; the handle is freed once.
* **An event's document.** Entries in any order, missing, of the wrong type; values
  that stand for "not known". Correct: what is shown and what is stored is what
  the document says.

The hazards are listed one by one, with their lines and the properties that
would catch them, in `PROJECT.json`.

## 2. Modules

| Module | Models | With it |
|---|---|---|
| `CCTPostgresService` | event cache, poller, reviews' refreshes | `CCTPostgresServiceProofs`, `MCCCTPostgresService` |
| `CCTReviewService` | extends it; that the service keeps the promises of `ReviewService` | `ReviewService`, `CCTReviewServiceProofs`, `MCCCTReviewService` |
| `AQMSPostgresClient` | the AQMS client and its database | `AQMSEvent` (what it implements), `AQMSPostgresClientProofs`, `MCAQMSPostgresClient` |
| `Callback` | accept and reject; extends `AQMSPostgresClient` | `CallbackProofs`, `MCCallback` |
| `HttpService` | listener and sessions | `HttpServiceProofs` |
| `PostgreSQL` | a connection object, as operators | used by `StartUp` |
| `StartUp` | `main.cpp`; extends `HttpService` and `PostgreSQL` | `StartUpProofs`, `MCStartUp` |
| `Authenticator` | tokens, credentials, LDAP handle, the gate before every request | `AuthenticatorProofs`, `MCAuthenticator` |
| `EventDetails` | both walks through an event's JSON document, gap, stored columns | `EventDetailsProofs`, `MCEventDetails` |

The modules meet as the code's parts do. `Callback` makes the calls of
`AQMSPostgresClient`, and sees the CCT service through what `ReviewService`
promises: the event data show a row that the event has had since the service
started, not always the current one, and an `acceptEvent` or `rejectEvent` is done
or not and answered or not. `CCTReviewService` shows that
`CCTPostgresService` keeps this promise. `HttpService` sees the callback as an
outcome (a payload or one of five exceptions); `Authenticator` says which
request has which. `StartUp` makes the parts and then is `HttpService`.
`EventDetails` is what `Callback` abstracts to a magnitude that is usable or not.

Still worth doing: a module in which `Callback` uses `ReviewService` itself, for
several events and schemas, in place of the variables that stand for it in
`Callback`; what several request threads still guarantee in AQMS, where the
theorems with `Solo` say nothing.

## 3. CCTPostgresService

### State and actions

| TLA+ | Code |
|---|---|
| `table`, `writes`, `clock` | the rows of `<schema>.event` (external): `ver` tells commits apart, `ts` is `last_update`, `ok` says the row unpacks |
| `cache` | `mEventsMap` |
| `watermark` | `mLastUpdateMap`; `Lowest` is the lowest double |
| `mutex` | `mMutex`, when held across a database call; shorter holds are part of one action |
| `todo` | schemas the current poll has still to visit |
| `at`, `schema`, `review`, `newest`, `rows`, `updated` | the program counter, arguments and locals of `acceptRejectEvent` and `updateQuery` per thread |
| `latest`, `exempt`, `overlapped` | history, for the properties only |

| Action | Code (`cctPostgresService.cpp`) |
|---|---|
| `Init`, `Restart` | constructor and `initialQuery` |
| `PollAgain`, `PollSchema` | `run` |
| `ReviewStart` | `acceptEvent`/`rejectEvent`: `haveEvent`, then the stamp (301-304) |
| `ReviewLock`, `ReviewAbort`, `ReviewExecute` | the locked block of `acceptRejectEvent` |
| `UpdateBegin` ... `UpdatePublish`, `UpdateFail` | `updateQuery`: the watermark is read; the query runs; one row after the other is stored or skipped; the watermark is published |
| `PipelineWrite` | external: the CCT pipeline inserts or rewrites an event |

A step is what other threads can see as one: the SELECT (the client library
fetches the whole result at once), the UPDATE, the locked insertion of one row,
one access to the watermark. The session is shared by two threads without a
lock; its effects are modelled as failures (`UpdateFail`, the outcomes of
`ReviewExecute`). The rows of a result are handled in any order (the code:
by load date, which is not modelled; identifiers are unique). The poll
visits schemas in any order (the code: alphabetical).
`ReviewStart` takes `haveEvent` and the stamp in one step, which is safe
because events never leave the cache. Rows are not deleted by anything in the
repository, and are not in the model.

### What the runs show

| Run | Question | Answer |
|---|---|---|
| `cct_safety` | one poller, one request thread, failures, a restart | `TypeOK`, `CatchUp`, `CatchUpInv`, `AcknowledgedReview`, `NeverBackwards` hold |
| `cct_two_reviewers` | two request threads, the poller, a restart: what may a caller rely on | `AnswerInv`, `AcknowledgedReview` and `KeepsPromises` hold |
| `cct_liveness` | does the cache converge even if another schema fails at every poll, is every review answered | yes, under the fairness below |
| `cct_overlap` | is anything lost when refreshes overlap | **yes** (finding 1) |

`CatchUp`: when no refresh of a schema is under way and none overlapped another
since the start, each row that unpacks is in the cache or above the
watermark, unless it was committed with a stamp not newer than another one
already committed (or was left out at the start below the watermark). The two
exclusions are the two ways in which the code does lose rows. `Converges`
excludes a third state:

1. *Overlap.* The poller selects row `v1`; a review rewrites it to `v2`, its
   own refresh stores `v2`; the poller stores `v1` and publishes; the review
   publishes the watermark of `v2`. The cache shows `v1` from then on. The
   comment at line 338 ("Won't matter if we fail") counts on the poller here;
   `cct_overlap` shows that it does not help.
2. *Late stamp* (`exempt`). The review computes `last_update` before it has the
   mutex; a row stamped later is fetched and published first; the review's row
   is then below the watermark. So it is for any two writers whose commits are
   not in the order of their stamps.
3. *Empty schema.* The watermark stays at the lowest double, the query fails
   at each poll, rows written after the start never show. `Converges` says that
   the other schemas do not suffer from it.

`AcknowledgedReview` says that a review answered with success was stored by its
own UPDATE and, if its refresh ended undisturbed and its row is still current,
that the event data show it at that moment.

`NeverBackwards` says that an event that is shown is not taken off and never
replaced by an older version of its row until a restart, as long as no
refreshes of its schema have overlapped (with an overlap it is: finding 1).

`KeepsPromises` is what remains true when refreshes do overlap. `ReviewService`
knows nothing of watermarks, queries and locks: a review of an event that is
shown rewrites the row of that event or leaves it, at most once and nobody
else's, and succeeds only if it did; an event that is shown stays shown until
a restart, always as one of the rows it really had. `CCTReviewService` adds the one
history variable this needs (`recent`, the rows each event has had since the start)
and maps the rest: `row` is `table`, `shown` is `cache`, and a call is *called* up
to its UPDATE, then *stored* or *failed* until it returns.

### Bounds

One schema suffices for the safety runs because schemas share only the mutex,
the session and the poll loop; the liveness run has two, for the loop, with one
event each and distinct stamps, which keeps its state graph small. The run with
two request threads has one event, whose row both contend for, and stamps up to
2, one above the initial ones. Two
events are needed for one row to move the watermark past another, `RowLimit`
is 1 (50 in the code) so that the initial load leaves a row out, two writes
allow a row to be rewritten while its older version is pending, and the stamps
go up to 3, above the initial 0 and 1. `MaxRestarts` is 1: a second restart
forgets the same things. `ClockSteps = {0, 1}` includes stamps that fall in the
same microsecond. Events, and request threads where there are two, are
interchangeable and used with symmetry in the safety runs only.

### Fairness

Weak fairness of each thread's steps: a thread that can run does. Strong
fairness of the poller's connect and select steps per schema: the database may
be away for any finite time and again and again, but not at each single poll
forever. Strong fairness of taking the mutex: a holder has one statement to
execute, so it is free infinitely often, and a waiting thread is not passed
over forever. Nothing is assumed of the pipeline, of new reviews or of
restarts. `ReviewsAreAnswered` does not assume that the database answers.

### What is proved

`CCTPostgresServiceProofs` proves for any sets of schemas, events and request
threads, any stamps and any bounds:

* `TypeCorrect`: `Spec => []TypeOK`;
* `CatchUpInvariant` and `CatchUpHolds`: `Spec => []CatchUp`;
* `AnswerInvariant` and `AcknowledgedReviewHolds`: `Spec => AcknowledgedReview`;
* `NeverBackwardsHolds`: `Spec => NeverBackwards`.

`CCTReviewServiceProofs` proves for the same parameters

* `KeepsPromisesHolds`: `HistorySpec => KeepsPromises`, that is, each step is one of
  `ReviewService` or changes nothing it speaks of.

`CatchUp` is not inductive: in the middle of a refresh nothing is said of rows
that were selected or missed. `CatchUpInv` strengthens it. Besides types it
has: rows are never removed (`RowsExist`), pending rows are unique per event
and exist only while being applied (`PendingRows`), no watermark, result or
row is newer than the newest stamp ever committed (`NothingBeyondLatest`),
at most one refresh is under way (`OneRefresh`), and each row the cache must
show is *ahead* of every watermark that is or may be published, *settled* in
the cache with no pending row to displace it, or itself *pending*
(`RowsAccounted`). A timely commit makes a row ahead; the select turns ahead
into pending; storing turns pending into settled; publishing cannot pass a row
that is ahead.

`NeverBackwards` needs `VersionInv` besides: neither the cache nor a pending row is
ahead of the table (`NoneAheadOfTable`), and the cache is not ahead of a row
pending in a refresh without overlap (`NoneAheadOfRefresh`). The select makes the
second true, because the first holds; only the refresh itself could undo it, and it
stores one row of an event. The assumptions are the named `ASSUME`s of the module.

`AcknowledgedReview` is a property of the step that answers, and rests on
`AnswerInv`: commits are numbered upwards, so a review recognises its own
(`CommitsNumbered`), and from its query on, a review whose row is still the current
one has it settled in the cache or among the rows still to apply
(`OwnRowTaken`). `RowsAccounted` says where such a row may be; that it cannot
be ahead of the watermark any more when the review's own refresh has nothing
left to apply is the heart of the proof.

The refinement needs `RecentInv`: what is shown, and what a query has returned
and is still to be applied, is in the history, and no row in the history has the
number of a commit to come, so that every commit makes a row the event never had.

The liveness properties are beyond the prover and only model-checked.

## 4. AQMSPostgresClient and AQMSEvent

### State and actions

| TLA+ | Code |
|---|---|
| `aqms` | external: for one event, `event.prefor` and `prefmag`, its rows of `netmag` (origin, whether it is a coda magnitude, size) and the magnitudes of type "w" its `eventprefmag` names |
| `working`, `tx` | the one `soci::session` of a client and its transaction, shared by all threads: none, open, or aborted by a failed statement |
| `next` | external: the sequence of magnitude identifiers |
| `op`, `at`, `orid`, `val`, `id`, `found`, `pref` | per thread the call, its program counter, arguments, locals and result |
| `sure`, `excused` | history: an insertion's existence query was answered and was about its origin; something was inserted without that, or a magnitude deleted that became preferred meanwhile |

| Action | Code (`aqmsPostgresClient.cpp`) |
|---|---|
| `ReadOrigin`, `ReadExistence`, `ReadIdentifier`, `ReadPreferred` | the four read queries (964, 907, 861, 1008), each answered or failing; `AfterExists` is what each call does with the answer |
| `ConnectionBroken` | `isConnected`, `connect`, throw |
| `BeginTransaction`, `Commit`, `StatementFails` | `soci::transaction` and its destructor |
| `InsertMagnitude`, `UpdateMagnitude`, `DeleteMagnitude` | the first statements of each transaction |
| `Prefer`, `Replace` | `setPrefMagOfEvent` or `setPrefMag`; `setPrefMagOfEventByPrefor` |
| `Record` | the row of `eventprefmag` |
| `Call`, `EndCall` | a caller, with any arguments it can have obtained |
| `Relocate`, `PreferOther`, `Die` | external: other programs; the end of the process |

The stored procedures are not in the repository. Each is modelled by everything
its caller allows for: the rules may choose any existing magnitude or leave the
choice alone (the status is only logged); `setPrefMag` sets what it is given or
not (a warning follows when it does not); `...ByPrefor` chooses among the
magnitudes of the preferred origin, or none. They are called with a commit
argument of 1, where `aqms.hpp` says 0 and "do not commit"; called by SELECT they
are functions, which PostgreSQL does not let commit, so the argument has no
effect in the model. A failed read query inside a transaction would abort it,
which can only happen with two threads.

Other programs act while no transaction of ours is open. What they do while one
is open is ordered before or after it by the database (the transaction holds
the locks of the rows it changes), but between our *reads* and our
transaction they may do anything, and that is where the hazards are.

`AQMSEvent` is what a review promises: the tables change in single steps that
accept a coda magnitude together with the row that lists it, reject one
together with that row, or settle the preferred magnitude, and leave other
magnitudes alone. `AllOrNothing` is that `aqms` implements it.

### What the runs show

`aqms_safety`: one request thread (the default of `nThreads`), two origins, up
to two older magnitudes of any kind and one new one (three identifiers: a coda
magnitude, another one to prefer, and an insertion beside them), two sizes, one
change by another program, any number of calls, failures and deaths.
Identifiers are used up, so a run sees one or more
insertions; the call after the last may read, update, delete but not insert,
which is the bound `MaxId`. Origins and sizes are interchangeable. Deadlock is
checked: the process may always die and start again.

* `OneCoda`: an origin has at most one coda magnitude, unless an insertion went
  ahead after a *failed* existence query (it counts as "no"), or the event was
  relocated between the caller's query for the origin and the existence query.
* `PreferredExists`: the preferred magnitude is never one that is gone, unless
  it became preferred between the query and the deletion.
* `AllOrNothing`: the refinement above. `WorkInv` is the invariant its proof needs.

### What is proved

`AQMSPostgresClientProofs`, for any origins, sizes and bounds, whether
or not read queries fail:

* `TypeCorrect`: `Spec => []TypeOK`, for any number of threads;
* `ClientInvariant`, `OneCodaHolds`, `PreferredHolds`, `WorkInvariant` and
  `AllOrNothingHolds`: with a single thread (`Solo`, which `callback_two_threads`,
  finding 4, shows to be needed).

`OneCoda` is not inductive: nothing in it says that the tables did not change
between the existence query and the insertion. `ClientInv` adds: the
transaction is open exactly from BEGIN to COMMIT and starts from the committed
tables (`SessionInv`); an insertion that is sure of itself finds no coda
magnitude on its origin, and an update's identifier is not that of another kind
of magnitude (`OneCodaInv`); in the transaction the preferred magnitude is
missing only when the call is about to replace it (`PreferredInv`); and every
call has the arguments of its kind (`ArgumentsOK`). The lemmas `InsertEffect`,
`UpdateEffect`, `DeleteEffect` and `ChosenEffect` say what the statements do to
coda and preferred magnitudes.

For `AllOrNothing` that is not enough: the step that commits must be one of
`AQMSEvent`'s, so it must be known what the transaction has done. `WorkInv` says that
its tables differ from the committed ones in one magnitude, that of the call,
in whether that one is listed, and in the preferred magnitude (`HalfDone`, with
`OneMagnitude` and `ListedSoFar` for each place of each call), and that
identifiers not yet drawn are not in use. Every step but the commit then leaves
`aqms` alone, and the commit is `Accept`, `Reject` or `Settle` (`CommitIsOneStep`).

## 5. Callback

`Callback` extends `AQMSPostgresClient`: a request thread makes the client's
calls in the order of the accept and reject branches of `callback.cpp`, and the
client's own steps (`Client`) run in between.

| TLA+ | Code |
|---|---|
| `size`, `status` | external: the magnitude in the event's row of the CCT database, and its `review_status` |
| `cached` | the event in the cache, which may be missing or out of date |
| `recent` | history: the magnitudes the row has had since the service started, any of which a refresh that overlaps another may put into the cache |
| `request`, `stage`, `answer` | per thread the request, its place in the branch, and `status` and `reason` of the response |
| `misled` | history: a read of the review failed or was overtaken by another program |

| Action | Code |
|---|---|
| `UnknownEvent`, `AcceptBegin`, `AcceptFind`, `AcceptChange` | 664-758 |
| `RejectBegin`, `RejectChange` | 808-834 |
| `Changed`, `Store` | 760 and 835: `acceptEvent`, `rejectEvent`; done or not, answered or not, refreshed or not |
| `CallThrows`, `Respond` | the catch blocks and the response |
| `PipelineRewrite`, `Poll`, `Restart`, `OtherPrograms` | what happens outside |

A magnitude is usable, or `Unusable` (it does not unpack, or `setMagnitude`
refuses it: -10 stands for none).

`callback_safety` has one thread, two origins, at most one older magnitude and
one insertion, one rewrite or one change by another program (`OneChange`, a
constraint of the run; the theorems of `CallbackProofs` have no such bound), any
number of requests, failures and restarts. `MagnitudeBeforeStatus` is the point of the
module: whatever earlier requests left half done, a review writes its status
only when AQMS agrees with it. `AnswerIsTrue` says the same of an answer of
success without a reason. Both leave out reviews that were `misled`; the
violation runs show what those do:

| Run | What happens | Finding |
|---|---|---|
| `callback_failed_reject` | a rejection that threw is answered with success | 2 |
| `callback_false_id` | the identifier query fails: magnitude 0 is updated, the review stored | 3 |
| `callback_two_threads` | two threads insert two coda magnitudes | 4 |

A query for the preferred magnitude that fails counts as "there is none": the
preferred magnitude is then chosen by the rules even if a person had preferred
another one. `AllOrNothing` allows a review to settle it either way.

Liveness is not stated for this module: each request makes a bounded number of
calls, and whether they end is up to the databases; the one lock is treated in
section 3.

### What is proved

`CallbackProofs`, for any origins, sizes, bounds, and whether or not queries fail:

* `CallbackTypeCorrect`: `CallbackSpec => []CallbackTypeOK`, for any number of threads;
* `ReviewInvariant`, `MagnitudeBeforeStatusHolds`, `AnswerIsTrueHolds`: with a
  single thread (`Solo`);
* `ReviewsAreAllOrNothing` and `ReviewsKeepTablesSound`, with a single thread: what
  section 4 proves of the client with any caller, `AllOrNothing`, `OneCoda` and
  `PreferredExists`, holds with the callback as its caller, which goes from one
  call to the next without a pause and passes on what the calls returned.

`MagnitudeBeforeStatus` speaks of the one moment between the two databases, and
says nothing about how a review got there. `ReviewInv` follows it through the
calls: besides the types, the stage that goes with each call (`CallsOK`) and
`ClientInv`, it says what a review that is not misled *knows* at each place
(`Knows`): that the origin it asked for is still the preferred one, that an
identifier it found is that of a coda magnitude of the event, that "none" means
none, and, once the statement of its transaction was executed, that the
transaction's tables, and after the commit the committed ones, have what was
asked for (`Done`). `FoundCoda` is needed because the identifier is passed
from one call to the next. The lemmas `InsertDone`, `UpdateDone` and `DeleteDone`
say that each statement leads to `Done`, `LaterPrefor` that what follows it in
the transaction does not undo it.

## 6. HttpService, PostgreSQL and StartUp

### State and actions

| TLA+ | Code |
|---|---|
| `accepting`, `phase` | the asynchronous operation pending on the acceptor and on each connection; a session lives as long as it has one |
| `tls`, `client`, `requests` | external: how a client begins, whether it has ended its side or is gone, all it has sent |
| `timer` | the deadline of the session's stream: never set, in force, reached |
| `next`, `response` | the request last read and the response being written |
| `handled`, `received` | history: what the server has dealt with and what the client has got |
| `stage`, `ini`, `running`, `poller`, `acceptor` | how far `main` is; the property tree; `mRunning` and the poller's thread; the listener's socket |
| `cct`, `aqms` | the connection objects, with their settings, kept connection string and session |

| Action | Code |
|---|---|
| `Accept`, `AcceptError` | `listener.cpp`, `onAccept` and the `DetectSession` it makes |
| `OnDetect`, `OnHandshake`, `OnRead`, `OnEndOfStream`, `OnWrite`, `OnShutdown` | the handlers of `server.hpp` |
| `OperationFails` | each handler's return on an error: deadline, reset, end of stream |
| `HandleRequest` | `handleRequest`, with the status of each exception (`StatusOf`) and the keep-alive flag of each kind of response |
| `ParseCommandLine`, `ReadOptions`, `MakeAuthenticator`, `CreateCCTPostgresService`, `CreateAQMSClient`, `MakeCallback`, `Listen` | `main.cpp` in its order; `ResolveSecret` and what is built of it are `secretFile.hpp` and `parseIniFile` |
| `LeaveMain`, `JoinPoller`, `PollerRound` | return from `main`, the destructor of the CCT service, the poller |
| `AcceptInVain` | accepts on a socket that was not bound |
| `Connect`, `Send`, `Leave`, `Expire` | external: clients and time |

The I/O library is modelled by what the code relies on: a handler is called once
per operation, by one of the `NumThreads` threads that run the I/O context; the
request handler runs inside `OnRead`'s handler and holds its thread
(`HandleRequest` is the step in which it returns). A deadline that is reached
while the handler runs is noticed by the next operation on the stream: the
review is done and its answer is not written. `StatusOf` follows the order of
the catch clauses: `BadRequestException` has no clause, and is answered with
500 where `exceptions.hpp:27` says 400: a disagreement of one line in a table,
which needs no run to be seen. After a failed bind `AcceptInVain` repeats for ever: the
code logs each failure and goes on, and nobody is served.

### What the run shows

`start_up` checks both modules in one instance: `main` starts, and if it comes to
serve, serves two clients.

* `RequestsInOrder`, `OnlyLastInDoubt`, `NothingAfterSuccess`: what a client may
  conclude from the answers it has, even when it pipelines. Responses with
  status 200 close the connection, so a request behind one that succeeded is
  never executed; every other one may keep it open.
* `EverySessionEnds`, `EveryClientIsAccepted`: a client that sends nothing more, from
  the start or from any later moment, is put out by a deadline and does not
  keep the other one out for good. The code promises no more: `doRead`
  sets the deadline again for each request (`server.hpp:430`) and an answer other
  than 200 may keep the connection (511), so a client that sends a failing
  request every half minute keeps its descriptor for ever. Both properties
  leave this out explicitly (`SendsForEver`). The run has no such client,
  because `MaxRequests` bounds what each of them sends; what it explores are
  all ways to stop after none, one or two requests.
* `ServesWhenComplete`: a serving process has its poller, and each schema's
  client a session made of the settings of its own section; the exceptions of the
  callback's constructor, which `main` does not catch, are never thrown.
* `NeverGuesses`: of two forms of a secret neither is preferred.
* `StartUpEnds`: `main` comes to serve or to exit. The poller, which is started in
  the middle, is stopped before it is waited for.

Bounds: every entry of the ini file takes every form it can have, one at a time
(entries are read independently of each other). One thread and one descriptor
make the two clients compete for both; the one that says nothing sends no
request, the other up to two, enough to pipeline one behind another. Of the
outcomes one succeeds (and closes) and one fails (and may keep the
connection). `CHECK_DEADLOCK FALSE`: the process may have exited, and a client
that has been served need not come again.

Fairness: deadlines are reached; a handler that is ready and again and again has
a free thread is run; the callback returns; an accept that is possible again and
again happens. Handlers and accepts wait in the first-in first-out queue of the
I/O context, so none is passed over for ever while others take the threads, which
is why fairness is strong. Nothing is assumed of when clients act, which is why handshake, write
and shutdown, which wait for them, are not fair; the one assumption about
clients is that their number is finite (`Connections`). `main`'s own steps and the
poller's rounds end because each waits for a database at most the connection's
`connect_timeout` of 10 s (`postgresql.cpp`); that a *query* ends is assumed.

### What is proved

`HttpServiceProofs` and `StartUpProofs`, for any connections, requests, numbers
of threads and descriptors, and any ini files:

* `HttpTypeCorrect`, `RequestsInOrderHolds`, `NothingAfterSuccessHolds`,
  `OnlyLastInDoubtHolds`;
* `ServesWhenCompleteHolds`, `NeverGuessesHolds`;
* `StartUpImplementsHttp`: `StartUpSpec => HttpSpec`. Starting up and accepting
  in vain are steps in which the service stutters, and what is proved or checked
  of `HttpSpec` holds of the whole process. The fairness conditions of
  `HttpSpec` are conjuncts of `StartUpSpec`, so no ENABLED has to be proved.

The three properties of sessions are not inductive one by one. `HttpInv` relates
the four counts per connection: `InStep` (the number read is that of the
requests dealt with, and one more while handling), `SuccessIsLast` (no read
is ever pending after a success), `WritesLast` (what is being written is the
answer to the last request, and a success is not kept alive) and `Delivered` (the
client has all answers but one being written or lost). `StartInv` says which
parts exist at each stage and with which settings.

## 7. Authenticator

### State and actions

| TLA+ | Code |
|---|---|
| `clock` | time, in half seconds; tokens carry whole ones |
| `key` | `mKey`, the second in which the process started |
| `userKeys` | `mUserKeysMap` |
| `handle`, `bound`, `open` | `mLDAP` and `mBound` of `ldap.cpp`; the handles the LDAP library has allocated |
| `at`, `user`, `using`, `reply` | per request thread its place, whom it is about, the handle its bind was called with, how it ended |
| `tokens` | what clients hold, across restarts |
| `run`, `accepted`, `overlapped`, `misused`, `logins` | history and the bound on logins |

| Action | Code |
|---|---|
| `Login`, `InitializeUnbind`, `Initialize`, `BindBegin`, `Bind`, `UnbindAfter` | `authenticate` and `ldap.cpp`'s `initialize`, `bind`, `unbind` |
| `Add`, `GetCredentials` | `add` and `getCredentials`, each under the mutex, with nothing in between |
| `Authorize` | `authorize`: signature, times, and whether the user is in the map |
| `Refuse`, `Process` | `callback.cpp`: headers refused at sight; the gate and the parsing of each request, by what is wrong with it (`OutcomesOf`) |
| `Respond`, `Tick`, `Restart` | the answer; time; the process dies and starts again |

All users are added with read and write permission, so the refusals for lesser
permissions (in the callback) are never met and are not modelled. The
protocol version asked of the LDAP library is 3, which it does not refuse. A
call on a handle that was freed is undefined; in the model it fails, or the
process dies (`Restart`). The bind has no network timeout: a silent LDAP server
holds its request thread.

### What the run shows

* `AuthorizedByLogin`: whoever is authorized was accepted by LDAP since the
  process started, and holds a token made less than its life ago.
* `TokenWorks`: a token that was given out is not refused early: not because the
  same user logs in again (the map then holds another token, which is why
  `authorize` must not compare with it), nor because another thread does.
* `HandleIsSound`: with refused logins and servers out of reach in any order
  the handle is freed once and not used afterwards, *as long as logins do not
  overlap*. They can with two request threads, and then it is misused:
  `initialize` of one frees the handle the other is binding with. That is the one
  exclusion of the property; no document or comment of the repository claims
  more, so it is listed as a hazard. `AuthorizedByLogin` holds even then.

Bounds: two users, threads and handles, so that logins of the same and of
different users overlap; a token lives one second and a leeway of one,
which with five half seconds covers its whole life beginning at an even and
an odd instant; one restart, with tokens of the run before; three logins, so
that one user has two. Users, threads and handles are interchangeable. Four
messages stand for the outcomes of the gate, which the properties do not
tell apart further. `CHECK_DEADLOCK FALSE`: the clock and the logins run out.

### What is proved

`AuthenticatorProofs`, for any users, threads, handles, lives and bounds:
`TypeCorrect`, `TokenWorksHolds`, `AuthorizedByLoginHolds`, `HandleIsSoundHolds`.
`AuthInv` strengthens the first three: a user past the bind is accepted
(`LoginInv`), the map has tokens of this run, each for its own user, whom LDAP
accepted (`KeysInv`), and a token of this run carries this run's key and its user
is in the map, never to be removed (`TokensInv`); `Dated` ties the whole seconds
of a token to the instant it was made. That tokens of an *earlier* run may
carry the same key, when the process restarts within a second, is no
exception: their users are not in the map until they log in. `HandleInv` says
that while logins do not overlap at most one is under way and `bound` says
whether the one handle is allocated.

## 8. EventDetails

### State and actions

| TLA+ | Code |
|---|---|
| `doc` | external: the event's row and its `mw_data` document |
| `i` | the measurement a loop is at |
| `spectra` | the fit chosen for each of the five curves |
| `stationMap`, `measured`, `shown` | `identifierToStationMap`, `identifierToMeasurementMap`, `stationMeasurements` of `unpackCCTJSON.hpp` |
| `details`, `locations` | the tuple of `getMagnitudeDistanceAzimuthAndNumberOfStations` in `callback.cpp`, and its station locations |
| `netmag` | the columns that `aqms.hpp` and `aqmsPostgresClient.cpp` make of it |

| Action | Code |
|---|---|
| `UnpackBasics`, `UnpackMeasurement`, `ShowStations` | `unpackCCTJSON` |
| `ReadMagnitude`, `CountMeasurement`, `ComputeDistanceAndAzimuth` | `callback.cpp` |
| `MakeNetMag` | the setters of `NetMag` and the insertion's null indicators |

A measurement has a stream that is described with its station (the first time it
is mentioned), referred to by an identifier, or neither ("bare": the
conversion throws). The circle has eight directions; the geodesic functions
are external and give each station a bearing and a distance. An
entry missing under a `const` `operator[]` is undefined in the code. For the
event's own entries and the points of its fits (`unpackCCTJSON.hpp:26-65`)
`UnpackBasics` has the outcomes a build can produce: the assertion of the JSON library
ends the process (*aborted*), what is found in place of the entry is of no use
and throws, or it is taken for a value. Within a measurement (131 and after)
the case is left out: only documents that do not meet it are tried. The
sort of the values by frequency is left out.

### What the run shows

* `EveryValueShown`: every value whose stream is described anywhere in the
  document, even after it, is shown once and at its own station.
* `ResidualsAreOfTheFit`: a residual is taken from the fit that is drawn, when
  there is one.
* `ColumnsAreRight`: each column is what the document gives, stated from the
  document alone, or null where it gives nothing or an entry of the wrong type
  interrupted the reading; so no number that stands for "not known" becomes
  a column's value. The magnitude is that of the document and within its limits,
  the distance that of the nearest station located, the gap the widest arc
  without a station (the reference definition looks for empty arcs and does not
  sort).
* `StoredIsShown`: the number of observations stored is that of the values in the
  document, and that of the values the reviewer saw when each value has a
  described stream. Where a value has
  none, the two walks through the document differ: it is counted and not shown.

Bounds: all pairs of measurements of two streams of one station, each with
every entry spoilt in every way; triples in which a reference comes before the
description; three stations in all directions, 0 and 360 degrees included;
lists of fits with zero to three of a type and with their points missing or of
the wrong type; magnitudes and station counts at and
beyond their limits. `CHECK_DEADLOCK FALSE`: the walk ends.

### What is proved

`EventDetailsProofs`, for any documents, streams, stations and directions:
`EveryValueShownHolds`, `ResidualsAreOfTheFitHolds`, `ColumnsAreRightHolds` and
`StoredIsShownHolds`. `MapsInv`, the first loop's invariant, says that the two maps
hold what the measurements seen so far say. `RowInv` adds that what is shown has the
residuals of the document's fit (`ShownInv`), that while the second walk goes
on the count and the stations located are those of the measurements passed, none of
which has interrupted it (`CountInv`), and that afterwards each detail is what the
document gives or unknown (`ReadInv`, `GivenOrUnknown`), and the columns are made of
these (`StoredInv`).

The gap is where most of the work is. The code sorts the back azimuths and
takes the largest difference of neighbours, with the first one repeated at +360;
`AzimuthalGap` looks for the longest arc that begins at a station and has none
inside. That they agree takes: sorting exists for any finite set of stations
(`SortingExists`, by adding one station at a time), each empty arc lies within one
step of the sorted sequence (`EmptyIsInAStep`) and each step is an empty arc
(`StepIsEmpty`), equal directions and the arc across north included. Induction is
done on least elements of sets, which needs no theorem with an operator as its
parameter. The sort itself is modelled by its result, a bijection in which the
directions do not decrease.

## 9. Proved, checked, left out

Every safety invariant, action property and refinement that a passing run checks
is a theorem. Only model-checked, because liveness under fairness is beyond the
prover, are `Converges`, `ReviewsAreAnswered`, `StartUpEnds`, `EverySessionEnds` and
`EveryClientIsAccepted`. All theorems rest on the named `ASSUME`s of their
modules, and those about one request thread on `Solo` besides.

Not modelled, with the reason:

* `base64.hpp` is vendored; that a header does not decode is an outcome.
* `version.cpp` returns and compares constants, and nothing else uses the comparison.
* Reading the ini file, the logging options, log messages, JSON text, headers and
  bodies of responses: their wording is not what a property here is about.
* The conversion of event identifiers: its input is an integer printed by the
  cache.
* `maintainConnection` of the LDAP client and the TLS options: `main.cpp` never
  turns the first on, and the second only configure the library. The TLS
  context of the listener has no certificate (its loading is commented out at
  `main.cpp:579`), so handshakes will fail as it stands; `OnHandshake` lets them
  succeed too, as the sessions are written for.
* `remove` of the authenticator, which nothing calls, and permissions that
  nothing grants.
* The credit row and the event's version in AQMS: written beside the magnitude
  in the same transaction, read by nothing here.
* The hash of a schema's events: computed in the critical section that changes
  them, from their lightweight data; which data are light is not modelled.
* The envelope query: it reads past the cache; that its use of the shared session
  disturbs the other queries is among the failures they may have.
