# A verification development for openbucket-api

openbucket-api is an HTTP server that gives the users of a web console access to
buckets on S3-compatible storage servers. This directory holds TLA+ models of the
parts whose correctness depends on the order of events, TLC configurations that
check them on small instances, and proofs, checked by TLAPS, that some of the
properties hold for every value of the constants. Paths below are relative to the
repository's root (`src/` in `PROJECT.json`, which lists for every definition the
lines it translates).

    tlc -config SessionCache.cfg MCSessionCache     # model-check
    tlapm SessionCacheProofs.tla                    # prove

## The system

All requests run concurrently in one process, one goroutine each. Shared between
them are the two caches, one HTTP transport per storage server, the database and
the buckets. No lock is held across two database, cache or storage calls anywhere
in the code, so each such call is a step of its own in the models.

| Component | State | Operations | Talks to | What is hard | What makes it correct |
|---|---|---|---|---|---|
| session cache (`cache`, `middleware/session.go`, `aws/config.aws.go`, `routers/Handle{Create,Delete}Session`) | sessions table, two maps with expiry times | create, look up, fill, check owner, build a client, invalidate, delete | every bucket handler; database | fill racing an invalidation; entries shared by all users; lost database answers; restarts | only the owner is served; a client is its session's own; deleted sessions fade |
| password sessions (`jwt`, `routers/Handle{Login,Refresh,GetSelf,AdminUsers}`, `middleware/auth.go`) | `users.password_hash`, `active`, `tokens_revoked_at`; signed tokens in browsers | log in, refresh, change password, revoke, (de)activate | database, clock | check of the row and mint are apart; whole-second times; two changes at once | a password change ends the older sessions and keeps the changer's |
| bulk fan-out (`routers/fanout.go`, bulk HEAD and ACL) | semaphore, wait group, results slice of a request | start, call, record, free, answer | shared transport, storage | bounded concurrency, goroutines outliving the answer, blocking | bounded calls, own result per key, every request answered |
| storage operations (`aws/rename*`, `folder`, `deleteFolder`, `uploader`, `delete`) | the bucket | rename object and folder, create and delete folder, upload, delete | storage | several calls per operation, any may fail, be overtaken or be the last | nothing lost, nothing replaced unawares, success means done |
| listing (`aws/list*`, `getFolder`) | cursors in the caller's hands | list contents by cursor; list objects, folders, a tree | storage | page exactly full, changes between pages, failed calls | nothing that stays is skipped, nothing returned twice, a cut is told |
| start-up (`db`, `bootstrap`, `main`, `env`) | the schema, `migrations_applied`, the first administrator | migrate, record, create the administrator | database | two processes at once, a stop or a failure between any two statements, failures that are only logged | no process serves on an incomplete schema, every one gets to serve; the configured administrator exists |
| single sign-on (`sso`, `routers/Handle{Admin,}SSOConfig`, `query/settings`) | settings rows, the provider in memory, users | save settings, reload, resolve a user | database, identity provider | settings saved key by key, reloads overlapping; sign-ins of one subject racing, lost answers, emails that change | memory follows the saved settings; a subject has one account and keeps it |
| activity sink (`routers/activity_sink.go`) | the current reporter and its client | obtain, rebuild | SSO settings, identity provider | rebuilt while in use | an event goes out with the credentials read for it; no reporter is leaked or closed early |
| request gate (`middleware/auth.go`, `csrf.go`, API tokens, roles) | tokens, `api_tokens` rows | authenticate, authorise | database | several ways in, in a fixed order of checks | no request passes with less than a route demands |
| storage probe (`storageprobe`) | none kept | check, retry once, report | storage | nothing: one goroutine | |
| instances, presigned links, downloads, internal endpoints | rows; a map filled at start | single calls | storage, other instances | little: one row or one call each | |
| plumbing and tools (`middleware/{gzip,deadlines,correlation}`, `timing`, `responder`, `tools`, `structs`) | none beyond a request | | | none for a model | |

`PROJECT.json` lists all hazards, with the line each bites at and the property
that would show it.

## Modules

| Module | What it is |
|---|---|
| `SessionAccess` | abstract: what the API promises about a stored session |
| `SessionCache` | the caches, the session middleware, client building, session creation and deletion |
| `SessionCacheProofs` | its invariants and `SessionCache => SessionAccess`, for all constants |
| `TokenRevocation` | the tokens of one local account and the cut-off that ends them |
| `TokenRevocationProofs` | its invariants, for all constants |
| `BulkOp` | abstract: each key settled once, one answer with each outcome in its place |
| `BulkFanout` | `forEachLimited`, its goroutines and the shared transport |
| `BulkFanoutProofs` | its invariants and `BulkFanout => BulkOp`, for all constants |
| `Pages` | keys in order, cut into pages and chunks; used by `StorageMoves` and `Listing` |
| `StorageMoves` | every operation that changes a bucket, call by call |
| `StorageMovesProofs` | its invariants, for all constants |
| `Listing` | the four listings of a folder, page by page |
| `ListingProofs` | facts about pages, and its safety invariants, for all constants |
| `RequestGate` | CSRF check, authentication, role guards, and the admin's changes of users and API tokens |
| `RequestGateProofs` | its invariants, for all constants |
| `SsoSettings` | the SSO settings, the manager and the activity reporter built from them |
| `SsoSettingsProofs` | its invariants, for all constants |
| `Startup` | the migrations, statement by statement, run by several processes |
| `Accounts` | how accounts come to be: the first administrator, sign-ins through the provider, administrators |
| `DatabaseProofs` | the invariants of `Startup` and of `Accounts`, for all constants |
| `MC*` | symmetry sets and small functions for TLC |

Names ending in what they leave out (`ItemOverQuiet`, `RefreshUnchecked`, ...) that
`Next` does not use are faulty variants of the definition after them: replaced for
it, TLC finds the property they are listed with violated. They show that each
property can fail.

### SessionCache

A row of the sessions table is written once and never updated, so a copy of it is
known by its id; the cached fields are `owner`, which no copy can have otherwise.
An expired entry is only hidden by the code and an absent one reads the same, so
both have age `Expired`. `sessionAge` is `sessionCache`; `client` and `clientAge`
are `awsSessionCache`, keyed by the id or, for the clients that sign public links,
by the negated id. A request goes through `Arrive`, `GetSession` (cache),
`GetSessionByID` (database), `SetSession`, `Authorize`, `GetAWSSession` and
`SetAWSSession` in the order of the middleware and of `createSession`; it may ask
for any number of clients (`AskAgain`) and then ends (`Respond`). A deletion is `DeleteSession` (the row
goes; the answer may be lost), `InvalidateSession` and `InvalidateAWSSession`.
`Restart` loses everything but the database.

The history variable `overtaken` names the two cases in which the invalidation
cannot help: a request has read the row and not yet cached it, or the database
deleted the row and its answer was lost. `StaleOnlyWhenOvertaken` says there is no
third. `InvalidateAllForSession` invalidates only the key of the positive id, so
the presigning client survives it. It is unreachable without claims, which is why
`ImplementsAccess` holds all the same, and like every other client it is gone some TTL
after the last handler that could build one: `DeletedClientsFade`, beside
`DeletedSessionFades` for the rows' copies. That only a session's owner is served needs
no property of its own: `SessionAccess` serves nobody else.

### TokenRevocation

Accounts share nothing but code, so there is one. A pair of tokens is one record:
`iat` in whole seconds, the number of the password behind its chain of refreshes,
whether a change minted it, and whether it is `late`: some handler of its chain read
the row before the newest change wrote its cut-off and minted after that change took
it. A new change has been escaped by nobody yet, so it clears the bit everywhere. `Login` and `Refresh` end where the row has been checked;
`Mint` is the later `setAuthCookies`. A change may come in by a JWT or, if the account is an
admin's, by an API token (`HasApiToken`). `BeginChange`, `UpdateUser`, `TakeCutoff`,
`RevokeUserTokensAt` and `Mint` are HandleUpdateSelf's steps; each may be the last,
and two changes may overlap, in which case the later write may carry the earlier
cut-off; the property is stated while the cut-off is the newest change's (`ended =
password`), and what two overlapping changes promise is documented nowhere.
`now >= cutoff + 1` is the sleep before the changer's new pair.

### BulkFanout

`Add`, `Start`, `EndLoop` and `Reply` are `wg.Add(1)`, `sem <-` with `go`, the end of
the loop and `wg.Wait()`; `Send`, `Call`, `Return`, `FailEarly`, `Free` and `Done` are a
goroutine's, with the two halves of the deferred function apart. `FailEarly` is what fails
before the call is made (no client, a bad argument). `Send` hands the call to the
transport, where it is queued and from where nothing calls it back: the code gives the
SDK no context and no deadline, so only a freed slot lets it go on (`Call`). `Slots` is how
many calls the transport shared by all requests runs at once. `MaxConnsPerHost` limits
connections; over HTTP/1 that is the number of calls, over HTTP/2 a connection
carries several, so `Slots` is a constant of its own and no property depends on
its value. A bulk HEAD leaves the place of a failed key nil, an ACL change writes
its error there; `Reported` is what a caller can read as done.

### StorageMoves

A bucket maps keys to contents, and a key is a folder and a name numbered in the
order storage lists names; name 0 is the folder's marker. Contents are named by
origin, so that "the same object" is visible after any number of copies. Storage
performs one call at a time; `Copy`, `Put` and `Upload` may have taken effect though they look
failed, `ItemFault` and `Fault` are calls without effect, `Crash` is the end of the
process between two calls. `List` is one page: a folder rename works on a page
before it asks for the next, so what it deletes has gone by then, and a folder
deletion reads all pages first. `Purge` is one `DeleteObjects`, whose answer lists
keys it could not delete and is dropped by the code, or does not arrive. An upload is `HandleUpload`, which
reads the file into a temporary one while the bucket goes on changing, and `Upload`, the
one unconditional PutObject; until then nothing of it is in the bucket.

History variables: `overtaken` (someone else wrote a key after it was found free),
`replaced` (what a rename without `?overwrite` or a folder creation overwrote) and
`entrusted` (what a rename or a folder deletion found under its source, minus every key
another request has written since, and for a deletion minus what storage refused to
delete: `DeletionLeavesOnlyRefused` says that nothing else is left).

### Listing

Entries of one level are numbered in the byte order in which storage lists them;
0 is the folder's own marker. Listings only read, so there is one caller, and
everybody else is `Add` and `Remove` of an entry at any moment. `Page` is one
ListObjectsV2 call with what the handler's callback does with its page: which page
storage answers is any first part of what is left, as long as `MaxPage` at most, so
that short pages are covered. `ContentsPage` is ListContents' callback (the merge of
folders and objects, the count, the cursor), `CapPage` that of ListObjects,
ListFolders and GetFolder, which differ in what they keep (`Kept`) and in that
GetFolder stops at its cap without a word. The cursor is opaque to the caller and
decodes to the entry it was made from, so it is that entry; that StartAfter on a
common prefix skips the whole prefix is storage's part. `Fault` is a page that
cannot be read; `Resume` and `Retry` are the caller's.

`seen` and `stayed` are history: what earlier calls of the walk returned, and what
has been in the level all the time since it began. Of an entry that comes or goes
during a walk nothing can be promised, except that it is not returned twice.

### RequestGate

What `main.go` puts before a handler: CSRFMiddleware, AuthMiddleware, RejectPending
and the role guard of the route. A request may carry a credential in each of three
places, tried in order: an Authorization header (JWT or API token), the SSO session
cookie, the `ob-access-token` cookie. `Check` is the lookup of the credential
itself, `ReadUser` the later read of the user's row, by which the rest of the
request goes; whichever fails, the next place is tried (`NextPlace`), and a read
that fails counts as a bad credential (`ReadFault`), except that an unreachable
identity provider is told (`ProviderUnavailable`). A junk credential is one that is
no longer valid. `UpdateUser`, `CreateUser`, `CreateApiToken`, `End` and `CutOff`
are what handlers do to the rows, this request's own (`Act`) or others' (`Others`).
A route is known by who may use it, and a request also by whether its method is safe:
only an unsafe one must pass CSRFMiddleware and changes anything; the routes for editors
have no safe ones. Requests meet only in the rows, so there is one. Left out: `last_used_at`, which
nothing reads, users created by a first SSO sign-in, the exempt paths, whose
handlers ask for no user, and that a `bearer` in lower case is not exempt.

The history keeps, since the request arrived, which places held a valid credential
(`wasValid`), which held one that the user's row let in (`wasEnough`: active, of a role that
may, not cut off, no JWT of an SSO user), and which held a good one all the time. The
credential and the row are read at different moments, and either may change in between, so
that both were good at one moment is more than the code can promise; that each was at
some moment while the request ran is `ActsOnHeldAuthority`, and it is
what "revocation is immediate" and "on their next request" (docs/authentication.md)
come to: what ended, was cut off or demoted before a request never serves it. `FirstSteadyWins` holds only without failed reads: after one, a good
credential may be passed over and the request be answered 401.

### SsoSettings

HandleAdminUpdateSSOConfig saves the keys it is given one by one in a fixed order
(`SetSetting`, errors ignored), gives up when the secret cannot be encrypted
(`EncryptFault`), and calls `sso.Reload`, which reads them (`LoadURL`, `LoadFault`) and
later stores a manager (`Store`). The first requests after a start that find no manager
do the same (`Need`). Three keys stand for the fourteen: the client's id and secret,
which the sink uses, and the post-login URL, the only setting a manager keeps (all
others it reads anew for every sign-in). `Config` is LoadConfig with the environment as
a fallback. A value is named by the handler that saved it, so "the saved value" and
"the same credentials" are visible; saving an empty value is left out, and the
environment is taken to name a post-login URL (else it is derived from the redirect
URL, one more key).

A 2xx answer to a change by an SSO user starts a goroutine (`Succeed`) that reads its
client (`LoadClient`) and then, under `sinkMu`, takes the current reporter or replaces
it (`Obtain`). `built` lists every reporter made; a replaced one is closed by `go
old.Close`, which flushes. An event may still be handed to a reporter that has been
closed since; what the library does with it is outside this repository.

The history variable `missed` holds the reloaders between read and store that failed
to read or that another store has passed; `doubted` says the live manager is of one of
those. `StaleOnlyWhenDoubted` is what holds of the manager: once nothing is under way
it is that of the saved settings, except in these two cases. That a save which fails
at the secret needs no reload rests on the order of the keys: everything a manager
keeps is saved after it.

### Startup

`RunMigrations` walks through the embedded files: `Check` asks `migrations_applied`,
`Begin` and `Execute` send the file's statements, `Record` inserts its name. A file is
one call of the driver, but it holds several statements, and MariaDB commits each
data definition on its own, so each is a step. The twelve files are written out by
what they do to tables: a table is the set of those columns and indexes that some file
changes, and `"base"` for the rest of what it is created with; the clauses IF [NOT] EXISTS decide
between doing it and doing nothing (`Outcome`), and an ALTER of a table that is not there,
an index or a place after a column that is not there, or a foreign key to such a table, fails
(`Fails`). All this is MariaDB. The repository's README names MySQL as well, which knows no
IF [NOT] EXISTS for columns and indexes and would fail at file 004 at every start; nothing here
is said of it. The database is new at first; one that an earlier release has left is
what a process leaves that is stopped after the last file of that release. The names of
this module's definitions say whose they are (`MigrationSpec`, `Replicas`, `phase`),
since its proofs share a module with those of `Accounts`: `main` runs the one right
after the other, on the same database.

A failure is `log.Fatalf`: the process is stopped and the container starts it again
(`restart: unless-stopped`). `Stop` is a kill, a database that does not answer, or a
lost answer, at any place. Losing the race for a record is no fault but a consequence:
the insert meets the primary key and ends the process.

`ServesOnFullSchema` compares the tables with what the queries of this release name
(`Needed`). It is about the files' being re-runnable in the middle of one another: a
process may still be at an early file while another has finished and serves. The history
variable `raced` names the one thing that does stay behind: a process that looked
at 006 before another recorded it may create `sso_sessions` again after 012 dropped it
and then exit at its record; the next start skips both files (`LeftoverOnlyWhenRaced`).
Nothing uses the table.

### Accounts

An account is its email and kind, which the unique index covers and nothing updates;
`users` holds the subject in its row. `CountUsers`, `CreateAdmin` and `BootstrapFault` are
EnsureAdminUser in a process that starts, all of whose errors `main` only logs. A
sign-in goes through `LookupSubject`, `LookupEmail`, then `Heal` (the row found by
email has no subject of the provider yet, and gets this one) or `Create`; each is one
query, a failing one is `SignInFault`, and a row inserted while the answer was lost is
the second half of `Create`. `NoSubject` stands for what counts as no subject: null,
empty, or the email that older releases stored. `NotFound` may end the sign-in because
AutoProvision is the provider's setting. Two assumptions: no subject of the provider holds
an "@", by which `LooksLikeEmail` tells emails from subjects (forta's are UUIDs, as
`sso/provider.go` says; another provider's subject with an "@" would be bound over); and
`OB_ADMIN_EMAIL` and its password are those of the first start: set or changed once any account
exists they create nobody, and the model does not change them. `AdminCreateUser` is the administrator's.
Roles and active flags decide nothing on these ways (an inactive user is refused after
the account is found) and are `RequestGate`'s; the update of the profile picture is left out.

`known` is what was bound to a subject when its sign-in began, and `strayed` who
got another account than that. Two races make this possible: two sign-ins of one subject
that both found no account of it (`crossed`) may each bind or create one under two
emails, and two sign-ins of different subjects that found one unbound account
(`contested`) both write their subject into it, the second over the first.
`SignInKeepsAccount` and `TwinsOnlyWhenCrossed` say that there is no third way, retries
and changed emails included. `AdminlessOnlyWhenBotched` says when a system with accounts can
lack its first administrator although one is configured: only after a process failed
to count or to create and served all the same (`botched`), so that a first sign-in filled
the table. From then on no start creates one.

## Runs

| Run | Instance | What it shows |
|---|---|---|
| `session_cache` | 1 session, 2 users, 2 requests, 1 delete handler, TTL 1 | types; own client; stale only when overtaken; deleted sessions and their clients fade; `SessionAccess` is implemented |
| `token_revocation` | 2 handlers, clock to 3, 2 password changes, lifetimes 1 and 2 | types; old sessions end unless minted late; the changer stays signed in |
| `token_change` | the same | *violated*: `NewPasswordEndsOtherSessions` |
| `bulk_fanout` | a HEAD of 3 keys and an ACL change of 1, semaphore 2, 2 slots | types; bounded calls; quiet after the answer; `BulkOp` is implemented; every request is answered |
| `storage_moves` | any 2 operations on 2 folders of a marker and 2 files, pages and chunks of 2 | types; replacing only in a race; nothing entrusted is lost; success means all moved, or all deleted but what storage refused |
| `storage_replaced` | the same requests, folders of a marker and 1 file, pages and chunks of 1 | *violated*: `NothingReplaced` |
| `listing` | 5 entries and the marker, folders and objects in turn, pages of at most 3, answers of 2 | types and length of answers; exact cursors; nothing twice; a cut is told; walks end |
| `request_gate` | a local and an SSO user, one API token, a JWT of each, one SSO session, 2 changes of the rows | types; authority held; changes on cookies confirmed; the first steady credential wins |
| `listing_truncated` | as `listing` | *violated*: `TruncatedMeansMore` |
| `sso_settings` | 2 saves of any keys, 1 first request, 2 events, restarts | types; the manager lags only when doubted; events keep their credentials; replaced reporters are closed once |
| `startup` | 2 processes, the 12 files from a new database on, 3 faults | types; no process serves on an incomplete schema; `sso_sessions` stays only after a race; every process gets to serve |
| `accounts` | 2 processes, 2 sign-ins at a time and repeated, 2 subjects with any of 2 emails, one local account more | types; a sign-in keeps its account; two accounts of a subject only after a race; the first administrator exists unless creating it failed |

The bounds. One session is enough for `SessionCache` because sessions meet only in
the client map, whose keys are shown distinct by a lemma for any ids; two requests
and a delete handler make every race of a fill with an invalidation, and TTL 1
distinguishes fresh, old and expired. In `TokenRevocation` two handlers give a
change beside a refresh and a change beside a change, and the clock reaches one
second past the longer lifetime. `BulkFanout` needs a batch larger than the
semaphore and two batches that together outnumber the slots: a full semaphore of one
request may hold both slots while the other's call is queued; 0 and 4 keys are
there to be refused. In `StorageMoves` a folder of three keys takes two pages and
two chunks, and two requests make every race between a check and a write. In
`RequestGate` two changes of the rows revoke one credential and restore another, or
issue a token and end it, around every read of a request with any of its credentials
in any place. In `Listing` pages are shorter than, as long as and longer than an answer, three calls
make a walk, and exactly full answers end on the last page and before it.
In `SsoSettings` two saves and a first request make three reloads that may overtake one
another, and two events with different clients replace the reporter under each other;
restarts let all of it happen again on other settings.
In `Startup` one fault ends a process at the files of an earlier release, one interrupts
a start and one its repetition, and a third process would race with the second as the second does with the first. In
`Accounts` any number of sign-ins may follow one another on two places, so a history of
several races fits; two emails are enough to split a subject's accounts, and a third
sign-in at a time was run once with one process and showed nothing else.
`SYMMETRY` is used only in runs without temporal properties.

`CHECK_DEADLOCK FALSE` is given where every handler of the instance has ended: the
fan-out and the storage operations are one-shot, and a real server goes on with
other requests; once all processes serve and the faults are used up, `Startup` has
nothing more to do.

### What the violated properties say

- `NewPasswordEndsOtherSessions` (`HandleGetSelf.router.go`: "A new password ends
  every other session"). A refresh or login that read the row before the change and
  mints in a later second than the cut-off gets tokens the change does not end.
- `NothingReplaced` (`exists.aws.go`: the check "keeps it from silently replacing
  someone's file"). An upload between the check and the copy is replaced.
- `TruncatedMeansMore` (`list.aws.go`: "truncated reports that more exist"). When the
  page that fills an answer brings it to exactly `MaxListEntries` objects and only
  sub-folders are left, the answer is complete and called truncated. `ListFolders`
  has the mirror case.

For the first two, the passing run states what holds instead: `OldSessionsEndUnlessLate`
and `ReplacedOnlyWhenOvertaken`. For the third it is the other direction that matters to a
caller, and it holds: `CutIsTold`.

### Where the documents disagree and the code is the safer

Two properties hold of the code and contradict a document. In both cases the document's
rule is the faulty variant listed with the property, so the same instance shows what would
come of following it.

- `CookieChangesConfirmed`. docs/authentication.md (164-165), README.md (106) and docs/README.md
  (24-25) exempt any request with an `Authorization: Bearer` header from the CSRF check.
  csrf.go exempts it only when no session cookie comes with it, since authentication may fall
  through from a bad header to a good cookie. The documents' rule is `CsrfPassesAnyBearer`.
- `SignInKeepsAccount`. docs/authentication.md (122-123, 241) says that a user is matched on the
  field of `OB_SSO_USER_IDENTIFIER`, by default the email. sso/session.go never reads that
  setting: it asks for the subject and only then for the email. The documents' rule, without
  the subject, is `LookupSubjectSkipped`.

### Fairness

`SessionCache`: the clock runs and a handler that can take a step takes it. Requests
block only on the database, which answers or fails by the driver's deadline. `Respond` is
strongly fair: a handler that comes by it time and again answers in the end, because a
batch has so many keys and no more, while the model lets it ask for clients for ever.
`DeletedClientsFade` needs that; `DeletedSessionFades` does not.
`BulkFanout`: goroutines are scheduled, the transport serves its waiting calls, and
storage answers a call or the connection fails. The code sets no overall deadline
on a call, so the last is an assumption on the storage server. Each step of a goroutine is
fair on its own: what is queued is not also given a way to fail, so if slots leaked, or
goroutines waited on one another, the run would end with requests unanswered. Weak
fairness suffices for `Start`, because a goroutine waiting for the semaphore is its
handler's only candidate, and for `Call`, because batches are finite and the
others run out. Nothing is assumed to arrive: `Receive`, `Arrive`, `DeleteSession` and
`CreateSession` have no fairness. `Listing`: a handler reads on and its caller follows the cursor; a call that
fails need not be repeated, and nothing is assumed of other requests. One `WF` on
`Page` is enough although entries come and go, because a handler at `page` stays
there until it reads one. `Startup`: a stopped process is started again, which is the
container's `restart: unless-stopped`, and a running one takes its next step; faults are
bounded by `MaxFaults` and need not happen.

## Proofs

Assumed: the constants have the types their modules state (`SessionsAssumption`,
`TTLAssumption`, `NoUserAssumption`, `TimesAssumption`, `LimitsAssumption`, `BoundsAssumption`,
`UsersAssumption`, `CredentialsAssumption`, `ProcessesAssumption`, `ValuesAssumption`,
`FaultsAssumption`, `AccountsAssumption`, `SizesAssumption`), which
TLC evaluates in the runs of their modules.

**SessionCacheProofs.** `TypeOK`, `ClientMatchesSession` and
`StaleOnlyWhenOvertaken` are invariants, and the specification implements
`SessionAccess`. None is inductive alone. `RequestInv` says that a request with
claims is the owner's; `ClientInv` that under each key lies the client of that
session and endpoint, which needs that an id and a negated id never meet
(`CacheKeyInjective`); `StaleInv` that once a deletion has been invalidated and was
not overtaken there is neither a cache entry nor a request about to make one, and
`DeleteInv` that a delete handler under way really deletes a deleted row, without
which `StaleInv` is not kept by a second deletion. For the refinement, a status is
`lingering` while a cache entry or a request still holds a copy of a deleted row;
`CachedInv` shows it cannot come back from `gone`.

**TokenRevocationProofs.** `TypeOK`, `OldSessionsEndUnlessLate` and
`ChangerStaysSignedIn`. The argument: a change that has taken its cut-off and set
the current password has every older token that is not late behind the cut-off
(`CutoffInv`); once the cut-off is written, a handler about to mint for an older
password is late (`LateInv`), because a refresh that starts after that is refused
unless its own token was late; and each change in flight owns its password number
(`ChangeInv`), so overlapping changes do not vouch for one another's cut-off.

**BulkFanoutProofs.** `TypeOK`, `CallsBounded`, `QuietAfterReply` and the refinement
to `BulkOp`. The counters are tied to what they count: `len(sem)` is the number of
goroutines between `sem <-` and `<-sem`, the wait group the number not yet past
`Done` plus the one being added, the transport's load the number of running calls.
With that, an empty wait group after the loop means all goroutines are done, so all
keys are settled when `Reply` reads the slice.

**ListingProofs.** `TypeOK`, `CursorExact`, `NeverTwice` and
`CutIsTold`. The lemmas about pages say that `FirstOf` is downward closed, no longer
than asked for and not empty unless nothing is left; they rest on the naturals being
well founded, which replaces an induction over the length. `PageInv` is what a call
has done between two pages: of all that stays, exactly what lies up to `after` has
been collected by this or an earlier call. `AnswerInv` keeps that for the cursor
(the last entry of the answer), `FailedInv` for a call that is dropped, and `SeenInv`
says earlier calls ended at the cursor, from which nothing is returned twice.

**RequestGateProofs.** All four invariants. While a request is under way the history
covers the present (`HistoryCovers`: valid credentials and rows that let in), and a token that has been valid keeps its
owner (`IssuedOwned`), so what was read earlier stays covered whatever the rows
become; no place before the one being tried is steady (`NoneBefore`), because a
place is passed over only when its credential is bad at that moment or a read fails.

**SsoSettingsProofs.** All four invariants, from two that share nothing but the table.
`ManagerInv`: whatever differs from the saved settings, the live manager or the one a
reload is about to store, has another reload still to come, or is doubted. It is
inductive because a save that changes the URL has no key left and goes on to reload
(`SaverReloads`), and because a store dooms every other reload between its read and its
store. `SinkInv` adds to the two properties that an event about to report has a reporter
at all; that replacing one leaves the others' clients alone and closes just the last is
the lemma `Replaced`.

**StorageMovesProofs.** All five invariants, for any number of requests at once on any
folders, and pages and chunks of any size. What each handler needs (`HandlerOK`) is
local, and another's write disturbs it only where the history says so
(`OthersKeep`). `FreeOK`: what a handler found free and has yet to write is free
unless it was overtaken, for a folder rename every name past its cursor and every name
of its page it has not copied. For all a handler is entrusted with, `AheadOK` says that it
is untouched as long as it is ahead, that is past the cursor or on the page;
`CopiedOK` that the copy of the item under way holds what its source held before
the source is deleted; `DoneOK` that what is no longer ahead has been moved, or
deleted; and `EndOK` that nothing is past the cursor once the last page has been read.
`RenameKeepsContents` needs `CopiedOK` and that sources and destinations lie apart
(`Apart`); `SuccessMovesAll` and `DeletionLeavesOnlyRefused` are `EndOK` and `DoneOK` at the
end. The page is cut by `FirstOf`, of which the proof uses that it is downward
closed, so that no name is skipped below the new cursor, and not empty while something is left.

**DatabaseProofs.** The invariants of `Startup`: each of the twelve files' statements is shown
to leave every table whole, to take away no column that is to last, and to
give the one it is there for (`Effects`). `ColumnsInv` then holds of what is recorded, and
already of what a process has executed and not recorded: that is what another process builds on
when it loses the race. `OrderInv` says that files are recorded in order, so a process that
serves has all of them behind it. `RaceInv` says that without a race one process at most is at
006, none once it is recorded, and so none when 012 is at work; only 006 makes the table again.

The four invariants of `Accounts` and an action property. `AdminInv` makes
`AdminlessOnlyWhenBotched` inductive: not only accounts but a serving process or a
sign-in under way imply the administrator, because a process counts before it serves and
nothing else makes a first account. `TwinInv`: of a subject that has not crossed, one
sign-in at most is past a vain lookup of its subject, and while it is no account is
bound to it. `HealInv` says what the row that is about to be bound may hold, and with it
`KnownInv` that what was bound to a subject when its sign-in began is still bound to it
unless contested; who comes away with another account then contradicts
`TwinInv`. From `HealInv` also follows `BoundAccountsStay`: no step rebinds an account
that is not contested, though the update is unconditional.

**Model-checked only.** Liveness (`DeletedSessionFades`, `DeletedClientsFade`,
`EveryRequestAnswered`, `WalkEnds`, `EveryProcessServes`) is out of the prover's reach, as are `ENABLED` and
inductions over data. Every invariant and action property the runs check is also proved.

## Not modelled

- The SDK's own retries inside one call (a retried call is one call that may take
  effect and look failed), nested folders (a rename of `a/` moves `a/b/c` by the
  same code as `a/c`), and two consoles of one user (requests are independent).
- What signing, encrypting and validating a single value do: `tools`, the signature
  part of `jwt`, request parsing.
- Growth of the cache maps: entries are never evicted, only hidden.
- The exchange with the identity provider and the browser sessions it leaves: both are the
  library's (go-oidc-session); its answers are the inputs of `Accounts` and of `RequestGate`.
- The storage probe (one goroutine that keeps nothing between two checks), and processes of
  an earlier release that go on serving while a newer one migrates under them.
- That admins may demote one another until none is left: the steps are in
  `RequestGate`, and no document says that one must remain.
- Read-only single calls (download, presign, ACL read, instance rows) and HTTP
  plumbing.

## Plan

What is left:

1. Action properties of the other components, as `BoundAccountsStay` is one of `Accounts`.
2. `instances` and the administrator's proxy to them, were they to keep more than rows.
