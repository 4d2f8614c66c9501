# GoTunnels in TLA+

GoTunnels is a Go API over PostgreSQL with a static JavaScript frontend, served
through tunnels. This directory models the parts of it whose correctness depends on
the order in which things happen (requests, statements, tabs, failures, the
clock), checks them with TLC on small instances and proves the most important
results for all sizes with TLAPS.

Run, in this directory, `tlc -config MCSecondFactor.cfg MCSecondFactor` (and likewise the
other runs of the table below) and `tlapm SecondFactorProofs.tla` (and the other
modules named `*Proofs`).

## 1. The system

Every HTTP request runs in a goroutine of its own. The API keeps nothing in memory
about its users except the rate limiters, the derived relying parties and the
configuration: everything else is a row in PostgreSQL, read and written by single
statements or by the transactions of `store.inTx`. So requests interleave *between
statements*, and what protects an invariant is a `WHERE` clause, a unique index or a
transaction. In the browser every tab is a process of its own; tabs share
`localStorage` and the cookie jar, and every `await` is a point where another tab, the
server or the user may act.

| Component | State | Operations | Hard behaviour | What makes it correct |
|---|---|---|---|---|
| Second factor (`auth/handlers.go`, `auth/totp.go`) | `totp_secrets` (secret, confirmed, last_used_step), `totp_recovery_codes` | Login, TOTPEnroll, TOTPConfirm, TOTPDisable | each handler is 2 to 4 store calls; any may fail; others run in between | no session on a password alone while a factor is active; codes are single-use; an active factor is not swapped or stripped; recovery codes belong to the enrolled secret |
| Rate limiter (`httpx/middleware.go`) | a map of token buckets, time of the last sweep | Allow (with refill and sweep) | buckets are forgotten and re-created | sweeping changes no decision; the rate holds in every window; memory bounded by recent keys |
| Signup guard (`server/server.go`) | two limiters | check per IP, then site-wide | two mutexes, requests between the checks | one client cannot drain the shared bucket; the site-wide cap holds |
| Sessions (`auth/handlers.go`, `store.go`, `api.js`, `common.js`, `page-settings.js`) | `sessions`; token in localStorage, cookie, each tab's page | login, me, logout, logout-all, storage events | reloads, lost answers, requests that outlive their tab, stale 401s | a confirmed sign-out is one; faults never sign out; other tabs notice |
| Accounts and WebAuthn ceremonies (`auth/handlers.go`, `store.go`) | `users`, `webauthn_credentials`, `webauthn_flows` | Signup, Passkey{Signup,Login,Register}{Begin,Finish}, janitor | a ceremony spans two requests; retries, copies, expiry on two clocks | accounts are whole; a session only for the account that earned it; a flow is finished once |
| Captcha statistics (`captcha.go`, `page-captcha.js`) | `captcha_stats`; the client's unsent deltas | Stats, Sync, Reset, Leaderboard; boot, solve, miss, flush, reset, unload | lost answers, failures while more is solved, a flush racing a reset or an unload, several pages writing one row | no solve lost or counted twice, unsent work is always scheduled, the best streak survives |
| Notes (`notes.go`, `page-notes.js`) | `notes`; the feed of a tab | List, Create, Delete; poll, load older, post, delete, filter, hide and show | answers applied out of order, a filter changed while requests are in the air, a poll cycle that must survive every failure | polling never stops; the feed converges; nothing of an earlier filter is shown; paging leaves no hole |
| Database (`database.go`) | `schema_migrations`, the advisory lock, sessions of PostgreSQL | Connect, Migrate | several instances and versions boot at once, one dies with the lock or with a COMMIT in the air | every version applied once and in order; who serves has its schema; every boot ends |
| Life cycle and janitor (`cmd/api/main.go`, `maintenance.go`) | the process, its goroutines, the pool | boot, wire, serve, drain, stop the janitor, close, exit; prune | a signal at any moment, a shutdown that times out, deletions that fail | nothing uses a closed pool after a clean shutdown; a signal ends the process; every table is pruned |
| CSP reports, health (`csp.go`, `health.go`) | `csp_reports`, `health_check_log` | report, ready; prune | batches with bad items, statements that fail one by one | one report does not cost another |
| Relying parties (`passkey.go`) | a bounded cache of derived relying parties | ForRequest, ForOrigin | the cache is emptied or lost between the halves of a ceremony | a ceremony keeps its relying party |
| Preferences (`prefs.go`, `common.js`, `theme-boot.js`, `page-captcha.js`) | `user_prefs`; localStorage, what each page shows | GET and PUT of a preference; load, pick a theme, open or close the leaderboard | an answer older than the user's choice, PUTs that overtake each other or fail unseen, toggle events that come late | page and account agree on what the user chose last; not modelled (section 6), but for the filter of the notes page |
| Activity log | one table | insert | a failure is logged and ignored | single statements, not modelled |
| Passwords, configuration, telemetry, scripts, page rendering | none, or at boot only | parsing, hashing, exporting, shell | none in this sense | not modelled |

How they interact: `server.go` puts the signup guard in front of `Signup` and
`PasskeySignupFinish`, other limiters in front of the credential checks, and
`RequireAuth` in front of everything that needs an account; login, both kinds of
signup and passkey login end in `issueSession`; a ceremony asks the relying-party provider
at both ends; the janitor deletes expired flows next to the
requests that finish them; `run` starts and stops all of it, and closes the pool they share;
the frontend reaches the API through `apiFetch`.

## 2. The modules

| Module | Models | EXTENDS / INSTANCE |
|---|---|---|
| `SecondFactor` | the TOTP factor of one account | |
| `SecondFactorProofs` | its theorems | `SecondFactor`, TLAPS |
| `TokenBucket` | abstract: what a limiter promises | |
| `RateLimiter` | `httpx.RateLimiter`, with the refinement `Forgetful` of `TokenBucket` | INSTANCE `TokenBucket` |
| `RateLimiterProofs` | its theorems, the refinement included | `RateLimiter`, TLAPS |
| `SignupGuard` | the two limiters composed | EXTENDS `RateLimiter`, INSTANCE `RateLimiter` as `Site` |
| `SignupGuardProofs` | its theorems | EXTENDS `SignupGuard`, `RateLimiterProofs`; INSTANCE `RateLimiterProofs` as `SiteProofs` |
| `Sessions` | sessions on the server and in one browser | |
| `SessionsProofs` | its theorems | `Sessions`, TLAPS |
| `RPProvider` | relying parties, origin patterns and their cache | |
| `Ceremonies` | accounts, passkeys and flows, with the relying party of each ceremony | EXTENDS `RPProvider` |
| `CeremoniesProofs` | its theorems, those about the provider included | `Ceremonies`, TLAPS |
| `CaptchaSync` | the captcha statistics of one account in every open page and on the server | |
| `CaptchaSyncProofs` | its theorems | `CaptchaSync`, TLAPS |
| `NotesFeed` | the notes page of one tab over the table of notes | |
| `NotesFeedProofs` | its theorems | `NotesFeed`, TLAPS |
| `Migrations` | instances that boot over one database | |
| `CSPReports` | which items of a report request are stored | |
| `Lifecycle` | an instance from boot to exit, with its janitor and two kinds of request | EXTENDS `Migrations`, `CSPReports` |
| `LifecycleProofs` | the theorems of both | `Lifecycle`, TLAPS |
| `MC*` | the instances TLC checks | the module of that name |

Conventions. A request is a program counter with the values the handler holds in
local variables; one action is one store call, or the stretch between two
of them. `StoreError` is the error return of every call; a statement that took effect
although its answer was lost is the action followed by `StoreError`. Values nobody
reads any more are reset, which keeps the state space small and changes no behaviour. A definition
commented "variant" is a faulty version of its successor; nothing in a
specification uses it, and replacing the real one by it shows that the
properties are sensitive to that fault. Variables and fields commented "history" are read by no guard.

### SecondFactor

| Code | Model |
|---|---|
| row of `totp_secrets` | `row` (`NoRow` when absent; `last` is `last_used_step`, `NoStep` for NULL) |
| `totp_recovery_codes` with `used_at IS NULL` | `codes` |
| `Login` after the password check | `Login`, `TotpEnabled`, `LoadConfirmed`, `MatchCode`, `MarkTOTPStepUsed` or `UseRecoveryCode`, `IssueSession` |
| `TOTPEnroll` | `TOTPEnroll`, `StartTOTPEnrollment` |
| `TOTPConfirm` | `TOTPConfirm`, `LoadPending`, `MatchFirstCode`, `ConfirmTOTP` |
| `TOTPDisable` | `TOTPDisable`, `TotpEnabled`, `LoadConfirmed`, ..., `DeleteTOTPCodes`, `DeleteTOTP` |

`StartTOTPEnrollment` is one step because its first statement locks the row until
the commit. `DeleteTOTP` deletes the codes first and the row second; under READ
COMMITTED an enrollment may commit between the two, so it is two steps: the first
remembers which codes the transaction has deleted (and locked), the second deletes the
row as it then is and commits. The model shows that recovery codes without a row are
really left behind in that order of events, and that the next enrollment
clears them.

### TokenBucket, RateLimiter, SignupGuard

`Allow` holds the mutex throughout, hence one action: `Create`, `Take` and `Limit`
are its three ways out, all on the map `Swept` leaves. Tokens are counted in units of
`1/Cost` token and time in ticks, so that float64 arithmetic becomes exact; a burst
below one is one, as in `NewRateLimiter`. `lastSweep` starts at a time at least an
interval ago, which is what the zero `time.Time` amounts to. `TokenBucket` has
neither map nor sweep; `Forgetful` maps a missing bucket to a full one. In
`SignupGuard` a request is between the two checks while `atSite` counts it; the two
limiters share the clock.

### Sessions

Sessions are numbered in the order they are created; `ended` holds the revoked and the expired
ones. A tab is `boot` (loading), `loading` (waiting for `Api.me()`), `in`, `out`, or
`unsure` (the check failed with something other than a 401). `Send` reads the token
after `apiFetch` has awaited its configuration, and the cookie is attached or not as the
browser decides. A reload or a broken connection leaves the request in `abandoned`:
it may still take effect on the server, be cancelled, or never have arrived. Whether a storage event
waits for a tab is its `notified` field; `ClearToken` raises it in every other tab.
`OnMe` has two outcomes on a 401, a page that renders signed out and one
that redirects to `/login`.

### Ceremonies

A flow has a kind, the account (or candidate id) it was begun for and the ticks left
until the database finds it expired; `Skew` is how far the database's clock is ahead
of the API's, which computes `expires_at`. A finish request names *any* flow ever begun,
and the library reads any credential from it, or `NoCred` for a response it rejects.
The library is external: it accepts a new credential at registration and one of the
loaded credentials at login. The sign count, which nothing reads, is left out.

`RPProvider` is `ForOrigin` as an operator from a cache and an `Origin` header to a relying
party, the canonical origin (which the flow keeps) and the cache it leaves: an origin is configured,
matches a pattern, or is refused. The cache is a variable of `Ceremonies` (`byOrigin`); each
name's browser sits at an origin of its own (`Home`). `Restart` is an API that stops between the halves of a
ceremony: its requests and its cache are gone, the flows are not. The configuration does not change.

### CaptchaSync

| Code | Model |
|---|---|
| `pending`, `dirtyStreak`, `syncTimer` of a page | `pending`, `dirty`, `timer` of its record |
| `syncInFlight`, `inflight`, `hadDirtyStreak`, the batch and its answer | `sync` (the stage of the request), `inflight`, `had`, `body` |
| `boot`'s request for the statistics, `performReset` | `stats` with `boot`, `reset` |
| `captcha_stats` of the account | `row`; a missing row reads like an empty one, hence `NoRow` |
| `scheduleSync`, `flushSync`, `doFlush` | `TimerFires`, `FlushNow`, `FlushSync`, `OnSyncOk`, `OnSyncError`, `Landed` |

A page runs one event at a time, so one action is the code between two awaits. A
request is "sent" until the server has dealt with it, then "ok" or "error" until the
page has read the answer. When a connection breaks (`DisconnectSync`,
`DisconnectReset`) the page sees an error while the request, in `abandoned`, may still
take effect, and the same holds for what a closed page leaves behind. `Unload` may
happen at any time, so a 401, whose handler navigates to `/login`, is an error followed by it.
A tab that is hidden is `FlushNow`, one that is closed in an orderly way `PageHide`. The displayed
total and speed and the leaderboard only read and are left out; manual and
automatic solves are one count with one cap (the code caps each), and a page asks for one reset at a
time. `due`, `since` and `told` are history.

### NotesFeed

| Code | Model |
|---|---|
| `noteMap`, `pendingNew`, `oldestLoadedId`, `reachedEnd`, the button, `initialLoaded`, `pollTimer`, `selectedAuthors` | `shown`, `queued`, `oldest`, `end`, `more`, `loaded`, `timer`, `filter` of `feed` |
| `polling`, `gen` and the answer of `pollOnce`; the same of the Load older handler | `poll`, `older` |
| `feedGen` | the stage "stale" of a request: its `gen` is no longer `feedGen` |
| the note of the composer's request; the requests of the delete dialog | `post`, `deleting` |
| `notes`, its identity column, INSERTs under way | `notes`, `next`, `inserting` |
| how far `boot` has come | `boot` |

Again one action is the code between two awaits. A request for notes has three moments (sent,
answered by the server, read by the page), since the answer may be old when it is read; a post
or a delete acts on the table at one moment and is answered at another, and when it fails it may
still take effect. Ids are handed out when an INSERT starts and notes become visible when it
commits, so a smaller id may appear after a larger one. `boot` is in the model because the page's
listeners work before it has ended: a tab that is shown polls although the saved filter has not
been loaded. Whether the reader has scrolled down is chosen anew for every answer. One post at a
time is a bound, and a page that leaves for `/login` after a 401 is out of the model. `early`, `base`
and `late` are history.

### Migrations, Lifecycle, CSPReports

| Code | Model |
|---|---|
| `schema_migrations` and the schema | `applied` (a migration and its row commit together) |
| `run` up to the end of `Migrate` | `pc` with `Start`, `Connect`, `Grant`, `Read`, `Apply`, `Commit`, `Unlock` and their failures |
| the session behind `conn`; the advisory lock | `sess` ("waiting", "locked"), `cut` once the client's end is closed |
| a COMMIT that was sent | `tx` |
| `isDone`, `applied` of `Migrate` | `done` |
| `rootCtx` | `sig`; `Cancelled` for what derives from it |
| the rest of `run`, with its deferred calls | `main` with `Wire`, `SeeSignal`, `ServeFails`, `Drained`, `DrainTimesOut`, `JoinJanitor`, `Exit` |
| `Janitor.Run`, `RunOnce` | `janitor`: the step of the pass and whether its context is done |
| `Ready`, `ServeHTTP` of `csp` | `req`: the statements still to run, and whether one holds a connection |

The point of `Migrations` is that PostgreSQL and the process part ways: a killed instance, or one
whose connection breaks, leaves a session behind that still waits for the lock, holds it, or
commits (`OrphanCommits`) until the server notices (`LoseSession`). A cancelled context closes the
connection in the middle of a statement and fails the next one before it is sent; the unlock, which runs
without that context, is then refused and the connection closed (`Cut`). An instance that is started
while the session of its predecessor lives on is another member of `Procs`.

`Lifecycle` follows some of the instances (`Servers`) after their boot. A request or a deletion is the
statements it runs; each may fail. `pool.Close` waits for the connections in use and hands out
none any more (`Exit`, `Acquire`). `Stepped` takes the janitor from one deletion to the next, whatever came of the
first; `spent` is the pass's minute being over, or its context cancelled. Rows are abstracted to "there are some to
delete". `CSPReports` is `Normalize` and the limit of `ServeHTTP` over bodies whose items are a violation, a report of
another kind, or malformed.

## 3. The runs

| Run | Checks | Bounds |
|---|---|---|
| `second_factor` | `TypeOK`, `SessionNeedsSecondFactor`, `RecoveryCodesMatchRow`, `StepSpentOnce`, `RecoveryCodeSpentOnce`, `ActiveFactorOnlyRemovedByCode` | 2 concurrent requests, 2 secrets, 1 recovery code each, codes of 2 time steps |
| `confirm_race`, `stale_secret` | two statements that do not hold, see section 5 | the same |
| `signup_guard` | `TypeOK`, `OnlyRecentKeysTracked`, `NoisyClientCannotDrainSite`, `SiteWideCap`, `SweepChangesNoDecision`, `TokensConserved` | 2 clients, 7 moments, a token every two ticks against one a tick, bursts of 2, a sweep every two ticks, 1 request of a client between the checks |
| `sessions` | `TypeOK`, `SignedOutMeansRevoked`, `FaultsNeverSignOut`, `StaleTabNotices` | 2 tabs, a second device, 2 sessions, expiry on, 1 request left behind at a time |
| `forgotten_session` | one that does not hold, see section 5 | the same, expiry off |
| `ceremonies` | `TypeOK`, `AccountsAreWhole`, `SessionsAreEarned`, `CeremonyKeepsRP`, `FlowConsumedOnce` | 2 requests, 2 names at 2 hosts of one pattern, a cache of 1, 2 credentials, 3 flows and accounts together, flows of 2 ticks with a clock skew of 1 |
| `lifecycle` | `TypeOK`, `NoBootRace`, `AppliedInOrder`, `BootedSeesSchema`, `BootsEnd`, `PoolOutlivesItsUsers`, `SignalledEnds`, `StaleRowsGo`, `ReportsAreIndependent` | 2 instances with 2 migrations and 1, the first followed to its exit, 1 request at a time, 3 report bodies of which 2 reports are stored, the rows of 1 table behind another |
| `captcha_sync` | `TypeOK`, `NothingLost`, `NothingCountedTwice`, `WorkIsScheduled`, `BestIsSaved` | one page loaded twice, 2 solves, 1 reset, 1 broken connection, 1 request left behind at a time, streaks capped at 1, deltas at 2 |
| `last_batch`, `reset_resurrected` | two that do not hold, see section 5 | the same, streaks capped at 2 |
| `notes_feed` | `TypeOK`, `PollingNeverStops`, `FilterHolds`, `PagesAreWhole`, `FeedConverges` | 3 notes (two of another author, at first, and one of the user), pages of 1, 1 change of the filter, filters "everyone" and "me" |

Why these are enough. Each hazard of the second factor is a race of two requests
over one row, and any number of further requests may run before, since
a slot is free again when its request ends; two secrets give an old and a new
enrollment, and two steps a spent code and a fresh one. In the limiter a bucket is drained, refills
partly, refills fully, is swept and re-created within seven moments, with a second
client and a second limiter next to it. Two tabs and a device are every role there
is in a race (the tab that signs out, the one that is stale, the third party that
signs out everywhere). Three ids let two ceremonies compete for one name and a third account exist
next to them, and the skew makes a flow expire on the database's clock before the API's. In
`captcha_sync` the second writer of the row is what the first load of the page has left
behind, which may land before, between and after the steps of the second load; one
solve before a sync and one while it is in the air are the two sides of every race; the cap on
streaks is passed, the one on deltas is not (`NothingLost` does not hold beyond it, see
section 4). Any number of pages is a matter of the proofs. In `notes_feed` a page of one note makes
every second note an older page; a note the user writes, two that may be deleted, and everybody's
writing stopping at any time give an answer that is older than a post, a deletion, a
filter change or a page that was loaded meanwhile.

In `lifecycle` one instance is at each point of its boot while the other is at each point of its own, or has
left its session there; two migrations make "between two" and a
binary that knows fewer; a third instance waits for the lock like the second, and `LifecycleProofs` is about
any number. Two deletions of a pass are a failing one and the one behind it; the two hosts of `ceremonies`
and the cache of one make every begin of the other host empty it.

Deadlock is checked where it can say something: requests can always arrive or fail,
and the user may always act; in the run of the signup guard somebody whose request is
refused may always try again. It is off in the captcha runs only, where the user may close the
last page for good. MC runs of symmetric constants use
`SYMMETRY`, except `sessions`, which checks liveness.

What the properties say:

* `SessionNeedsSecondFactor`: a login issues a session on the password alone only if
  the factor was inactive at some moment during that very request. The field `off` of a
  request remembers it.
* `StepSpentOnce`, `RecoveryCodeSpentOnce`: whatever races, a time step is accepted
  once while its secret is enrolled, the confirming one included, and a recovery code once ever.
* `ActiveFactorOnlyRemovedByCode`: an active factor goes away only at the end of a
  disable whose code was accepted.
* `RecoveryCodesMatchRow`: unused recovery codes are of one enrollment, and of the
  enrolled secret when there is one.
* `SweepChangesNoDecision`: `RateLimiter` implements `TokenBucket`.
  `TokensConserved`: no tokens out of nothing. `OnlyRecentKeysTracked`: the map is
  bounded by the recently active keys.
* `NoisyClientCannotDrainSite`, `SiteWideCap`: the order of the two checks protects
  the shared bucket, and the shared bucket caps the site.
* `SignedOutMeansRevoked`: a logout or logout-all that the server answers with success
  has ended the session it came with, or every session there was when it was sent.
* `FaultsNeverSignOut`: the token is forgotten only on "Log out", or on an answer of the API, never an
  error, to `/api/me` or to "Log out everywhere" when the credential that was sent is dead. A 401 that answers the
  retry of a log-out-everywhere shows no more than this: if that session was ended otherwise, by expiry
  or a plain logout, the other devices are still signed in.
* `StaleTabNotices`: after a sign-out in one tab every other tab stops
  showing a signed-in page, or somebody signs in again.
* `NothingLost`: every solve of an open page is in the row's total, in the air or in
  `pending`, whatever fails; only a reset discards any. `NothingCountedTwice`: and without
  a broken connection it is counted once. With one the code does count twice, as it
  cannot know whether the sync had been applied.
* `WorkIsScheduled`: unsent work has a timer, or a sync in the air whose answer looks for it.
* `BestIsSaved`: a page with nothing to send shows no best streak that the account does not have.
* `PollingNeverStops`: a visible page always has a poll in the air or the timer of the next.
  `FeedConverges`: once it stays visible and everybody stops writing, it ends up with the newest page
  of notes, and without deleted ones in that range.
* `FilterHolds`: whatever was in the air when the filter was changed, the feed shows the chosen authors and
  the user's own posts only. `PagesAreWhole`: between the cursor of Load older and where it started no
  note is missing. Both leave out a poll begun before the saved filter was loaded (section 5), and
  `PagesAreWhole` notes that were committed after later ones and fell below the first cursor.
* `AccountsAreWhole`, `SessionsAreEarned`: see the table in section 1. `FlowConsumedOnce`: a flow is finished at most
  once, as the ceremony it was begun as, and a registration only by the account that began it.
  `CeremonyKeepsRP`: both halves of a ceremony speak for the relying party of the origin it was begun at,
  although the cache was emptied, filled for others, or lost in between.
* `NoBootRace`: what the holder of the lock is about to apply or commit has been applied by nobody else.
  `AppliedInOrder`: each version comes after the earlier ones of its binary. `BootedSeesSchema`: a boot that is
  reported as successful is one. `BootsEnd`: nobody waits forever for an instance that died with the lock.
* `PoolOutlivesItsUsers`: when the pool is closed the janitor has returned, and a request is left only
  after a shutdown that failed. `SignalledEnds`: a signal ends the process from every point of its life.
* `StaleRowsGo`: while an instance serves and its passes end within their minute, each table is pruned again and again,
  whatever fails in the others.
* `ReportsAreIndependent`: each violation that is delivered, up to the limit, is handed to the database
  whatever else the body holds and whatever failed before.

The ASSUMEs of `MCCeremonies` check `ForOrigin` on chosen inputs: a missing header or the configured
origin in any spelling gets the configured relying party, at both ends, and a wildcard stands for one label.

### Fairness

Four modules state fairness. In `Sessions` it is only `WF_vars(OnStorage(t))`: the browser
delivers a pending storage event to a tab that stays open, also while the tab waits for an answer. Nothing
is assumed there of requests, answers or users.

In `NotesFeed` the browser runs timers and handlers (`WF` of `TimerFires`, `OnPoll`, `OnStalePoll`), a
request ends, with an answer or a failure (`WF` of `ListForPoll \/ OnPollError`), and a poll that is
repeated for ever is not always the one that fails (`SF` of `ListForPoll`): without the last, an API that is
down for good would refute any claim that the page is up to date. Users, other writers, Load older, posts and
deletions are under no fairness at all.

In `Migrations` an instance that boots goes on: connecting and statements end, with an answer, an error or a
broken connection (`WF` of `BootProceeds`; `DBConnectTimeout` and the context bound them). The wait for the lock has no
timeout: it ends when PostgreSQL grants it, which it does in the order of the queue (`SF` of `Grant`), when the context is
cancelled, or when the session is lost. PostgreSQL notices sessions without a client (`WF` of
`LoseSession` for those that are cut). In `Lifecycle` goroutines run and statements end; a shutdown has its
timeout; `select` takes `ctx.Done()` sooner or later, though it may prefer a ready ticker for a while (`SF` of `JanitorStops`).
Crashes, signals, requests, rows that age and sessions that break are under no fairness.

## 4. What is proved

The theorems hold for every value of the constants that satisfies the assumption of
the module (`SecondFactorAssumption`: no secret is the "no row" value, counts are
naturals; `RateLimiterAssumption`: a cost above zero, a natural rate and sweep
interval, any burst; `SignupGuardAssumption`: the same of the site-wide limiter). Every
invariant and every action property that a passing run checks is the statement of one.

`SecondFactorProofs`. `TypeCorrect` is by induction over the actions; the `...Effect`
lemmas say field by field what an update of a request does, so that the later
proofs never open an EXCEPT. No property of the module is inductive by itself:

* `PointInv` says what each program counter knows: a request at "spend" carries a TOTP code
  within a period of the clock, one past "issue" with `passed` has an accepted code
  behind it, and so on. Together with `OffInv` (a login that saw the factor inactive has `off`) it gives
  `SecondFactorRequired`; with it `LastStepNotAhead` is inductive (`NoLockout`: an
  owner whose codes were all spent is accepted again two periods later).
* `StoreInv` relates the tables to the history: a secret an enrollment still carries was never in the row
  and has no codes (`FreshInv`), whatever is stored was minted (`MintedInv`), the codes
  are of one enrollment (`CodesInv`), a used recovery code is gone from `codes` for good (`RecoveryUseInv`)
  and every step used with the enrolled secret is at most `row.last` (`StepUseInv`).
  `CodesBelongToRow`, `StepsAreSingleUse` and `RecoveryCodesAreSingleUse` follow.
* `ActiveFactorIsStable` goes through the actions that write `row`.

`RateLimiterProofs`. `LimiterInv` (types, no bucket from the future or above capacity,
only recent keys tracked) is inductive. From it: `OnlyRecentKeysAreTracked`;
`TokensAreConserved`; `RateHoldsInEveryWindow`, which starts the clock at any moment
of any behaviour and bounds what a key is granted from there on; and
`SweepIsInvisible`, the refinement: initial states map to initial
states, a tick to a tick, and an `Allow` to a grant or a refusal of the
limiter that never forgets.

`SignupGuardProofs`. A behaviour of the guard is one of the per-IP limiter
(`GuardRunsLimiter`), whatever the second limiter does, so the window theorem applies, and requests past the
first check were granted by it (`NothingSkipsThePerIPLimit`): hence `SharedBucketIsProtected`. It is also one of the
site-wide limiter (`GuardRunsSiteLimiter`), for which all theorems of `RateLimiterProofs` hold a second time, as the
instance `SiteProofs`; with the two invariants `GuardTypeCorrect` is short. The requests let through are the
elements of a set (`Admissions`: client and how many-th), so that one more admission is one more element
(`OneMoreAdmission`) and their number is what the site-wide limiter has granted (`NothingSkipsTheSiteLimit`), for any set of
clients, an infinite one included: hence `SiteIsCapped`, and `SiteIsCappedInEveryWindow` from any moment on.

`CaptchaSyncProofs` (`CaptchaAssumption`: the caps and bounds are naturals; any set of
pages, so two devices racing for one row are covered). The lemma of each action says what it
preserves in the record of its page (`PageStep`), and every other page stays as it is. Of the
properties only `WorkIsScheduled` is inductive (`NoWorkForgotten`). `NoSolveLost` needs
that a sync in the air carries what the page has booked as `inflight`, and assumes `[]DeltasFit`,
that no sync exceeds `maxDeltaPerSync`, since beyond it the server drops solves.
`BestIsKept` needs, for a page that is not dirty, that its best streak is in the row, in the
body of the sync in the air, or that a failure will make it dirty again
(`had`), and that the row's best streak never shrinks, also by requests left behind.
`SolvesAreCountedOnce` counts units: as long as no connection breaks, each unit that a page may still send or has in the
air is an element of `OfPages`, each one in a sync nobody waits for of `OfAbandoned`, and the total and
both cardinalities together are at most the solves (`CountInv`). A sync moves units from a page into the total or into
what was left behind, one that is refused leaves them where they were, and the lemma of each action says so of its page
(`Counts`, with `SentOK`: a sync in the air carries no more than what is booked as `inflight`). A broken
connection ends the claim, and with it the property: the page then keeps what the server may have added.

`SessionsProofs` (`SessionsAssumption`: the bounds are naturals; any set of tabs). What an answer on its way to a tab claims is relative to
the sessions there are and those that have ended (`Knows`): a rejected token is of no session or an ended one, a confirmed
`Logout` has ended its session, a confirmed `LogoutAll` its own and all of those it has seen. Sessions are only added and only
end, so a claim stays true whatever the other tabs do (`KnowsForEver`, `TabMoves`); the same is known of requests whose
tab has gone. `ConfirmedSignOutRevokes` is one part of this, and `FaultsKeepTheToken` follows since a
tab forgets a token only on an answer that claims its end. `StaleTabsAreTold` is what safety says of the liveness property
`StaleTabNotices`: only a page that is loading asks who is signed in (`ToldInv`), and it began with a token, so a page that is or
becomes signed in without one was open when the token went, and has an event waiting. What the run adds is that the event is delivered.

`CeremoniesProofs` (`CeremoniesAssumption` with `RPProviderAssumption`: the cache holds at least one entry, there is a static
origin; any requests, names, credentials and patterns). `CeremonyInv` has three parts. The cache holds only what would be
derived again (`CacheIsDerived`), so emptying it changes no relying party: `CeremoniesKeepTheirRP`, and with the
bound on its size `CeremoniesTypeCorrect`. Under the id a passkey signup was given an account can be created by
whoever holds the flow: the row while it is there, then the one request that has taken it, then nobody
(`FlowsKnow`, `CandidatesFresh`); names are unique by the index: `AccountsStayWhole`. What a request knows from its
program counter (`RequestKnows`) gives `SessionsStayEarned`. `FlowsAreConsumedOnce` is that a flow that is
there has not been taken, its id is never handed out again, and a request that goes on to verify has passed the comparison of kind and owner.

`NotesFeedProofs` (`NotesAssumption`: the ids are `1 .. n`, a page holds at least one note). `PagesAreWhole` relates the
table, the answers in the air and the cursor, which move on their own. An answer is complete from its own
oldest note on (`NewestIsComplete`: the `PAGE` newest of a set, by cardinalities), and stays so below the first
cursor, because what is committed there later is late (`TableChanges`). So a poll removes nothing that is still in the table (`OnPollKeeps`), and
an older page joins the feed without a gap (`OnOlderKeeps`). One poll is not known to be complete: one that was
read before the composer put the first note there and so set the first cursor; but then
nothing can have been paged yet, and there is nothing between the cursor and its start (`PollInFlight`).
`PollingGoesOn` is inductive as it stands; `FilterAlwaysHolds` needs that what is in the air was asked for under the filter of the page.

`LifecycleProofs` (`MigrationsAssumption`: versions are positive; any number of instances, any set of them in each;
`CSPAssumption`: a request stores at least one report, where the code has 20).
`BootInv` is inductive: one session holds the lock, and only it has sent a COMMIT, of the earliest version
missing (`OneWriter`); an instance that is still booting has its end of the session, so nobody commits in its name
behind its back, and what it knows follows from `pc` (`PcKnows`); what it has read stays true while it
holds the lock (`ReadIsCurrent`). `NextVersionIsLeast` takes the minimum of a set of versions from the
well-foundedness of the naturals. `BootsDoNotRace`, `BootedHasItsSchema` and `MigrationsAreInOrder` follow.
Every step of a life is a step of a boot or leaves the boot alone, an exit being a crash to it
(`LifeRunsBoot`, which needs that who serves has booted): a whole life implements `Migrations` (`LivesAreBoots`, its
safety part), and the three carry over (`LivesDoNotRace`, `ServingHasItsSchema`, `LivesMigrateInOrder`). `PoolIsClosedLast` needs `ShutdownInOrder`: whether a
request may be left is decided when `run` returns, before the janitor has stopped.

`NoReportCostsAnother` is that a request keeps account of its body (`RequestsKeepAccount`): what it has tried and what is left
to run are together what `Wanted` says, statement after statement (`HeadAndTail`), so at the end it has tried exactly that. That the
statements it starts with are those (`ToStoreIsWanted`) is about the loop of `parseReportingAPI`, which
`CSPReports` writes as a recursive function of the turn. Such a function has to be shown to exist and to collect
what it should for bodies of any length. There is no induction theorem to cite for either, so both are by the
least turn for which the claim fails (`LeastExists`, from the well-founded order of the naturals): `LoopExists`,
`ReportingItemsLoop`, `LoopCollects`, `ReportingItemsCollected`; `RankStep` counts the reports before a turn, so that the limit cuts the list where it should.
`LifeTypeCorrect` puts all of it together.

Only model-checked: `StaleTabNotices`, `FeedConverges`, `BootsEnd`, `SignalledEnds` and `StaleRowsGo`. They are liveness under
fairness, which speaks of ENABLED, and the prover does not reason about it; what safety contributes to the first two is
proved (`StaleTabsAreTold`, `PollingGoesOn`). Theorems with an operator for a parameter (the induction
schemes of the library) cannot be instantiated by the provers used here. The five statements of section 5 are refuted by
runs. That the models are faithful to the code is a matter of reading them next to it.

## 5. Where the code and its documentation disagree

* `confirm_race`: `ConfirmTOTP` updates whatever unconfirmed secret the row holds,
  not the one the code was checked against. An enrollment between the two makes
  active a secret nobody has proved to possess.
* `stale_secret`: "every code is single-use" does not hold across a re-enrollment.
  A request that loaded the old secret, was overtaken by a disable and a new
  enrollment, and then marks the step spends a step of the new one: the same code is accepted
  a second time.
* `forgotten_session`: `common.js` says that a token is dropped only if the session is
  really over. A 401 for an old token that arrives after another tab has signed in again drops the new one.
* `last_batch`: the last batch is said to survive the closing of the page. The
  `pagehide` listener does nothing while a sync is in the air, so what was solved
  since that sync was sent goes away with the page.
* `reset_resurrected`: a reset waits for a sync in the air so that no old streak comes
  back. A sync that is sent while the reset itself is in the air still carries
  the old best streak, and brings it back when it lands after the delete.

Each run's counterexample is the sequence of requests; the exact quotations are in `PROJECT.json`.

Two more were met while `NotesFeed` was written; its properties leave them out, and no run is spent on them:

* `docs/ARCHITECTURE.md:366-367` has notes "that disappear from the newest-50 window" removed. `pollOnce`
  takes the range of an answer to end at its last note, so when the oldest note of a feed
  shorter than a page is deleted it stays on screen until the page is reloaded.
* `page-notes.js:20-22` has a poll of an earlier filter discarded when it lands. `boot` sets the saved
  filter without a new generation, so a poll begun before (the tab was shown while the page was
  loading) is not discarded, and its notes of other authors stay.

Five were met while `Lifecycle`, `CSPReports` and `RPProvider` were written; the models have these behaviours:

* `docs/CONFIGURATION.md:39` calls `ShutdownTimeout` the "Graceful shutdown budget". When it is over `run` returns, but its
  deferred `pool.Close` waits for the statements of the requests that were left behind, and the
  wait for the janitor for a statement of the pass: the process may outlive its budget by their timeouts.
* `maintenance.go:44` has every step run "even when an earlier one fails". All steps share the minute of the
  pass: when the first uses it up the others fail without being tried. `StaleRowsGo` assumes passes that end in time.
* `health.go:70`: `Ready` writes its history under the deadline of its ping. A ping that hangs for the two seconds
  leaves no time for the row, so just those probes are missing from the history.
* `csp.go:139` has one malformed item not discard the valid ones. A body above 64 KiB is cut, no longer JSON, and all of
  its reports are dropped.
* `middleware.go:83` says that an origin must carry no port. A pattern with a port matches an origin with the same one,
  and one without a wildcard is compared port and all.

## 6. What is not modelled

* Argon2, AES-GCM, HMAC and the WebAuthn library: cryptography, taken to be correct.
  Two secrets that show the same six digits at the same time are left out.
* float64 rounding of the limiters, and their disabled (nil) form.
* The password check before the second factor, input validation, request size limits,
  CORS, CSP and headers: stateless.
* The pure I/O parts: telemetry, the liveness and info endpoints, scripts, rendering; the feeds that only read (recent
  reports, activity, leaderboard, authors).
* Configuration: parsed once and constant afterwards; that it is the same before and after a restart is assumed.
  The embedded migration files are taken to be well-formed: `loadUpMigrations` refuses others before anything happens.
* Down-migrations: nothing runs them.
* Preferences: on the server a read and an upsert of one row each. What is hard is in the pages, where four orders of events
  matter, and no property covers them. A theme picked while the page's own request for the saved one is in the air is replaced on
  the page by the older answer, while the account gets the pick (`common.js:182`). PUTs are sent without
  waiting for each other, so the older of two may land last, and one that fails is not repeated (`common.js:174`). A
  leaderboard that the user has opened before `boot` restores it fires no event for the restoration, and `restoringPref` swallows
  the user's next toggle; and a click before the queued event of the restoration is merged into it (`page-captcha.js:575`).
* A second account in the browser: planned. The sign count of credentials: stored, never read.

## 7. Plan

1. `Sessions` with a second account; the pages over one preference, along the orders of events of section 6.
2. Proofs: an abstract specification of one-time credentials (a code, a flow, a recovery code is taken once) that
   `SecondFactor` and `Ceremonies` implement; a bound on what a broken connection may count twice in `CaptchaSync`.
