# Verification of personal-dashboard-api

TLA+ specifications of a small Go service, the TLC runs that model-check them
and the TLAPS proofs about them. The service keeps accounts and widgets in
Postgres, and answers `GET /dashboard` by asking external providers for the
data of each widget of the caller. Paths below are relative to the repository;
`internal/` is meant where a path starts with a Go package.

## 1. The system

A request is served by a goroutine of its own (`net/http`, Gin). Goroutines
share no memory that changes: they meet in the database, through a pool of ten
connections, and at the providers, through one `http.Client`. There are no
transactions that span two statements, no locks, no background jobs and no
caches. What is hard is therefore what the database reorders, what requests
read in one statement and use in another, what is lost when a client or the
server goes away, and what the timers do.

| Component | State | Operations | Talks to |
|---|---|---|---|
| Widget endpoints (`handler/widget.go`, `widget_service.go`, `widget_repo.go`) | table `widgets`, its id sequence; per request: what it has read | POST, GET (list, one), PATCH, DELETE | database; `NormalizeConfig` |
| Config rules (`widget_config.go`) | none | `NormalizeConfig` of four types | called by POST and PATCH; the stored result is parsed by the provider clients |
| Accounts (`handler/auth.go`, `auth_service.go`, `user_repo.go`, `auth/password.go`) | table `users`, its id sequence | register, login, logout | database; bcrypt; token issuer |
| Tokens (`auth/jwt.go`, `middleware/auth.go`) | none on the server: a token holds its user and its expiry | Issue, Parse | clock |
| Dashboard (`handler/dashboard.go`, `dashboard_service.go`) | per request: results so far, the running call, three timers | list widgets, fetch one after another, assemble, write | database; provider clients; `http.Server` |
| Provider clients (`internal/widget`) | none | Fetch of four types | external APIs |
| Pool and health check (`database/postgres.go`, `handler/health.go`) | ten connections, the queue for them | acquire, release, Ping within 2 s | every request |
| Startup and shutdown (`cmd/api/main.go`, `database/migrate.go`) | migration table; server state | migrate, serve, shut down within 10 s, close the pool | everything |
| Configuration (`config/config.go`) | none after start | Load | environment |
| Router and middleware (`router.go`, `internal/api/middleware`) | per request: position in the chain, request ID, user ID | request id, log, recovery, CORS, body limit, authentication | every request |

What makes each of them correct, and what could go wrong with it:

* **Widget endpoints.** A PATCH is two statements: it reads the widget, checks
  the new config against the type it read, and updates the row later. In
  between the widget may be deleted or updated. A client may disconnect while
  a write is at the database. Correct means: each request behaves as if it
  took effect at one instant between arrival and answer, or not at all; a
  user never sees or changes another's widget; a stored config always fits
  its widget's type.
* **Config rules.** Trimming, upper-casing, defaulting and matching work only
  in one order, and the stored form must be accepted again. Correct means: the
  rules of docs/API.md, no loss of meaning, fixed points.
* **Accounts.** Registration leaves it to the UNIQUE constraint to find an
  address that is taken; the constraint compares bytes, so every spelling has
  to reach it in one form, and login has to look for the same form. Correct
  means: one account per address, and every answer is the one of an atomic
  directory of addresses and passwords, in which only bcrypt's view of a
  password may make a wrong one right.
* **Tokens.** A token holds whole seconds and an id. Correct means: it names
  the user who logged in and lives as long as the `expires_in` of the login
  says, which is in whole seconds too.
* **Dashboard.** Three timers (per call, of the `http.Client`, of the write
  deadline), a client that may leave and providers that may never answer.
  Correct means: one outcome for each widget, whatever happens to the others,
  a bound on the duration, and an end.
* **Pool and health check.** Every statement of every request waits for one of
  ten connections, Ping included, and a PATCH does so twice. Correct means:
  exactly the running statements hold connections, whatever ends them; nobody
  waits beside a free one; everyone who waits gets to an end.
* **Startup and shutdown.** Instances may start together, find the same
  migrations pending and die between any two steps, also after a `COMMIT` was
  sent, which the database may execute later. The signal may come while
  the process connects, migrates, binds its port or serves. Correct means: the
  record of migrations and the schema never come apart, who serves has its
  tables, a start that nobody disturbs succeeds; a process that exits with
  success has cut nobody off, and every process that was told to stop does.
* **Router and middleware.** The order of the chain, what runs after `Next`,
  what `Abort` stops and how a panic unwinds decide who answers and what is
  logged. Correct means: one answer, one line in the access log with its
  status, errors that carry the request's ID, and protected handlers that act
  for the owner of a valid token only.

`PROJECT.json` lists these hazards, each at its line, with the properties that
cover it.

## 2. The modules

    WidgetConfig ── ConfigRoundTrip ─┬─ MCConfigRoundTrip
         │                           └─ ConfigRoundTrip_proofs
         │ (its NormalizeConfig is the constant NormalFormOf)
    WidgetAPI ─┬─ WidgetStore                      the promise
               └─ WidgetService ─┬─ MCWidgetService
                    │            └─ WidgetService_proofs ─ WidgetService_refinement
                    └ implements WidgetStore

    AccountsAPI ─┬─ Directory                      the promise
                 └─ Accounts ─┬─ MCAccounts
                    │         └─ Accounts_proofs
                    └ implements Directory

    DashboardContract                              the promise
    Providers ── Dashboard ─┬─ MCDashboard
                    │       └─ Dashboard_proofs
                    └ implements DashboardContract

    Lifecycle ─┬─ MCLifecycle        one process: pool, health check, run()
               └─ Lifecycle_proofs
    Startup ─┬─ MCStartup            several processes: Migrate
             └─ Startup_proofs
    RequestChain ─┬─ MCRequestChain  one request in the middleware
                  └─ RequestChain_proofs

### WidgetConfig, ConfigRoundTrip

`WidgetConfig` is `NormalizeConfig`: `DecodeStrict`, then one operator for each
type. A string is a word with two flags, "has surrounding white space" and
"has lower-case letters", because trimming and upper-casing are all that the
rules do to it; which words match `tickerRe` and `currencyRe` or contain
U+0000 is given by constants. A config is a function from field names to tagged
values. `ConfigRoundTrip` lets a client send a config and send the stored one
back; `WellFormed` says that a value tagged as a string holds a text and one
tagged as a number a number, which is what a JSON value is.

### WidgetAPI, WidgetStore, WidgetService

`WidgetAPI` holds the requests, the answers and the constants. `WidgetStore` is
the promise: an atomic store for each user. `WidgetService` is the code:

| Action | Code |
|---|---|
| `CreateWidget`, `ListWidgets`, `GetWidget`, `UpdateWidget`, `DeleteWidget` | handler and service, up to the first statement, with the refusals |
| `LoadWidget` | `GetByID` of `UpdateConfig` |
| `SendUpdate` | its `NormalizeConfig`, and the `UPDATE` is sent |
| `DrawId`, `InsertRow` | the two halves of `INSERT`: `nextval()` and the row |
| `SelectList`, `SelectOne`, `UpdateRow`, `DeleteRow` | the database executes the statement, the handler makes the answer |
| `RefuseValues`, `Rollback` | a statement fails; a drawn id is lost |
| `Respond` | the answer is written |
| `Abandon` | the client disconnects or the process dies; a write that was sent stays at the database (`orphan`) and may still take effect |

`pc[s]` is where the goroutine of slot `s` is, `stmt[s]` is what it has sent:
the type it read, the config it writes, `now()` and the id drawn. `now()` is
the time when the statement was sent, which is why a row lock or a slow
statement may write time stamps out of order.

### AccountsAPI, Directory, Accounts

An e-mail address as typed is an address with a flag "no capitals, no padding".
`Directory` is the promise: a function from addresses to the passwords they
were registered with, changed by registrations only. `Accounts` is the code: `RefuseBody`, `Register` and
`Login` are the handlers up to the first statement, `InsertUser` and
`SelectUser` are the statements, `Compare` is the comparison and the token.
`Rollback`, `Respond` and `Abandon` are as above. bcrypt only uses the first 72
bytes of a password (`Significant`); registration refuses longer ones, login
does not. So `Directory!Login` names one exception to the promise of
docs/API.md that a wrong password is refused: `BcryptConfuses`, a password that
differs from the right one only where bcrypt does not look. A modelled hash
keeps the password it was made of as its history; `CheckPassword` looks at its
`Significant` part only. `tokens` is a history of the tokens issued, with the
login each came from; `sub` and `exp` are what a token really holds,
`announced` is the `expires_in` that was sent with it (`ExpiresIn`, whole
seconds of `JWT_TTL`), `Valid` is `Parse`.

The timing equalisation of `Login` (the comparison with `dummyHash`) has no
effect on its answer and is left out.

### Providers, Dashboard, DashboardContract

`Providers` has the `Fetch` of each client: the key it needs, which answers of
its provider become data and which become errors. `Dashboard` is one request: `ListReturns`/`ListFails`, then for each
widget in turn `StartFetch` and `ProviderAnswers` or `CallEnds`, then
`Assemble` and `Write`. `Tick` lets time pass while the database or a provider
is awaited, `Disconnect` is the client's. `DashboardContract` is the promise,
without an order among the widgets: the documentation announces a concurrent
fetch, which will have to keep it.

### Lifecycle

One process, from `config.Load` to the exit, with its clients and its pool.

| Action | Code |
|---|---|
| `Load` | `config.Load` with the rules of `validate` (`Valid`) |
| `Prepare` | `NewPool` with its ping, and `Migrate`, seen from `run()` |
| `Listen` | the goroutine of `ListenAndServe`: binds, fails, or finds the server shut down |
| `Signal`, `StopServing` | `NotifyContext`, and the `select` of `run()`; if both are ready, either |
| `ShutdownReturns`, `Exit` | `Shutdown` within its 10 s or not, the deferred `pool.Close`, the end of `main` |
| `Connect`, `CloseIdle`, `Arrive`, `Finish`, `Answer` | `net/http` and the handlers around their statements |
| `Acquire`, `Executed`, `Interrupted` | a statement waits for a connection, is executed, or ends with an error |
| `PingExpires` | the 2 s of `Health.Check`, while it waits or while it asks |
| `DatabaseHangs` | a database that neither answers nor breaks the connection |

`pc[c]` is what the server does for the client, `left[c]` how many statements
its request still needs; `held` and `waiters` are the pool. `Release` gives a
returned connection to the longest waiter, and wakes all waiters with an error
once `Close` has begun. What statements do to tables is the matter of
`WidgetService` and `Accounts`; here only their number and end count.

### Startup

`Migrate` in several processes that share a database. `Ensure`,
`CreateVersionTable`, `List` and `Apply` are the transactions of goose, which
is external: what is taken from it is their order, that each is atomic, that a
migration and the insertion of its version are one, and that no lock is asked
for. `Executes` is the SQL of the repository: `CREATE TABLE` and `CREATE TYPE`
without `IF NOT EXISTS` fail if the object is there, which is what keeps a
migration from being applied twice. It is the only migration there is; the
model assumes that later ones fail in the same way when they are repeated, and
what is shown for more than one migration rests on it. A process that dies while
its transaction is open (`Die`) may have sent the `COMMIT` (`Sent`): the
transaction is then one of the `orphans`, which the database commits or not
whenever it gets to it (`EndOrphan`), as `WidgetService` and `Accounts` have it
for their writes. `alone` is a history of the instances that had `Migrate` to
themselves so far: no other instance ran it, and when they started the database
had ended every transaction of the dead.

### RequestChain

One request in the chain of `router.go`. `index` and `running` are gin's: the
position that `Next` and `Abort` move, and the functions that wait for their
`Next` to return. `RequestID`, `PassOn`, `CORS` and `Auth` are the middleware
on the way down, `Handle` a handler with what it does, `Return` the way up
(where `Logger` writes its line), `Unwind` a panic and `Recovery`, `Finish` the
end of `ServeHTTP`. Requests differ in their route, their `X-Request-ID`,
origin, `Authorization` header and token, body, and in what their handler does.

## 3. The runs

| Run | Instance | What it shows |
|---|---|---|
| `widgets` | 2 goroutines, 2 users, 2 types, 4 configs (one for each type, one with U+0000, one that no type accepts), 2 ids, clock 0..1 | `WidgetInv` (inductive), `StoredConfigFits`, `CreatedBeforeUpdated`, `OnlyOwnersWrite`, `IdsServeOnce`, `ImplementsStore`: the code refines the atomic store |
| `config` | every object of at most two of seven fields with values of every kind, three-field objects, every other shape | `AcceptsDocumented`, `KeepsMeaning`, `RoundTrip` |
| `accounts` | 2 goroutines, 3 addresses (one invalid) in 2 spellings, 3 passwords (two of which bcrypt does not tell apart), 2 ids, a token, 4 ticks, 2 ticks a second, lifetime 3 | `AccountsInv` (inductive), `OneAccountPerAddress`, `TokenNamesItsOwner`, `TokenLife`, `ImplementsDirectory` |
| `dashboard` | up to 3 widgets of 3 types, one without a key, every answer, per-call timeout 2, client timeout 3, write deadline 5, listing up to 1 | `DashboardInv` (inductive), `OwnAllowance`, `LatencyBound`, `NoCallForNobody`, `RequestEnds`, `ImplementsContract` |
| `lifecycle` | 3 clients, 2 connections, up to 2 statements a request, valid and invalid environments, fairness | `ConnectionsFollowStatements`, `NobodyWaitsInVain`, `CleanExitCutsNobodyOff`, `WaitersEnd`, `ProcessEnds`, `HealthAnswered` |
| `startup` | 3 instances, 2 migrations, 3 deaths, each with or without a `COMMIT` on the way | `VersionsTrackSchema`, `ServingHasSchema`, `AloneNeverFails` |
| `chain` | every request: 7 classes of routes, 3 kinds of ID, 3 origins, tokens of a user or of nobody, signed and fresh or not | `AnsweredOnce`, `ActsForTokenOwner`, `LoggedAsAnswered`, `ErrorsCarryId` |
| `updated_at`, `suitable`, `zero_limit`, `dozen`, `response_id` | | five disagreements with the documentation, section 5 |

Each passing run also checks the type invariant of its module.

**Why the bounds are enough.** Two goroutines already give every overlap of two
statements, and no action looks at more than its own slot and the shared
table; the proofs of section 6 remove the bound for all of the safety properties. Two
ids let one widget be deleted and the next be created, and let the sequence
run out. Two users and two types are what it takes to reach another's widget
and to check against a wrong type. A clock with two values distinguishes
"earlier" from "later", which is all that the comparisons of time stamps use.
With `TTL = 3` and `Second = 2` a token's lifetime is not a whole number of
seconds, so that both the fraction dropped from the expiry and the one dropped
from `expires_in` matter; one token suffices because
tokens do not interact. Three widgets are a first, a middle and a last one,
and the write deadline of 5 falls between two and three timeouts. Three clients
and two connections let one wait, let two hold while the third waits, and let
two PATCH requests need their second connection together. Three instances let
one lose a race while another is restarted, two migrations let a death fall
between them, and with three deaths each instance may die and leave a `COMMIT`
behind. Every request of
`chain` runs alone, as requests share nothing but the database. In
`MCWidgetService` the configs are configs of `WidgetConfig` and
`NormalFormOf` is computed by its `NormalizeConfig`, so the two components are
checked together.

The widget and account runs check for deadlock. The others do not, as those
systems end: there is nothing to do after a config was accepted unchanged, a
response was written, the process has exited or all instances serve.

## 4. Fairness

`Dashboard!FairSpec` assumes the server's own steps, that time passes and that
the database answers `ListByUser` in one way or the other. Nothing is assumed
of the providers: that a request ends rests on the timers. `ListByUser` has no
timeout of its own in the code, so this assumption on the database is real; a
run would find the request stuck without it.

`Lifecycle!FairSpec` assumes that `run()` goes on (`Load`, `Prepare`,
`StopServing`, `ShutdownReturns`, `Exit`: each is a call that returns, within a
timeout or with the context), that goroutines with work are scheduled, that a
database which does not hang executes statements, and that the 2 s of the
health check run out. Nothing is assumed of clients, signals, failures or the
listener. A hung database is a fault that the liveness properties name
(`WaitersEnd`, `ProcessEnds`): statements have no timeout in the code, so a
request and `pool.Close` then wait for as long as it hangs. `HealthAnswered`
holds even then.

The other specifications state safety only and need no fairness: the handlers
of widgets and accounts are straight lines of statements without a wait or a
loop of their own, so that a request ends is a matter of the pool and the
database, which is `Lifecycle`'s (`WaitersEnd`).

## 5. What disagrees with the documentation

Each is a run whose one property TLC violates.

* `updated_at`: of two overlapping PATCH requests the later to take effect may
  carry the earlier `now()`, so a successful update can move `updated_at` back,
  where docs/API.md promises a new one.
* `suitable`: a city or keyword with U+0000 is normalized, but JSONB refuses
  it: 500 instead of 400.
* `zero_limit`: a news config with the limit 0 is accepted, as if it had none,
  and stored with 5, where docs/API.md says that a limit must be 1–20.
  `AcceptsDocumented` shows that this is the only config that is accepted
  against the rules.
* `dozen`: twelve widgets of a silent provider take 60 s, the write deadline,
  and the dashboard is lost, where docs/API.md says that a provider that times
  out never fails the request.
* `response_id`: a path with a trailing slash is redirected by gin before any
  middleware has run, so the 301 has no `X-Request-ID` (and no line in the
  access log), where docs/API.md says that every response carries the header.

These were met while modelling too. No run is spent on them, as each follows
from one line; the definition in brackets shows it, and properties that it
touches name it as an exception.

* A wrong password that agrees with the right one in its first 72 bytes is
  answered with 200 and a token: registration refuses longer passwords, login
  does not, and bcrypt does not see the rest. docs/API.md:125 says 401
  (`BcryptConfuses`, named in `Directory!Login` and `AnswersAreTrue`).
* `expires_in` drops the fraction of a second that a `JWT_TTL` may have, so a
  token can be accepted for that much longer than the login said (`ExpiresIn`,
  named in `TokenLife`).
* Migrate is "safe to run on every startup", but one that starts while the
  `COMMIT` of a dead process is still to take effect can lose to it as to
  another instance: it fails once, and the next start succeeds (`EndOrphan`,
  named at `AloneNeverFails`).
* Ids are drawn after `now()` was taken, so the order of ids in which
  `ListByUser` lists is not always the one of `created_at`, which its comment
  calls creation order (`DrawId`).
* An `EXTERNAL_TIMEOUT` above the `http.Client`'s 10 s is not the timeout of a
  call, and the message that quotes it is false (`PerCall`).
* CORS refuses a foreign origin with an empty 403 instead of the error envelope
  (`CORS`, excepted in `ErrorsCarryId`).

## 6. The proofs

All theorems are for every value of the constants, under the assumptions that
the modules name: `WidgetAPIAssumption`, `MaxClockAssumption`,
`NoRowAssumption`, `AccountsAPIAssumption`, `AccountsAssumption`,
`NoUserAssumption`. They say that the bounds are natural numbers, that what is
valid is part of what may be sent, and that the "no such value" constants are
none of the values (and `DashboardAssumption`, `LifecycleAssumption`,
`StartupAssumption`, `ChainAssumption` in the same way). `WordAssumption` says
how the two regular expressions of `widget_config.go` relate: every currency
code matches `tickerRe`, and neither admits the empty string or U+0000.
`RawConfigAssumption` says that the configs a client sends are `WellFormed`.
TLC evaluates all of them in the runs.

### 6.1 Widgets (`WidgetService_proofs`, `WidgetService_refinement`)

`WidgetInvariant`: `Spec => [](TypeOK /\ WidgetInv)`; from it `TypeCorrect`,
`StoredConfigsFit` and `StampsInOrder`.

`StoredConfigFits` is not inductive: an `UPDATE` writes a config that was
checked against a type read earlier. `WidgetInv` adds why that type is still
right. `KnownWidget` says that the id of a PATCH that has read its widget is
below `nextId` and that no `INSERT` is about to fill it, so the row is either
the one that was read, with the same owner and type, or gone for good.
`InsertOK` says that the ids of running `INSERT`s are below `nextId`, free and
pairwise different. `TableInv` says that ids at or above `nextId` are free and
no time stamp is in the future; `UpdateOK` bounds `created` by the time of the
statement, which is what `CreatedBeforeUpdated` needs. The proof has a lemma
for each action that can disturb the invariant (`ClientRequestKeepsInv`,
`LoadWidgetKeepsInv`, `SendUpdateKeepsInv`, `DrawIdKeepsInv`,
`InsertRowKeepsInv`, `UpdateRowKeepsInv`, ...), and `OthersKeepInv` for the
slots that do not move.

`WidgetServiceRefinesStore`: `Spec => ImplementsStore`, that is, the widget
endpoints implement the atomic store. The mapping `Store` reads the store off
the table (`rowsBar`, without the time stamps), the ids (`UsedIds`) and the
goroutines (`callBar`):

* A request takes effect at its one statement, a PATCH at its `UPDATE` (also
  when that finds the widget gone). Two refusals of a PATCH take effect at
  `LoadWidget` instead: the widget is not there, or the type that was read does
  not allow the config (`RefusedAtLoad`), as the code does not look at the
  widget again. `SendUpdate` is a stutter.
* The store computes the config of a PATCH from the type the widget has when it
  is updated, the code from the type that it read before. `KnownWidget` is why
  the two are the same.
* An id is taken when its `INSERT` ends, well or badly, and not when it is
  drawn: `DrawId` is a stutter. That the id is still free when the row takes it
  (`IdTaken`) is `InsertOK`.
* A write that outlives its client is a `lost` call of the store, which may
  still take effect once. `SilentBeforeAnswer` is the theorem that makes the
  two agree about the answer: no goroutine holds a response before it has
  answered, nor after it was given up.

There is one lemma for each action (`InsertRowRefines`, `UpdateRowRefines`,
`AbandonRefines`, ...), and `NextRefines` puts them together.

The same invariant gives four properties of steps, of any number of
overlapping requests: `OnlyTheOwnerWrites` (a widget changes or goes only while
its owner has a PATCH or DELETE of it under way), `IdentityIsKept` (its owner,
type and `created_at` never change), `IdsAreNotReused` (an id that is taken
stays taken, and empty once its widget is gone, so an old id never reaches a
new widget) and `OwnWidgetsShown` (every widget in an answer is the caller's).
They rest on `TableStep`, which says which statement can change a given row,
and on `IdsOfInserts`, which says where the ids of running `INSERT`s come from.
The run `widgets` checks the first and the third as `OnlyOwnersWrite` and
`IdsServeOnce`; TLC found no violation of the other two on the same instance,
and they are theorems only.

### 6.2 Accounts (`Accounts_proofs`)

`AccountsInvariant`: `Spec => [](TypeOK /\ AccountsInv)`; from it
`OneAccount`, `TokensNameTheirOwners`, `TokensLive` and `AccountsTypeCorrect`.
`AccountsInv` adds to the properties that every stored address is canonical
(without it UNIQUE would not imply one account per address), that row `i` has
id `i` below `nextId`, and that what `Login` has read is still in the table
when it compares, as rows are never changed. `ExpiryBounds` is the arithmetic of
`NewNumericDate`, `ExpiresInBounds` the one of `expires_in`. `TokensLive` then
says that a token ends less than a second before the `expires_in` seconds it was
announced with, and outlives them at most by `TTL % Second`, the fraction that
`expires_in` leaves out; for a `JWT_TTL` of whole seconds it never does.

`AccountsRefinesDirectory`: `Spec => ImplementsDirectory`, that is, the code
implements the atomic directory, for any number of goroutines. The state of
the directory is read off the table (`passwordsBar`) and the goroutines
(`callBar`). A registration takes effect at its `INSERT`, a login when
`GetByEmail` reads the user: `Compare` is a stutter, because the row that was
read decides the answer. There is one lemma for each action
(`InsertRefines`, `SelectRefines`, ...); `NewRow` shows that an `INSERT`
changes the password of its own address and no other.

`SelectRefines` is where the directory's exception for bcrypt is needed: what
matches the hash is the password of the address or one that `BcryptConfuses`
with it.

Two properties of steps come with it. `PasswordsStay`: once an address is
registered its password stays, however registrations of it overlap, are spelled
or are tried again. `AnswersTrue`: 201, 409 and 200 are true of the table when
they are given; a 200 with the exception for bcrypt. Since rows are only added,
what a login read cannot go stale, and `FoundIsCurrent` shows that the row is
the one of the address. (A 401 need not be true any more: the address may have
been registered since.) TLC found no violation of the two on the instance of
`accounts`; no run repeats them.

### 6.3 Dashboard (`Dashboard_proofs`)

`LatencyBound` and `OwnAllowance` are not inductive: the bound must hold while
a call runs, and a call that times out must have had its whole allowance.
`DashboardInv` adds when the current call started (no later than the listing
and the allowances of the calls before it) and that the clock has not passed
its deadline, since `Tick` stops there; there are at most as many calls as
results, plus the one under way. `LatencyBounded` and `EachItsOwnAllowance`
follow, `NoCallsForTheGone` is a property of single steps.
`DashboardKeepsContract` maps a request to `DashboardContract`: the initial
state maps to an initial state and every step to a step or a stutter, for any
number of widgets. The fairness of the contract stays with TLC.

### 6.4 The process and its pool (`Lifecycle_proofs`)

`LifecycleInvariant`: `Spec => []LifecycleInv`. The heart is that `held` is
exactly the set of clients with a running statement, and that the queue is the
set of those that wait, each once, and is empty unless all connections are
in use. Neither is inductive alone: `Release` hands the connection to the head
of the queue, which is right only if the head waits, holds none and appears
nowhere else. `CleanExitCutsNobodyOff` needs that the listener is closed once
`Shutdown` has begun. Theorems: `NoConnectionLost`, `NobodyWaitsBesideFree`,
`CleanExit`, `LifecycleTypeCorrect`.

### 6.5 Migrations (`Startup_proofs`)

`StartupInvariant`: `Spec => []StartupInv`. `ServingHasSchema` rests on
`NothingSkipped` (what is not in the database is on the list of everyone who
applies, and what comes before a late `COMMIT` is in the database), since an
instance serves when its list is empty. `AloneNeverFails` rests on
`AloneUndisturbed`: nothing on the list of an instance that has `Migrate` and
the database to itself is in the database. Theorems: `VersionsAreTrue` and
`ServesWithSchema`, which hold whatever the dead have left on the way, and
`SafeOnEveryStartup`, which needs that the database has dealt with that before
the start. All of them rest on `Executes`, the assumption that a migration fails
when it is repeated.

### 6.6 The chain (`RequestChain_proofs`)

`ChainInvariant`: `Spec => []ChainInv`. `ProgressInv` says how far the request
is: the running functions are a prefix of `Outer`, as long as `Depth` on the
way down, and `Logger` has written its line exactly when it is no longer among
them. `IdentityInv` says that the request ID is known behind `RequestID`, and
the user behind `Auth`. There is a lemma for each way to move (`GoesDown`,
`TurnsBack`, `ReturnStep`, `UnwindStep`). Theorems: `OneAnswer`,
`OnlyTheOwner`, `LoggedOnce`, `ErrorsIdentified`. `LifecycleInv`, `StartupInv`
and `ChainInv` were model-checked before they were proved; the runs keep the
properties that they imply.

### 6.7 The config rules (`ConfigRoundTrip_proofs`)

`ConfigInvariant`: `Spec => []ConfigInv`. The invariant is small (a result is
the one of the config that was sent, and what is sent is well-formed); the work
is in the lemmas about `NormalizeConfig`, for all words and all values of the
two regular expressions:

* `TrimSpaceType`, `ToUpperType`, `TrimmedField`, `MatchingCode`: what trimming
  and upper-casing leave of a string, and that "not blank" and "matches" then
  depend on the word of the field only.
* `WeatherNormal`, `NewsNormal`, `StockNormal`, `CurrencyNormal`: exactly when
  a config of each type is accepted and what it becomes. `RuleIsAcceptance`
  compares that with the table of docs/API.md with limits from 0, and
  `ZeroOrDocumented` splits it into the documented rules, with limits from 1,
  and the limit 0 (`ZeroLimit`), which gives `AcceptsWhatIsDocumented`; `NormalizingKeepsMeaning` and `ConfigTypeCorrect`
  read the normal forms.
* `NormalFormFixed`: a normal form decodes again, with its default filled in,
  and is its own normal form. `NormalFormsRoundTrip` follows. `ConfigInv` is
  needed here, as what comes back must be a result of `NormalizeConfig` and not
  any config.

`CodesFitJsonb` bounds the disagreement that the run `suitable` shows: the
normal form of a stock or currency widget always fits the JSONB column, so only
a city or a keyword can end in the 500 of section 5. `ConfigInv` was
model-checked before it was proved.

### 6.8 What is only model-checked

Liveness (`RequestEnds`, `WaitersEnd`, `ProcessEnds`,
`HealthAnswered`) and the fairness part of `ImplementsContract`: both are out of
the prover's reach. Every other property of a passing run is a theorem. The five
disagreements of section 5 are counterexamples, which TLC finds.

## 7. What is abstracted

* JSON: two spellings of a field name that differ in case, repeated fields and
  data after the object are not distinguished; a body either binds or does not.
* Texts: the length of a ticker is part of "matches `tickerRe`"; a city or
  keyword is a word.
* `mail.ParseAddress`, the length of addresses and the length of passwords are
  given by the sets of valid ones.
* Provider data: only whether it is data or an error.
* Time: the clock of the widgets is the database's, the one of the tokens the
  server's; the server's own computation takes no time in `Dashboard`.
* Row locks are not modelled as such: a statement that waits is one that is
  executed later.
* The pool: the ages at which it replaces idle connections and its minimum of
  two are left out, as nobody who uses it observes them; a connection that has
  to be opened first is a statement that takes longer.
* Timers of `Lifecycle` may run out at any time; those of `Dashboard` and of
  tokens are measured.
* gin and gin-contrib/cors, goose, pgxpool and `net/http` are modelled from how
  the code uses them. A handler is what it does to its request; the wording of
  messages and the headers other than the request ID are left out.
* Each module bounds ids, the clock, widgets or tokens by a named constant.

## 8. Mutations

For each property of a passing run, `PROJECT.json` names a definition and a
plausible bug in it (the operators under "Plausible bugs" in the modules): a
sequence that repeats an id, a `WHERE` without its `user_id`, an address that
is stored or looked up as it was typed, an expiry rounded up, one timeout for
all calls, a loop that stops at the first error, a connection that is kept on
an error path or while the next one is awaited, a place in the queue that is
not given up, a migration outside a transaction, `Recovery` outside `Logger`, a
refusal that does not abort, a token whose subject is not checked. With the bug in place TLC
finds the property violated.

## 9. What is not modelled, and the plan

What is left, in this order:

1. **Properties of steps of the other components**, as they exist for widgets
   and accounts: that waiters of the pool are served in turn, that a recorded
   migration is never undone.
2. **Composition**: a dashboard that runs while its widgets are changed and
   its user logs in; the listing is one atomic read, so its contract is
   expected to be the one of `WidgetStore!List`. `Lifecycle` with the
   statements of `WidgetService` is the other one; the two share the end of a
   statement only.

### Not modelled

The URLs that the provider clients ask and the fields that they copy (pure
translation), the wording and levels of the logs (`newLogger`,
`warnMissingKeys`), the compose file, the Makefile and the tests. Nothing else
of the code keeps state or changes it: every operation that does is an action
of a module.

## 10. Running

    tlc -workers 2 -config MCWidgetService.cfg MCWidgetService.tla
    tlapm WidgetService_proofs.tla

and likewise for the other configurations and the other modules of proofs
(`WidgetService_refinement`, `ConfigRoundTrip_proofs`, `Accounts_proofs`,
`Dashboard_proofs`, `Lifecycle_proofs`, `Startup_proofs`,
`RequestChain_proofs`). The longest runs
(`widgets`, `accounts`) take about two minutes; the others take seconds.
