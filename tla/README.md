# Formal models of create-odoo-app

TLA+ models of the application this repository scaffolds (a Fastify API with sessions,
login throttling and an IAM engine, a Next.js front end) and of the scaffolder, the TLC
runs that check them on small instances, and the TLAPS proofs of what matters most for
every value of the constants. Paths are relative to the repository root.

## The system

| Component | State | Operations | Talks to |
| :-- | :-- | :-- | :-- |
| Session manager `packages/auth/src/session/session-manager.ts` | `sessions` rows (PostgreSQL), `session:<hash>` copies (Redis) | create, validate, revoke, revoke all of a user | login, signup, logout, the status route, every request with a cookie |
| Login throttle `packages/auth/src/login-throttle.ts` | `login:attempts:<email>`, `login:locked:<email>` (Redis) | check, recordFailure, recordSuccess | `POST /auth/login` |
| Auth routes `apps/api/src/routes/v1/auth.ts`, session hook `apps/api/src/plugins/auth.ts` | `users`, cookie | signup, login, logout, current session | session manager, throttle, IAM service |
| Profile routes `apps/api/src/routes/v1/profile.ts` | `users` | read, update, change password | the user cached with the session |
| Policy engine `packages/iam/src/policy/policy-engine.ts` | none (pure) | evaluate, effective permissions, unheld actions | guard, IAM service |
| Authorization guard `packages/iam/src/guard/authorization-guard.ts` | statements memoised on the request | requirePermission, requireAnyPermission | every IAM and profile route |
| Permission catalog `packages/iam/src/catalog/permission-catalog.ts` | the registered permissions | register, list | engine, IAM service |
| IAM service `packages/iam/src/service/iam-service.ts`, routes `apps/api/src/routes/v1/iam.ts` | users, roles, groups, policies, statements and five join tables | attach, detach, assign, create, update, delete, status change, effective permissions | engine, session manager |
| Migrations, seed `packages/db/src`, `scripts/setup.ts` | the tables, the baseline rows, ROOT | migrate, seed | `.env` |
| Redis, PostgreSQL and storage clients, health, server `packages/shared/src`, `apps/api/src/services`, `server.ts` | one Redis connection, one pool, the process | start, probe, drain, exit | the three stores |
| Web context, API client, layouts `apps/web/src` | user, loading flag, cookie | refresh, login, signup, logout | the API over HTTP, other tabs |
| Admin console `apps/web/src/hooks/use-iam.ts` and the pages of `admin/iam` | the query cache | queries, mutations, invalidations, refetches | the IAM routes |
| Generator `src/` | the target directory, `.env` | check, copy, rewrite, write secrets, install | the file system, the developer |

What is hard in it:

* **Interleaving.** Every handler is a chain of `await`s over two stores with no
  transaction across them and mostly none within PostgreSQL. Between two commands of one
  request any other request, possibly in another process, may run.
* **Partial failure.** A Redis command may be rejected with or without its effect, a query
  may fail, the process may die; each handler leaves its later steps undone. The generator
  stops at any file, the seed after any statement.
* **Staleness.** Sessions carry a copy of their user; requests carry a copy of the
  statements; the throttle writes back a count it read earlier; the browser caches answers
  that mutations of its own overtake.
* **Time.** Three clocks decide when a session ends: the row's `expiresAt`, the copy's
  `expiresAt` and the key's ttl. Two decide when a lock lifts. A client gives a call up
  after ten seconds and does not take it back.

What makes each component correct: a session ends once and for good, for everyone; a lock
has its full number of failures behind it and lifts; a denial is final and authority comes
only from what was granted; attaching a policy to a user, role or group while nobody else
writes confers nothing the granter lacks (creating a policy, assigning a role and adding a
member have no such check in the code); what nobody disturbs is read and updated exactly;
access goes to whoever proved to be the owner; a bootstrap that crashed or overlapped
another leaves one ROOT and says what is missing; the generator never takes or leaves less
than it says; the browser shows the session and the data it has been told of. PROJECT.json
lists each hazard at its line, and says of each that a property names as a cause or excuses,
rather than rules out, that it does.

## Modules

| Module | Models | State and actions |
| :-- | :-- | :-- |
| `Sessions` | session manager, status route, session hook | `row`, `owner` and `status` are the tables, `cache` is Redis, `call` the local variables and program counter of each call in flight. One action per store command, with the code that follows it up to the next `await` |
| `SessionContract` | what a session promises | `phase` of each token: unissued, live, over |
| `Revocation` | what a logout or a suspension promises | `Sessions` with `disturbed`, the sessions of which a revocation met a refill or failed |
| `Login` | throttle and `POST /auth/login` | `attempts` and `lock` are the two keys with their ttl, `call` as above; `misses` and `span` record the run for the properties |
| `Counting` | what the throttle promises to count | `Login` with `disturbed`: since the slate was clean, recordings overlapped, one broke off, or the count went just before it was read |
| `PolicyEngine` | policy engine and guard | operators named after the functions they translate |
| `Holder` | one identity whose statements and status change | `identity`, `held`; attach, detach, set status |
| `Iam` | the IAM routes: guard, escalation guard, IAM service | `row`, `content` and five link tables; `call` as above; `calm` and `stood` record what has gone on since a request began. One action per query |
| `Accounts` | signup, login, logout, session, profile routes | `users`, `sessions`, `copies` (the identity cached with each session), `call` |
| `WebAuth` | `AuthProvider`, API client, the pages that call them | `cookie`, `user`, `isLoading`, and each call (refresh, login, logout, and the saving of a profile that ends in a refresh) as sent, served, heard or given up |
| `Console` | query cache of the admin console | `page`; by key: what it shows, what is being fetched, what is invalidated; `mutation`s not yet heard of |
| `Generator` | the command `create-odoo-app` | `tree` (whose each file is), `env`, the run and what it has shown |
| `Seed` | migrations and seed | baseline `record`s: none, bare or whole; `root`; the place of each seed that runs |
| `Project` | `Generator`, `Seed` and `setup.ts` composed | both, and whether `.env` was touched in between |
| `Health` | API process, Redis connection, `GET /health/ready` | `server`, `pool`, `link`, the dependencies that answer (`up`) or are silent (`mute`), and each probe |
| `MCHolder`, `MCIam`, `MCAccounts`, `MCConsole`, `MCProject` | instances for TLC | symmetry sets, the pools of statements and setups |
| `Sessions_proofs`, `Login_proofs`, `Holder_proofs`, `Iam_proofs`, `Accounts_proofs`, `Project_proofs`, `Health_proofs`, `Web_proofs` | theorems | |

`Sessions` instantiates `SessionContract` with a refinement mapping (`Phase`): a session is
live while some request may still be answered as its user, now or after whatever is in
flight, and over when none can. `Holder` and `Iam` extend `PolicyEngine`: every guard of an
IAM route is `evaluate` over what four queries have gathered. `Project` extends `Generator`
and `Seed`; the password that one writes into `.env` is the one the other puts into the
database. `Accounts` leaves throttling to `Login` and expiry to `Sessions`; `WebAuth` takes
the API as one step between sending and hearing, which is what `Accounts` does in several.

Some definitions come in twins marked *variant*: the form a plausible slip in that line
of code would give. No action uses them; they show that the property a run checks is able
to tell the two apart.

### Abstractions

* Time is relative. `life[t]`, ttls and deadlines count ticks downwards, so that a state
  does not hold an absolute clock; every copy of a session carries the `expiresAt` of its
  row, so one number per token stands for all. `-1` is every instant past `expiresAt`, which
  keeps the boundary instant (`now > expiresAt` for the copy, `expiresAt > now` for the row).
* A call holds only the fields that a later step reads. `began`, `misses`, `span`, `calm`
  and `stood` are read by no action.
* A rejected Redis command may or may not have run (ioredis retries it, then rejects). A
  query that fails and a process that dies are the same step: the call is gone and what it
  had written stays.
* Emails, names, headers, audit logging and response bodies are left out where nothing
  branches on them. `lastLoginAt` and the audit inserts are writes no modelled code reads.
* A pattern is kept as what it matches; a statement list as a set (the engine's result
  does not depend on order or repetition). Attribute values compared through `String(...)`
  are taken as already converted, and no value is the text `undefined`.
* `Iam`: a query sees the tables at one instant; row ids are never used twice; a policy is
  the set of its statements and a name matters only in that it may be taken. The order in
  which a body is inserted is left open.
* `Accounts`: the validation of a session is one step, signup's transaction another.
* `Console`: of an answer only one bit is kept, whether it is from before a change this
  tab made and was told of. The cache is the query library's (external). The three lists
  are one key each; a policy has a key of its own for its statements, which the policies
  page mounts beside the list while they are shown.
* `WebAuth`: only a login, a signup or a logout sets the cookie, and the saving of a profile
  counts as no call until it is done: it concerns neither cookie nor user.
* `Generator`, `Project`: of a file only whose text it holds. One person acts at a time;
  only seeds overlap, as when several deployments start.
* `Health`: dependencies come and go at any time, or stay connected and fall silent; the
  event loop of one process. A dependency that goes down breaks its connections, and one
  that is silent does not.

## Runs

| Run | Question | Distinct states |
| :-- | :-- | --: |
| `sessions_concurrent` | Do two interleaved calls, with every failure, keep `SessionInv`, refuse the expired, answer from the database only for live sessions, give a cause for every "ended", implement the contract, and does every session end for good? Does a revocation that met no refill and no failure leave neither a copy nor, while the user is barred, an active row that nobody is about to revoke? | 70 455 |
| `login_concurrent` | Do two interleaved attempts, with every failure, keep `LoginInv`; is every wrong password counted when nothing disturbs its recording; has every lock its failures behind it; does it last, lift, and come if guessing goes on? | 51 298 |
| `holder_decisions` | Over every set of statements of the pool and every context: is a deny final, does every gain and every loss have its cause, do hint and grant check agree with `evaluate`? | 4 096 |
| `iam_concurrent` | Do two interleaved requests keep links and system records, obey a deny that stands, grant only what is held, and read and update exactly when nobody else writes? | 1 134 191 |
| `accounts_concurrent` | Do three requests over two accounts keep addresses distinct and signups whole, give access only to those who earned it, and update exactly when undisturbed? | 276 558 |
| `webauth` | Does a call that overlaps no other leave the right user in the tab, and does no page load for ever? | 394 962 |
| `console` | Is what a page shows at rest never from before a change this tab was told of, but for what hooks and query library are known to overlook? | 4 355 495 |
| `project` | Does the developer's work stand, is a success whole, is ROOT kept, does the password shown open it, is the baseline whole? | 1 065 848 |
| `health` | Does 200 mean that everything was up; does 503 of a system that is up take a disturbance; does the process drain and stop, once no dependency is silent? | 695 624 |
| `sessions_suspend_race` | Does suspension end every session, with two calls in flight? | violated |
| `login_lost_count` | Two attempts at a time: is every failure counted? | violated |
| `accounts_own_address` | Does a conflict of addresses name another account? | violated |

The nine without "violated" hold. The others each state what a document or a comment says:

* `skills/security/SKILL.md:18` says that a suspension must immediately revoke all
  sessions. `validateSession` and `createSession` write, after their last query, a copy of
  what they read before: it outlives a suspension in between (`session-manager.ts:229`).
  `RevocationIsWhole` says what is left: such a refill, a revocation that ended early and a
  rejected `DEL` are the only ways to miss a session, and each of the three is one.
* `auth-config.ts:35` gives the number of failures before the account is locked.
  `recordFailure` reads and writes back in two commands (`login-throttle.ts:80`), so
  attempts in flight overwrite each other's count. `CountIsExact` and `GuessingLocks` say what
  is left: two recordings that overlap, one that breaks off and a key that goes just before
  it is read are the only reasons to lose a failure, each of them is one, and a lock comes
  all the same if guessing goes on.
* `profile.ts:112` says that the address is in use by another account. The address asked
  for is compared with the one cached with the session (`profile.ts:100`), which an update
  does not refresh: repeat an update, and the other account is one's own.

Other places where the code and its words part, or that a maintainer should know of, met
while modelling and covered by no run of their own:

* Every failure sets the key with the whole window again (`login-throttle.ts:81`), where
  `auth-config.ts:46-47` speaks of a rolling window.
* The deletion of a lock past its deadline may hit the lock another attempt has just set
  (`login-throttle.ts:58-59`), and of two recordings that both lock, the one delayed between
  reading the clock and its `SET` replaces a lock by one that ends earlier, or has ended
  (`login-throttle.ts:84-85`). `LockLasts` says that besides the clock, the login of the owner
  and a Redis that loses the key nothing else ends or shortens a lock; both are `SetsBack`.
* The failure after a lock may lock again at once: an attempt that read the count before the
  lock cleared it writes it back (`login-throttle.ts:80-86`).
* A logout races with the refill of the copy as a suspension does; a Redis failure while
  `validateSession` refills the copy, or while `createSession` stores it, fails a request
  the database has already vouched for; a rejected `DEL` during a suspension is forgotten.
* The probes for a wildcard are evaluated without a context (`policy-engine.ts:178`), so
  the `:self` actions of the catalog are never held and a holder of `*` who is not ROOT
  cannot grant `*`, where `privilege-escalation.test.ts:55` lets them.
* Two `updatePolicy` that overlap may leave the union of their bodies; a request in
  between sees a policy without its denies.
* `GET /auth/session` answered from Redis fails on dates that come back as text
  (`auth.ts:482`); the web context then shows nobody.
* A seed that crashes between a policy and its statements leaves an empty policy that no
  later run repairs; `iam-config.ts:81-94` names a USER role that is not seeded; an account
  that signs up before the seed gets no policy.
* `generator.ts:354-359` tries docker compose after an install that failed, against its
  comment; the prompts override `--theme` (`cli.ts:105-120`), and the "cd" it prints is the
  package name.
* The query cache outlives a logout; a deletion of a role, group or policy does not
  invalidate the user being inspected, and a deleted policy whose statements are on show
  stays there (`use-iam.ts:280-288`). `Overlooks` names these keys.
* The answer of a refresh that overlaps a login or a logout may overwrite it
  (`auth-context.tsx:32`): the tab then takes itself for another's, or for nobody's.
* No query, Redis command or storage request has a deadline, and neither has the shutdown
  (`redis-client.ts:29-39`, `packages/db/src/client.ts:21-27`, `server.ts:11-17`): a dependency
  that stays connected and falls silent keeps a probe waiting, and the process from stopping,
  as long as it is silent. Without its premise `StopsAndAnswers` is violated by just this.

### Bounds

* Sessions: two users (one ROOT), one token, two calls, `Ttl` 2. Every race, and every
  clause of the invariant, is between two calls on one session; any number of tokens and
  calls is the proofs' business. Two ticks separate "not expired", "at the boundary" and
  "past".
* Login: two attempts, three failures (two in `login_lost_count`), window and lockout of
  two ticks, so that a count can expire between failures and a lock between check and
  delete. Counts stop at `MaxAttempts`: the code only compares them with it.
* Policies: one identity, ROOT or not, and ten statements with every effect, pattern kind
  and condition operator among them: 1024 sets, 4 actions, 27 contexts.
* Iam: ROOT and one administrator, one role, one group, a system policy and another, three
  statements, two requests, three setups in which the administrator holds what she holds by
  a role, a group or directly. Each route then meets each other at each query. With one
  role, the link to it and the row under it are what can go.
* Accounts: two users, tokens, addresses and passwords, three requests: two that race for
  an address and one that holds a session.
* WebAuth: two people, two tokens, two calls at a time.
* Console: the users, one user, the policies, one policy, and two mutations at a time. The
  hooks treat a user's permissions as they treat the user, and roles and groups as the
  policies; all the keys together are the proof's business.
* Project: two secrets, so that a second run differs from the first, two seeds, two files
  edited by the developer, one of which the command rewrites.
* Health: two probes, the least that disturb each other. The database and Redis may fall
  silent; a silent store is waited for in one step only, as a silent database is.

### Fairness

* `Sessions`, `Login`: weak fairness of `Tick` (time passes) and of each call's next step
  (Node resumes a handler when its command is answered or rejected). This takes for granted
  that a store does one or the other: neither client limits how long a command takes, and
  what a silent store does to the process is the subject of `Health`. Nothing obliges a
  client to call, Redis to evict or a process to die. `LockLifts` and `GuessingLocks` state what they need besides: a
  lock lifts unless Redis lets attempts through it again and again; guessing locks if
  counts are not cleared or left to expire, and Redis does as it is told.
* `WebAuth`: an answer that has come is heard, and one that has not is given up (the
  timeout of `api-client.ts`, which is cleared once the head of an answer is there; the body
  is trusted to follow). The server need never serve. `LoadingEnds` excepts a user who
  reloads for ever.
* `Health`: the event loop runs what has been answered or refused, and the one timer there
  is, that of a connection being opened. A check of a silent dependency is owed nothing
  (`Hangs`), and neither is the closing of the clients while one is silent: `CloseServices`
  is fair only when none is. Dependencies may stay away for good, and come and go for ever;
  `StopsAndAnswers` has the premise that from some time on none is silent.

## Proofs

Every theorem is checked by TLAPS for all values of the constants, from the named
assumptions about them alone (`SessionConstants`, `LoginConstants`, `PolicyConstants`,
`HolderConstants`, `IamConstants`, `AccountConstants`, `GeneratorConstants`,
`SeedConstants`, `ProjectConstants`, `HealthConstants`, `WebConstants`, `ConsoleConstants`).

* `Sessions_proofs`. `SessionInv` is inductive as it stands; its parts need one another.
  That an expired session is refused needs what a call knew when it began to stay true
  (`EndsStand`), which needs that a call that holds a copy has a row behind it
  (`CopiesHaveRows`), which needs that no two creations share a token
  (`TokensAreFresh`). The proof splits it by token (`StoreInv`) and by call (`CallInv`);
  `Frame` shows that a step that only advances what the stores record (`Advance`) keeps
  what is said of the calls it does not move, and each action then has one lemma. The three
  action properties follow from the invariant and from `ReturningCall`, which says
  what a call knows as it returns.
  `ContractImplemented`: under the mapping `Phase` every step issues one token or ends a
  set of sessions. `CreateIssues` is the first case; for the rest it is enough that
  `Acceptable` never becomes true again (`OthersEnd`). `CallKeeps` reduces that to two
  facts about a step: the stores accept no more than before (`StoreAccepts`), and neither
  does what the call goes on with; `WaitingCall` covers every other call, and needs
  `HasRow`: a call waiting for its query has a row already, so no row can become active
  under it.
  `UndisturbedRevocation` is about the history variable of `Revocation`. Its inductive
  invariant (`Undisturbed`, one session at a time) says how far a revocation has come: the
  copy is gone once the call is past its `DEL`, nobody holds a copy of a revoked row, and a
  row is inserted only for a user who is not barred (`Stands`). The update that revokes
  the row then finds nothing to leave behind, because a call on its way to a row or a copy
  would have met it (`RefillStands`, `RevokeStands`); every other step leaves the session
  the same (`Same`, `StepStands`).
* `Login_proofs`. What makes `LoginInv` inductive is the term for failures still to be
  counted: a stored count plus those never exceeds the wrong passwords given, and a count
  about to be written obeys the same bound. `CallStep` proves it once for a step of any
  attempt, from how many it adds to `Uncounted`. `LockStays` goes through the steps that
  change the lock (`LockGoes`) and needs one thing more (`DeletesPast`): an attempt on its
  way to delete a lock has found a deadline past, so a lock that it deletes before its
  deadline is a successor.
  `UndisturbedCount` is about the history variable of `Counting`. Its invariant
  (`CountingInv`) follows the one recording that can be under way while nothing disturbs it:
  the count is one short of the wrong passwords before the GET, the number to be written is
  exact after it, and at `MaxAttempts` the attempt goes on to the lock. Every other step
  moves no recording (`Elsewhere`), or wipes the slate (`CleanCounts`).
* `Holder_proofs`. `DenyWins` and `ChangeNeedsCause` by the order of the rules of
  `evaluate`; `HintExact` and `GrantsAreHeld` because a plain statement decides alike
  in every context that names the same owner.
* `Iam_proofs`. All six properties of `iam_concurrent`. `IInv` says of the tables that links
  join live rows and system rows are live (`TablesOK`), and of each request which operation
  may be at which query (`Ordered`), what its fields name (`About`), that it edits no system
  row (`Spares`), that every path which has stood since it began is among what its queries
  have found so far (`Reached`), and that, once let in, none of those denies (`Obeys`).
  `Reached` is why a deny cannot slip between the four queries: each path comes by one
  way, and each way is read by one query. Two more invariants speak of requests that nobody
  disturbs: `CalmInv` (what has been gathered is what there is; what a grant was checked
  for is what it gives) and `LeftInv` (what a record holds and what is still to be inserted
  make up the body). `ReadKeeps` and `WriteKeeps`, `CalmRead` and `CalmRest`, `LeftFrame`
  are the frames: another request's step changes nothing that is said of this one, or ends
  its calm.
* `Accounts_proofs`. `AInv` adds to the checked invariant what each request knows: that the
  user it verified had this address and password at one moment of it (`Earned`, `Knows`),
  and that what it names exists (`Named`, `Stated`). `AccessGoesToItsOwner` is an action
  property read off the record of the request at the step that creates the session or
  stores the password. `UpdateAnswersExactly` adds what an update tracks (`Tracks`): as long
  as nothing disturbs it, the address it saw is the one in the row, and it checks for
  others only when it asks for another than that. A write by any other request ends the
  calm of every update under way (`TracksWrite`), so only the steps of the update itself are
  left to look at.
* `Project_proofs`. `PInv` joins the invariants of the parts: the files by the stage of the
  run (`GenInv`); what each seed has passed and what is half made and by whom (`SeedInv`);
  and, across them, that untouched `.env`, the password shown, the one each seed carries and
  ROOT's are the same (`Together`).
* `Health_proofs`. A probe records what it could have found up; the invariant relates that
  to the status of the one connection all probes share, at each stage of each probe.
* `Web_proofs`. For `WebAuth`, `IInv` says of each call that a tab which listens to it
  finds it under way (`Waits`), and that the sessions it carries and the person it names
  agree with the server (`Carries`, `NamesOwner`); and of a call that overlaps no other,
  that nothing else is under way (`AloneOK`). `AloneLandsExactly` reads its property off
  these when the call is heard or given up. For `Console` an answer on its way, and data
  that is not marked, are behind only a change that the tab has not heard of (`AnswersOK`,
  `DataOK`); `TouchedIsMarked` compares what a mutation changes at the server with what
  its hook invalidates, and what is left over is what `Overlooks` names.

The modules keep each form that the record of a call takes as an operator (`Moved`,
`Taking`, `WithPc`, ...) with one lemma on its type and fields, so that no step has to look
inside an EXCEPT.

Only model-checked: liveness (`SessionsEnd`, `LockLifts`, `GuessingLocks`, `LoadingEnds`,
`StopsAndAnswers`), which TLAPS cannot prove under fairness. The safety properties of the
passing runs are all proved.

## Not modelled

* The registration of API plugins, error formatting, metrics and rate limiting: library
  calls, and counters that nothing reads.
* OpenAPI documents, request schemas beyond what a model branches on, password hashing,
  S3 uploads, theme palettes: pure functions over text or wrappers of a library, with no
  state of their own.
* Rendering and forms of the web application, and the routes that only list or read: they
  compute nothing that a property here is about.
* Methods of the IAM service that no route calls (attach and detach a policy of a role or
  group on its own, remove one member), and `registerPermissions`, which only start-up and
  tests call: the catalog is a constant.
* `scripts/health-check.ts`, `verify-release.ts`, `smoke-test.ts`, `pack-skills.ts`, and
  container files: maintainers' one-shot scripts that run from top to bottom and stop at
  the first failure.

A next step would be a refinement that puts `Accounts` over `Sessions` and `Login` instead
of beside them.

## Running

    tlc -workers 2 -config sessions_concurrent.cfg Revocation
    tlc -workers 2 -config iam_concurrent.cfg MCIam
    tlapm Iam_proofs.tla

PROJECT.json names the module of each run's configuration and, for every definition, the
lines of the source it stands for.
