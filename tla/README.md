# TLA+ models of kube-extauth-demo

The repository shows external authorization on Kubernetes: kgateway (Envoy) asks
Open Policy Agent about every request before it reaches a sample API written in
Go, which keeps users, posts and comments in Postgres. This directory holds the
specifications of that system, the TLC configurations that check them and the
proofs that TLAPS checks. Paths below are relative to the repository.

## 1. Inventory

| Component | State | Operations | Talks to | Modelled in |
| --- | --- | --- | --- | --- |
| User and login handlers (`sample-api/pkg/openapi/user.go`, `auth.go`) | none of their own; a goroutine per request | login, list, create, get, update, replace, delete | Postgres through `db.Queries`, bcrypt, the token signer | `SampleApi` |
| Post handlers (`post.go`) | none | list, create, get, replace, delete | Postgres | `SampleApi` |
| Comment handlers (`comment.go`) | none | list, create, update, delete | Postgres | `SampleApi` |
| Pagination and mappers (`mapping.go`) | none | `paginate`, `meta`, `toAPI...`, error bodies | the handlers | `Pagination`, `PageWalk`, `Calls` |
| HTTP binding (`gen.go`, generated from `openapi/schema.yaml`; `server.go`) | the request context | decode, 400 on failure, identity from the unverified token, encode | the handlers | `Calls`, `Responses` |
| Queries and schema (`pkg/db/query.sql.go`, `migrations/*.sql`) | four tables | 23 statements, 21 of them used, unique and foreign keys, cascades | Postgres | `Store` |
| Migrations (`pkg/db/migrations.go`) | schema version, dirty flag | `Up` at start, in every replica | Postgres | `Startup` |
| Configuration (`pkg/config`), key loading (`pkg/auth/jwt.go`) | a record, a key | load, validate, parse | the start of a replica | `Startup` |
| Server lifecycle (`main.go`, `pkg/server/server.go`) | two HTTP servers, a signal context, an error channel, the pool | start, select, drain, close, probes | Kubernetes | `ServerLifecycle` |
| Development loop (`Tiltfile`) | key files on disk | generate, copy when different, deploy | OPA and the API read the copies | `KeyProvisioning`, `BringUp` |
| Gateway (`gateway/`), OPA (`openpolicyagent/`) | configuration, policy | authorize, forward, refuse | the API | no |
| Scenario runner (`testing/run.sh`) | captured values, counters | substitute, call, compare, capture | the gateway | no |

What is hard here: every request is a goroutine, no handler opens a transaction,
and several handlers run more than one statement, so the statements of different
requests interleave freely; deletions cascade to rows other requests are about to
refer to; a statement may fail, and one that committed may lose its reply; the
database constraints are the only guard of uniqueness and reference; page
arithmetic is 32 bits wide and a list is walked while it changes; replicas migrate
at once and may die within a migration; a process stops while requests, probes,
failing servers and a timeout race; the key script may be stopped between any two
commands. `PROJECT.json` lists these hazards line by line with the properties that
watch them, or why none does.

What makes each part correct:

- Users: one user per address; the hash stored is that of the salt stored;
  a refused request changes nothing; a login succeeds only with the password last set.
- Posts and comments: their author and post exist, never change, and go when those
  are deleted; one post per slug; a deleted resource stays deleted.
- Lists: the rows are those of one moment, filtered and paged as asked; a walk over
  the pages loses and repeats rows only for rows that left and entered.
- Every request: refused before it writes if it must be, otherwise it behaves as
  if it ran at one moment, and is answered in a form its operation declares.
- Start: one replica migrates at a time, a version that is not dirty is true, a
  replica serves on the whole schema with a key, and in the end all do.
- Stop: a process takes no request once it drains, drops none while there is time,
  closes the pool under none while there is, reports a failure in its exit status, and
  does exit.
- Keys: a successful run of the script leaves OPA and the API halves of one pair,
  and stops triggering itself.

## 2. Modules

| Module | Models |
| --- | --- |
| `Pagination` | `paginate` with wrap-around at `MaxInt`, the greatest int32 |
| `Store` | the tables as functions from ids to rows, the constraints, the deletions, the selections |
| `Calls` | the calls a handler may receive and the resources it answers with |
| `Responses` | the status and the kind of body of each response type |
| `SampleApi` | the sixteen handlers, one action per SQL statement; their properties |
| `AtomicApi` | abstract: a request takes effect at one moment |
| `DocumentedApi` | what comments and the schema say where the code does otherwise |
| `PageWalk` | a client that reads a list page by page while it changes |
| `ServerLifecycle` | a process from `server.Run` to its exit, with requests, probes and the pool |
| `GracefulStop` | abstract: what stopping promises |
| `KeyFiles`, `KeyProvisioning` | what a key file may hold; the script `generate_jwt_keypair` and its reruns |
| `Startup` | replicas from the start of a container to `server.Run`: configuration, migrations, pool, key |
| `BringUp` | composition of `KeyProvisioning` and `Startup` with the deployments between them |
| `MCSampleApi`, `MCPageWalk`, `MCServerLifecycle`, `MCBringUp` | the small instances for TLC |
| `SampleApiProofs` | type correctness and admission of statements, proved |
| `SampleApiSafety` | integrity, keys, credentials, authorship, deletion, refusals, proved |
| `SampleApiAnswers` | the forms of the answers, proved |
| `SampleApiAtomicity` | that `SampleApi` implements `AtomicApi`, proved |
| `PageWalkProofs`, `ServerLifecycleProofs`, `BringUpProofs` | the safety of these modules, proved |
| `PageWalkCounts` | how many rows a walk is given, misses and repeats, proved |

`Pagination <- Store <- Calls <- SampleApi <- DocumentedApi <- MCSampleApi` and
`SampleApi <- SampleApiProofs <- SampleApiSafety, SampleApiAnswers <- SampleApiAtomicity`
by EXTENDS, as are `Pagination <- PageWalk <- PageWalkProofs <- PageWalkCounts` and
`KeyFiles <- KeyProvisioning, Startup <- BringUp`;
`SampleApi` instantiates `AtomicApi` and `ServerLifecycle` instantiates
`GracefulStop` with refinement mappings. Operators named `MUTANT of ...` are faulty
variants that no specification uses: they show that each property can fail.

### SampleApi

State:

- `users`, `posts`, `comments` map every id Postgres may draw to its row, to
  `Fresh` (not drawn yet) or to `Gone` (deleted). `gen_random_uuid` never repeats
  an id. The role table is written by the migration only: the constant `Roles`.
- `req[c]` is the request client `c` has in flight: its call, the statement that
  is next (`stage`), the answer's status, rows and total. The stages are `role`
  (GetRoleBySlug), `post` (the GetPost of ListComments), `main` (the operation's
  statement), `count` (the total of a list), `load` (the GetRole of
  `userWithRole`), `done` and `idle`.

An action is one SQL statement and the code after it up to the next statement or
the answer. `Receive` is the code before the first statement: the decoded call is
answered at once (`EarlyStatus`) or goes on to its first statement. A
statement is atomic, as a statement that Postgres commits by itself is under its
constraints and row locks.

| Handler | Actions |
| --- | --- |
| Login | `Login` |
| ListUsers, ListPosts | `ListUsers`, `CountUsers`; `ListPosts`, `CountPosts` |
| CreateUser, ReplaceUser | `CreateUserRole`, `CreateUser`; `ReplaceUserRole`, `ReplaceUser` |
| UpdateUser | `UpdateUserRole` when a role is given, `UpdateUser`, `UpdateUserLoad` |
| GetUser, DeleteUser, CreatePost, GetPost, ReplacePost, DeletePost, CreateComment, UpdateComment, DeleteComment | one action each, of the same name |
| ListComments | `ListCommentsPost`, `ListComments`, `CountComments` |
| any | `ReceiveMalformed` (400), `StatementFails` (500 without effect), `Return` |

A statement that changes the tables may lose its reply (`AnswerWritten`): the
change stays and the answer is 500.

Abstractions:

- The hash is the pair of password and salt: bcrypt is taken to be injective.
  `LongPasswords` are those that exceed bcrypt's 72 bytes with the 60 of the salt.
- `content`, names, biographies, tags and categories are left out; a title stands
  for the base of its slug and `Suffixes` for the eight random digits.
- `created_at` may tie, so `Pages` admits every part of the selection of the right
  size. The rows of an answer are a set. `PageWalk` keeps times and orders instead.
- Clients name ids that exist or did. One that never existed behaves like one that is gone.
- Token checks are the gateway's; the API sees an optional caller id.
- The category and tag filters of ListPosts are left out: like `status` they select.

### PageWalk

`live` is the list, `created[r]` the time each row sorts by, `got` the pages the
client was given. `List` is the statement of a page: it reads the list in any of the
orders `ORDER BY created_at` admits, another one each time where times tie, and
takes the `LIMIT` and `OFFSET` of `Paginate`. `Count` is the total, after which the
client asks for the next page or is done. `Enter` and `Leave` are what other
requests do to the list at any point; `entered` and `left` count those that were
before the end of what the client was given already. The descending order of users
and posts and the ascending one of comments are both instances (`order`).

### ServerLifecycle

`main` is where the main goroutine is (`select`, the two drains, `pool.Close`), `server[s]`
where the goroutine that serves `s` is, `errCh` the channel, `task[t]` a request or
probe with the statements it has left. A task runs, holds a connection for the length
of one statement, or is absent. An acquisition may fail at any time (`AcquireFails`): the pool
is closed, the database does not answer, the client is gone or the probe's two
seconds are over. Reading the channel and `Shutdown` closing the
listener is one step (`SelectError`, `SelectSignal`): nothing of the code is between
them but a log line. `Accept`, `Acquire`, `Statement` and `Killed` are net/http, the
pool and the kernel, as this code uses them; a pool that is closed refuses every
acquisition.

### KeyProvisioning, Startup, BringUp

The script is its six commands that write (`Commands`), each of which succeeds, fails
(`set -e`) or is interrupted, before or within its write. `Evaluate` is Tilt running the
Tiltfile: at its start, when a copy changed, and again after a failure. `Wipe` is a developer who removes
`.dev-data`, after which a new key is drawn.

A replica goes through `down`, `opening` (NewWithSourceInstance, which takes the lock
for the version table), `locking`, the five stages within `Up`, `key` and `serving`.
At `key` the pool is made and the private key loaded: either may fail and end the
replica, the pool for a URL that pgx refuses although golang-migrate's driver took it
(`PoolFails`; it does not connect yet).
The database is `version`, `dirty`, `schema` (how often the migration took effect) and
`lock`, which stays with the session of a dead replica (`orphan`) until Postgres ends
it. `Dies` may strike anywhere, `Roll` replaces a pod of an older deployment: it ends
a replica within the migrations at once, as run asks for signals only after them.
`BringUp` adds the two deployments: the API is given the private key by the evaluation
that made it, OPA its half whenever its directory changes.

## 3. Runs

| Run | Instance | Shows |
| --- | --- | --- |
| `accounts` | 2 clients, 2 users, 2 addresses, 2 salts, 2 passwords | `TypeOK`, `StatementsAreAdmitted`, `UniqueKeys`, `CredentialsUsable`, `AnswersFitTheirCalls`, `RefusalsLeaveNoTrace`, refinement of `AtomicApi` |
| `content` | 2 clients, 2 users, 2 posts, 1 comment, 2 suffixes, an invalid status | `ReferentialIntegrity`, `UniqueKeys`, `DeletedStaysDeleted`, `AnswersFitTheirCalls`, `AuthorshipFixed`, refinement |
| `reading` | 2 clients, 2 posts, 1 comment, pages of 1 or 2, a page that overflows | refinement: each answer is right at one moment; `AnswersFitTheirCalls` |
| `answered` | 2 clients, 2 users, 1 post, an unknown role, fairness | `EveryRequestAnswered`, `StatementsAreAdmitted`, `AnswersFitTheirCalls` |
| `walk` | 4 rows, 4 times, pages of 1 to 3, first pages 1, 2 and 7, 2 changes | `WholeListWalked`, `MissesAreBounded`, `RepeatsAreBounded`, `PageIsShownUnlessWrapped`, `WalkTypeOK` |
| `lifecycle` | 2 requests of at most 2 statements, 1 probe, 1 connection, fairness | `ReportsFit`, `PoolOutlivesTasks`, refinement of `GracefulStop`, `EveryTaskEnds`, `StopsWhenItShould`, `TypeOK` |
| `bring_up` | 2 keys, 1 interruption, 2 replicas, 1 death, 4 configurations, fairness | `CopiesMatch`, `MigrationIsExclusive`, `CleanVersionIsTrue`, `ServesOnWholeSchema`, `Settles`, `ComesUp`, `KeyTypeOK`, `StartTypeOK` |
| `missing_post` | 2 clients, 1 post | comment.go:59 promises 404, the code answers 500 |
| `vanished_post` | 2 clients, 1 post | comment.go:12 promises 404 for a missing post: the race answers 200 |
| `list_total` | 2 clients, 1 post | a `total` smaller than the page it comes with |
| `long_password` | 2 clients, 2 users | a password of more than 12 bytes is answered 500 |
| `far_page` | as `walk` | a wrapped offset shows the rows of another page |

Bounds of the API runs: two requests in flight interact in every pair of operations; two users
and two addresses make a conflict and its resolution possible; two salts tell a
hash from another's; two posts and two suffixes with one title make a slug clash
and a free slug possible. `HasRoom` (BOUND) lets a creation start only while an id
is left for it: the instance has finitely many ids, the database has not.
`MaxInt = 7` makes `(6 - 1) * 2` wrap to a negative offset. Clients are symmetric
in the safety runs; no symmetry is used for liveness. Deadlock is checked
in every run but `walk` and `far_page`, whose walk ends.

Bounds of the others. `walk`: four rows make lists of up to four pages and of a
last page that is not full; two changes are one before and one after the client's
position, or one that undoes the other; page 7 of 3 rows wraps (`MaxInt = 7`) to the
offset 2 and page 7 of 2 to a negative one. `lifecycle`: one connection for two
requests and a probe makes each wait for the others; two statements let one be
held up between them. `bring_up`: two replicas race for the lock and the dead one's
orphan; the second key makes every mixture of old and new files, one interruption
each partial write. `MaxSeeded`, `MaxChanges`, `MaxInterrupts` and `MaxDeaths` are
the BOUNDs; the proofs hold for any value of them.

Refinement of `AtomicApi`. `Task` maps a request to `called` until the statement that settles its
answer has run, then to `decided`: for a list that is the selection of its rows, for
UpdateUser the UPDATE. The role lookups and the post lookup of ListComments before
it are stutters, or the decision if they refuse. `AtomicApi` is deliberately weak
where the code is: it says nothing of `total`, it admits an empty list of comments
for a post that was deleted, a 500 whether or not the request had its effect, and
a role lost by UpdateUser. These are the places `DocumentedApi` is about.

Refinement of `GracefulStop`. The phase is `up` while main selects, `draining` from
the Shutdown of the public server, `over` when the process is gone; the requests in
flight are those of the public server. `GracefulStop` allows an end with requests in
flight only once the time has run out, and ties the exit status to the cause.

What a walk is promised. With ties only the number of rows is (`WholeListWalked`),
and only while the list is still: two statements may order tied rows differently, so that a row
comes twice and another never, as can happen to the four seeded users, whose
`created_at` is one `now()`. Without ties a row that stayed is missed only for one
that left before it, and one is repeated only for one that entered before it.

Fairness.

- `answered`: `WF(Handle(c))` for each request: the Go scheduler runs every
  goroutine, and a statement comes back with its result or an error (the pool and
  the operating system report a connection that is lost). That a statement ever
  succeeds is not assumed, nor that clients call or that any particular request is
  preferred. A handler runs three statements at most, so each is answered; what
  could go wrong, and what the mutant does, is a handler that starts over.
- `lifecycle`: main and the serve goroutines run, the 15 seconds pass, a statement
  ends, a handler answers, an acquisition from a closed pool or beyond a probe's two
  seconds fails (`MustGiveUp`; a request that waits on an open pool may give up, and
  need not): weak fairness. A waiting request gets a connection if one is free
  again and again: strong fairness, as the pool serves those that wait in turn.
  Calls, signals, failures and SIGKILL are owed nothing.
- `bring_up`: the script, Tilt's deployments, the steps of a replica, the
  replacement of pods and the end of dead sessions happen: weak fairness.
  Interruptions, deaths and `Wipe` are owed nothing. A replica that waits
  for the lock may time out rather than get it, any number of times; it still comes
  up because the holder goes on. `Obstructed` names what does keep the
  environment down: a configuration that is invalid, not for Postgres or not for pgx, a script
  that fails for ever (an interruption left a keypair file that is no key, which the
  script takes for one), a broken key file deployed, a dirty version. Each is reachable.

## 4. Findings

1. `CreateComment` on a post that is gone answers 500: the foreign-key violation
   is 23503 and `isUniqueViolation` knows 23505 only (`missing_post`).
2. `ListComments` may answer 200 for a post deleted between its two statements
   (`vanished_post`).
3. `meta.total` may be smaller than the number of rows in the page (`list_total`).
4. A password of more than 12 bytes cannot be set (`long_password`).
5. `?page=42949674&per_page=100` shows rows 5 to 104: the offset wraps to 4
   (`far_page`). Most far pages wrap to a negative offset and are answered 500.

Observed while modelling and not given a run: DELETE answers 204 for a row that is
not there where the schema lists 404 (schema.yaml:191, 314, 409); the `sort` parameter of the lists
(schema.yaml:465) is bound and never read; the slug suffix
is random, so that post.go:148 "to guarantee uniqueness" holds with high
probability only and a clash is a 500; the policy at this commit decides by
method alone, as README.md leaves the rest as an exercise, while most scenarios
under `testing/` expect scopes to be enforced.

## 5. Proofs

| Theorem | States | For every |
| --- | --- | --- |
| `SampleApiProofs.TypeCorrect` | `Spec => []TypeOK` | finite sets of ids, any calls and clients |
| `SampleApiProofs.Admission` | `Spec => []StatementsAreAdmitted` | |
| `SampleApiSafety.References` | `Spec => []ReferentialIntegrity` | |
| `SampleApiSafety.Keys` | `Spec => []UniqueKeys` | |
| `SampleApiSafety.Credentials` | `Spec => []CredentialsUsable` | |
| `SampleApiSafety.Authorship` | `Spec => AuthorshipFixed` | |
| `SampleApiSafety.Deleted` | `Spec => []DeletedStaysDeleted` | |
| `SampleApiSafety.Refusals` | `Spec => RefusalsLeaveNoTrace` | |
| `SampleApiAnswers.Answers` | `Spec => []AnswersFitTheirCalls` | |
| `SampleApiAtomicity.Atomicity` | `Spec => BehavesAtomically`: the refinement of `AtomicApi` | |
| `PageWalkProofs.OffsetIsExact` | `Paginate` is exact where the offset is an int32 | width, cap and default |
| `PageWalkProofs.WalkTypes`, `PagesShown` | `WalkTypeOK`, `PageIsShownUnlessWrapped` | list, times, pages and number of changes |
| `PageWalkCounts.RepeatsBounded` | `Spec => []RepeatsAreBounded` | |
| `PageWalkCounts.MissesBounded`, `WholeList` | `MissesAreBounded`, `WholeListWalked` | as above, with no more rows than `MaxInt` (`Countable`) |
| `ServerLifecycleProofs.TypesHold`, `Reports`, `PoolLast` | `TypeOK`, `ReportsFit`, `PoolOutlivesTasks` | number of requests, probes, connections, statements |
| `ServerLifecycleProofs.Graceful` | `Spec => StopsGracefully`: the refinement | |
| `BringUpProofs.KeyTypes`, `StartTypes` | `KeyTypeOK`, `StartTypeOK` | keys, replicas, configurations, interruptions, deaths |
| `BringUpProofs.Exclusion`, `TrueVersion`, `WholeSchema` | `MigrationIsExclusive`, `CleanVersionIsTrue`, `ServesOnWholeSchema` | |
| `BringUpProofs.Matching` | `CopiesMatch` | |

The only assumptions are the named ASSUMEs of the modules: `PagingAssumption`, `StoreAssumption`,
`SeedAssumption` (finite sets of ids, `None`, `Fresh` and `Gone` distinct from data,
well-formed seeds), `CallsAssumption` (a role that is sent is not `None`),
`WalkAssumption`, `LifecycleAssumption`, `KeyAssumption`, `InterruptAssumption` and
`StartupAssumption`. Two theorems add a hypothesis of their own, `Countable`: a
list of more rows than an int32 counts is not walked whole, as the client stops at the
last page number there is.

SampleApi. Type correctness is not inductive alone: that CreateUser stores a role of
`Roles`, or CreatePost an author, depends on what an earlier statement or an
early return of the same request established. `TypeInv` is `TypeOK` with
`StatementsAreAdmitted`; each action preserves both, which needs the fields of the
sixteen kinds of call (`CallFields`) and that a row that is live has the type of
a row (`LiveRows`).

For the properties of the tables `NextTables` classifies every step: it leaves the tables
alone, writes one user, one post or one comment under the constraints, or deletes
rows with all that refers to them. The four theorems about tables (References, Keys and Credentials as invariants, Authorship as an action
property) follow from that classification and not from the handlers again.

`DeletedStaysDeleted` needs `DeletionInv`: the ids a call in service names were
drawn, so no creation can draw them again, a request in service has no status
yet, and one answered 204 names an id that is `Gone`, which `Authorship` says
it stays. `DeleteTakes` is the step at which it becomes so.

`RefusalsLeaveNoTrace` follows from the handlers that write (`WritersAnswer`: they are at
their own statement, and answer a success, a 500 or go on to the role) and, for a
request that reads the role, from `DeletionInv`: it has no status before
`userWithRole` gives it 200.

`AnswersFitTheirCalls` needs `AnswerInv`: what a request in service has read so far
fits its call already, a list before it is counted and the user of an UpdateUser
before its role is loaded. `FittingStep` classifies the steps of the handlers.

`Atomicity` maps every step to one of `AtomicApi`, under `RefinementInv`: the types
with `StatementsAreAdmitted`, the integrity of the tables, and `OpenInv`, that a request
not decided yet has read nothing. There is a lemma for each operation, and each ends in
one about a handler's step: it settles an answer that is allowed (`Decides`, of which a
refusal, `Refuses`, an error, `Errs`, and a write whose reply may be lost, `Takes`, are
cases), or looks something up, which nobody sees (`LooksUp`). The integrity of the tables is what
makes the decisions right: a 401 of Login means that no user has the address
and the password since addresses are unique and hash and salt go together
(`UniqueKeys`, `CredentialsUsable`); an UPDATE that leaves the address out cannot
clash (`UniqueKeys`); the rows the cascades take are those the abstract deletion names
(`ReferentialIntegrity`), also where two paths lead to one comment. A role or a
password that an earlier statement or an early return approved is still approved
when the statement that writes runs (`StatementsAreAdmitted`). No hypothesis says which
requests overlap, or how many.

PageWalk. `WalkInv` adds to the types that the i-th page given was `first + i - 1`
and, while nothing has changed, a slice of an arrangement of the list as it is;
`OffsetIsExact` says which.

`PageWalkCounts` counts. Its steps are over positions of the list: a page cuts the
list at two (`PageCuts`: the rows before it are those up to a time, the page is what
comes up to another, and a page that is short ends the list), as without ties every
arrangement is the same one (`OneArrangement`).

- `RepeatsInv` bounds, for each time `t` and not for the end of the walk alone, the
  rows given again by those that entered. Beyond the end of what was given that is what
  `RepeatsAreBounded` says; at a time inside, a row that is behind the client now may be given
  again later, once rows that enter push it forward, and the bound has to be one on the
  repeats and the rows given after `t` and the rows of the list up to `t` together. A page
  whose offset wraps to a negative number is refused, so that every page given but the first
  begins where the one before it ended (`OffsetFollows`), and the client need not have
  begun at page 1.
- `MissesInv`: until the end of the list is reached the rows missed, and the positions the
  client is ahead of the rows before it, are paid for by rows that left (`Pending`);
  once a page is short, or the total is reached, nothing is ahead and the rows missed are
  all there will be (`Settled`).
- `WholeInv`: in a list nobody changes the client has the first `Asked` rows, or all.
- `OffsetInv` keeps the offsets of a walk from the first page exact: it asks for a
  further page only while there are rows beyond, of which an int32 counts all.

That an arrangement of a page, or the concatenation of the pages (`FlattenOfAppend`),
has the rows it should is by induction, which the provers take in the form of `Smallest`: a set of
numbers that is not empty has a smallest member.

ServerLifecycle. `MainInv` ties `main` to what was shut down, `LifecycleInv` the
channel to the servers that failed: each reports once, so that two places suffice.
`DrainInv` says of each server that, once main is done draining it, nothing of it is in
service unless the time is up; a server that was shut down accepts nothing more
(`NoneAccepted`), so the public server stays empty while the health server is drained,
and both are when the pool closes (`PoolLast`).

BringUp. The script's invariant says which copies are present after each command;
for the replicas: the holder of the lock is the one within `Up`, and what
`version`, `dirty` and `schema` are at each of its stages, or left by a dead one.

Only model-checked: liveness (`EveryRequestAnswered`, `EveryTaskEnds`, `StopsWhenItShould`,
`Settles`, `ComesUp`), which like ENABLED is out of the prover's reach. Every other
property of a run that passes is a theorem.

## 6. Not modelled

- The gateway, ext_authz and OPA: configuration of programs that are not in this
  repository, and a policy that at this commit admits six methods and reads nothing
  else. There is no state of ours on that way, and a model would be of the
  documentation. The one thing that is ours, the key OPA is given, is in `BringUp`.
- `Sign`: a pure function of the user row a login read; the row is what `Login`
  answers with. That a token outlives the user or the role it names is in the model
  as callers that may be deleted; roles in tokens are read by nobody here.
- The scenario runner and its files: a sequential test tool, and data.
- Building, waiting for resources and the rest of the `Tiltfile`; the manifests.
- Kubernetes, Envoy, golang-migrate, pgx and Postgres themselves; what the code relies on
  of them is in the actions that the map marks external, and in the atomicity of statements.

## 7. What is left

1. When the policy decides by token: a model of a request through Envoy, OPA and
   the API, composed with an abstraction of `SampleApi`, with keys that are rolled
   out (`BringUp`) and roles that change while tokens live.
