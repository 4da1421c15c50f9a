# restest in TLA+

restest is a mock server: its users define projects, endpoints and stateful
collections in a web UI or through an API, and clients under test call the mocks
under `/m/{slug}/`. Everything durable is in PostgreSQL; the process keeps a
route table, a queue of exchanges to be logged, and rate limit buckets.

This directory models the parts of it in which requests, background goroutines
and SQL statements interleave, checks them with TLC, and proves with TLAPS the
safety of each of them for every value of its constants. `PROJECT.json` ties
every definition to the lines it is translated from, and lists the runs, the
mutants (the bug each property would catch), the findings and the hazards.

## 1. Inventory

| Part | State | Operations | What makes it correct | Here |
|---|---|---|---|---|
| **Collections and documents** (`core/collection.go`, `core/document.go`, `queries/collections.sql`, `web/documents.go`) | a row with seed, strategy and serial counter; document rows, unique by identifier | create, update, delete, reset of a collection; create, replace, patch, delete, list of documents | readers never see a reset half done; the counter stays ahead of what it handed out since the last reset; every request is answered | `Collection`, `DocumentSet`, `CollectionProofs` |
| **Recorder** (`core/recorder.go`, `web/recording.go`) | a bounded channel, a batch, two counters | `Record`, `Run`, `Wait` | every loss is counted; a clean exit leaves nothing behind | `Recorder`, `RequestLog`, `RecorderProofs` |
| **Log inspector and live tail** (`web/log.go`, `logtail.js`, `core/exchange.go`) | cursors in URLs and in open streams | list, older page, stream, reconnect | a walk shows each exchange once; a stream is ordered | `LogTail`, `BackgroundProofs` |
| **Route table** (`mock/router.go`, `mock/table.go`, `core/endpoint.go`) | one immutable table, swapped | `Reload`, `Refresh`; edits that ask for it | unedited projects stay served; edits go live in the end | `Router`, `RouterProofs` |
| **Path matcher** (`mock/trie.go`, `mock/mock.go`) | a trie for each project | insert, lookup | precedence, a truthful `Allow`, shadowing | `Matcher`, `MatcherProofs` |
| **Process lifecycle** (`cmd/restest/main.go`) | contexts, goroutines | start, signal, shutdown | order of shutdown: server, recorder, pool | in `Recorder`; first reload in `Router`; start of the demo in `Demo` |
| **Projects, collections and endpoints as their owners edit them** (`core/project.go`, `collection.go`, `endpoint.go`, `web/…`, `web/api_…`) | three tables with unique constraints and cascades | create, update, delete, by form and by API | nothing changes but what its owner asked for; an endpoint serves its own project | `Definitions`, `DefinitionsProofs`; their effect on the table in `Router` |
| **Rate limiter** (`ratelimit/`, `web/ratelimit.go`) | three tables of buckets by key, capped | allow, sweep, make room | bounded tables; each caller gets its rate, and only its own refusals | `RateLimits`, `RateLimitsProofs` |
| **Client address** (`web/clientip.go`) | — | walk of `X-Forwarded-For` | the machine that handed the request to our proxies | `ClientAddress`, `RateLimitsProofs` |
| **Accounts, sessions, API tokens** (`web/session.go`, `auth.go`, `tokens.go`, `apiauth.go`, `core/user.go`, `core/token.go`) | users, sessions, tokens; a copy of the session in each request | register, log in and out; mint, show, revoke, use a token | a session token stands for one visitor; a secret is shown once; a deleted account is out | `Accounts`, `AccountsProofs` |
| **Partition maintenance** (`core/partition.go`) | monthly partitions of the log, the default one | daily creation and retention by every instance | the window is kept, the rest goes, rows have a home | `Partitions`, `BackgroundProofs` |
| **Demo project and datasets** (`core/demo.go`, `core/dataset.go`) | one shared project | provision, scheduled reset | whole or not there; what visitors write does not stay | `Demo`, `BackgroundProofs` |
| **Request log API, suggestions, rendering** (`web/api_log.go`, `mock/nearest.go`, `web/render.go`, …) | — | — | they change nothing | not modelled |
| **Recovery, access log, metrics, configuration, migrations** | — | — | library calls, headers and output | not modelled |
| **Generated queries** (`core/dbgen`) | — | one statement each | what the steps above are made of | in the modules of their callers |

**Interactions.** A mock request looks its project up in the route table, is
matched by the trie, and either answered as stored or turned into a document
operation. `recordExchanges` around it hands the exchange to the recorder's
channel; the recorder's goroutine writes batches with COPY; inspectors poll the
database. Edits commit, then call `Reload`; a ticker repeats that. `run` owns the
goroutines and ends them in order. In front of the handlers are the limiters,
keyed by the resolved address, the project or the credential, and around the
pages the session manager, which loads a copy of the session and stores it at the
first write of the response. Beside them, each instance maintains the partitions
the recorder writes to, and resets the demo's collections.

**What is hard.** Resets against creates under row locks, unique index waits and
foreign key locks; two statements where one snapshot is meant (`MockData`, a
listing and its total, the identifier field and the write); reloads that
overtake one another; a channel that fills, writes that fail, stall or are
cancelled; a shutdown that runs into its deadline; cursors kept by browsers
while rows are stored out of order; copies of a session stored over one another;
a handler that finds a project by its slug, then a row by its id, then a
collection by the slug again; a clock read before the lock; several instances
that run the same job. The list in `PROJECT.json`, `hazards`, has
each at its line with the property that watches it, or the reason for none.

## 2. Modules

### Collection, DocumentSet, MCCollection, CollectionProofs

One action of `Collection` is one SQL statement, or one commit: the points where
requests interleave at READ COMMITTED. A create is `StartCreate` →
`AllocateDocumentID` → `EnterIndex` (or `UniqueViolation`, and round again at most
`Attempts` times) → `InsertDocument`; the split of the insert is PostgreSQL's own
order, unique index first and foreign key after, and is what makes its deadlock
with a reset possible. A reset is `StartReset` → `LockForReset`
(`CollectionForReset` and `seedDocuments`) → `ClearDocuments` → `InsertDocuments`
→ `CommitReset` (`SetNextSerial` and the commit). `Fail` is any error of any
statement, with the deferred `Rollback`. `CreateCollection` commits its row and
then goes through the reset's steps, as the code does.

| Variable | Code |
|---|---|
| `status`, `seed`, `strategy`, `nextSerial` | the row in `collections` |
| `docs` | committed `documents`, each with where its identifier came from |
| `holder`, `cleared`, `pending` | the open transaction of a reset: its row lock, what it deleted, what it is to insert |
| `req`, `answer` | where each client's request is, and what it was last told |
| `base` | history: the counter as the last reset left it |

`DocumentSet` is the promise to readers: a set of identifiers that changes one at
a time or is restored whole. `Collection` implements it with
`phase <- status, contents <- {id : Stored(id)}` (`ImplementsDocumentSet`).

PostgreSQL is external and modelled by its documented row locking; the
definitions are marked so in the map. Document bodies, the name of the
identifier field, filters and sorting, and the read of a single document are left
out. An identifier text that is a number but not in canonical form ("007") is not
among the identifiers. A statement whose commit succeeded but whose answer was
lost is, for the database, a success, and for the client a failure it cannot tell
from `Fail`; the model does not distinguish what that client then believes.

### Recorder and RequestLog

The handlers, the channel, the `Run` goroutine step by step (select, full batch,
tick, drain, last flush), and the end of `run` in `main.go`, including a listener
that fails and a shutdown that exceeds its deadline. An exchange is its place in
the log. `RequestLog` is the promise: what is handed over waits until it is
stored or counted as lost, once; `Recorder` implements it, and `LogTail` is
composed with it, so that the tail is checked against exactly what the recorder
was shown to do.

### LogTail

One browser tab: the page with its newest and older cursors, the Older link, the
stream handler and the EventSource that reconnects to the URL the page fixed.
`Record` and `Flush` are `RequestLog`'s actions: batches are any subset of what
waits, so rows are stored behind cursors already passed. A walk of the pages and
the order of one stream survive that; the completeness of a stream does not
(`TailMissesNothing`, section 3). The `order by` of the
two statements is `Ascending`, the one order there is of a set of rows, and its
reverse. The cut of the list at its maximum of rows and retention are left out.

### Router and MCRouter

Handlers that commit a change and then reload, the refresh goroutine as one more
caller of `Reload`, and the reload as the code performs it: read projects, read
endpoints, install. An endpoint that is disabled is one `MockEndpoints` does not
return. The table is, by slug, a project and the endpoints served under it. A
change that alters neither (a response body) would be a reload and nothing else.

### Matcher and MCMatcher

`BuildTable`'s loop (`AddRow`: `Expand`, then `Insert` for each route, in turn)
and `Lookup` (`Search`, `Pick`, `AllowedVerbs`) over segments. A node of the trie is the
sequence of segments that leads to it, with `Param`, which is no segment, for the
one child that parameters of all names share (the field `param` beside
`literal`). `Search` is the code's recursive `walk` as a function on the nodes
(`ArriveAt` the end of the path, otherwise `InTurn` the literal child and the
parameter's); the values it collects are those of the parameters by their places
(`ParamPlaces`). The reference it is checked against, `Precedes`, knows no trie.
Percent-decoding, the splitting of paths and the suggestions of a 404 are left out;
a decoded segment may be spelled like a parameter (`{x}`), and is among the paths
checked.

### RateLimits and ClientAddress

A request reads the clock (`ArriveAPI`, `ArriveMock`, and `GoOn` for the second
limiter) and later has the lock (`Allow`, whole: room made, bucket found or made,
token spent, `seen` marked), so requests are counted in another order than they
looked at the clock. Time is in units of one token. `admitted` and `rewound` are
history: what each caller was let through, and by how much its bucket went back
in time, which is how much too generous the race can make the limiter.
`golang.org/x/time/rate` is external.

`ClientAddress` builds the header hop by hop, our proxies appending and
strangers writing what they like, and resolves it. `AttributedToOrigin` is about
headers that arrive with at most `maxForwardedHops` entries. Of longer ones
`forwardedHops` keeps the entries furthest from the server and cuts those our
proxies wrote, and the promise of the comments fails: `NearestUnforgeable`, in
a run of its own (`MCAddress`).

### Accounts

A visit loads its session (`LoadNew`, `LoadSession`, with the lookup of the
account in `withUser`), handles (`HandleLogin` and then `LogIn`, `HandleLogout`,
`HandleTokenCreate`, …) and stores its copy (`Commit`). Two visits on one session
overlap at every point between. Bearer requests have no session. scs is external:
`Destroyed`, `RenewToken`, `Commit`. The passing properties say what such a
session manager leaves true: a session ended while nobody else has a copy does
not come back, and a secret is shown once, to its owner, unless two requests
had the session at once or somebody logged in over it. The comments say it
without these conditions, which the code does not keep (`TakenStaysTaken`, a
finding). `closed`, `overlapped`, `carried`,
`meant`, `shown`, `minted` and `late` are history for that.

### Definitions

Three layers, as in the code: the statements of `core/dbgen` over three tables
(with unique constraints, joins on the owner, cascades), the store's operations,
and the handlers as chains of lookups that end in one statement. The pages find
rows by id inside the project of the URL, the API finds collections by name under
the URL's slug; both are alternatives of one action where they differ only in
that. `Refuse` is every early return: not found, not readable, not valid,
conflicting. What a PATCH writes is `Merged`: what it read, overlaid with what it
was given. `overtaken` is history: fields another request has written since.
`ChangesAreAskedFor` says that a row changes, or goes, only because a request
named it or the row it falls with, and that no field changes that the request
did not give, but back to what it had read. That last case is the lost update
that the comments of PATCH exclude, and a finding (`AbsentFieldsKept`).

### Partitions and Demo

`Partitions` is one statement a step: create a month, list, detach and drop one,
by any number of instances, with months passing and the recorder writing. A run
ends at its first error, the ones PostgreSQL makes inevitable (`RunFails`) and
passing ones (`FaultyRun`). `covered` is history: the months some run was done
creating. `CoveredMonthKeepsItsRows` is about those; of a first start, when no run
has covered the month yet, `StraysOnlyAfterFailing` is, and is violated. `Demo` is `EnsureDemoProject` and the reset loop of
every instance: the transaction that creates the project holds the slug and is
seen when it commits; a reset is one step, which `Collection` shows it to be for
readers. Instances end anywhere and start again; visitors write, an operator may
delete, another project may hold the slug.

### MCServices and MCBackground

`MCServices` puts side by side the parts whose checked properties are safety
alone, `MCBackground` those that must get somewhere in the end. They are not
compositions, and their parts share no state: a behaviour chooses its part at the
start (`focus`) and only that part steps, so that a run has the sum of the parts'
states and not their product. A property of one part holds trivially in the
behaviours of another. The type invariants (`TypeOK` of `MCServices`,
`RecorderIInv`, `RouterIInv` and `BackgroundTypeOK` of `MCBackground`) are the parts'
inductive invariants, the ones the proofs are about; so is `CollectionIInv` in
`Collections`. `MCBackground` writes the parts' fairness out anew, action by action,
each guarded by its part being in focus, because a part at rest has actions that
are enabled and never taken.

### MCCollection

`OneStrategySpec` is `Collection` whose collection keeps to the strategy it was
created with, and takes its seeds from that strategy's (`SeedsOf`), so that one run
has both strategies and not every mixture of them; the proofs are about any
mixture.

## 3. Runs

Passing runs:

| Run | Instance | What it shows |
|---|---|---|
| `Collections` | 3 clients, counter up to 3, a text, 3 uuids, 2 attempts; serial with the seeds `[]`, `[1,?]`, `[slug,2]`, or uuid with one seed that works and two that `seedDocuments` refuses or panics on | the inductive invariant `CollectionIInv` (with `TypeOK` in it), `CounterPastSettled`, `ClaimedNumberIsFree`, `ImplementsDocumentSet` |
| `Background` | recorder: 3 exchanges, channel of 2, batches of 2, a database that may fail | `RecorderIInv`, `EveryLossIsCounted`, `CleanExitSettlesAll`, `ImplementsRequestLog`, `QueuedIsSettled`, `ShutdownEnds` |
| | router: 1 handler and the refresh, 2 projects with an endpoint each, 2 slugs, 2 edits, 1 failure | `RouterIInv`, `UntouchedStaysServed`, `EventuallyCurrent` |
| | partitions: 2 instances, 3 months, 1 kept, 1 ahead, 1 passing fault | `BackgroundTypeOK`, `WindowIsKept`, `CoveredMonthKeepsItsRows`, `RetentionCatchesUp` |
| | demo: 2 instances, 2 datasets, 3 mishaps | `BackgroundTypeOK`, `DemoIsWhole`, `DemoComesBack` |
| | collection: 2 clients, seed `[1]`, serial, 2 attempts | `EveryRequestAnswered` |
| `Services` | 2 requests at once in each part; limits: burst of 2, table of 1, clock to 5 | `TypeOK`, `TableBounded`, `AdmissionsBounded`, `NothingForgotten`, `RefusedForItsOwn` |
| | address: 2 strangers, 2 proxies, 3 hops kept, 2 entries claimed | `TypeOK`, `AttributedToOrigin` |
| | accounts: 2 users, 3 session tokens, 1 API token | `TypeOK`, `TokenStandsForOneVisitor`, `ClosedStaysClosed`, `SecretShownOnceToOwner`, `DeletedActsNoMore` |
| | definitions: 2 owners, 2 projects, 2 collections, 1 endpoint, 3 slugs, 3 requests | `TypeOK`, `EndpointServesItsProject`, `ChangesAreAskedFor` |
| | tail: 4 exchanges, pages of 1, polls of 2, 2 connections for a page | `TypeOK`, `PagingExactlyOnce`, `StreamInOrder` |
| | matcher: 12 rows, every subset of them in order (4096 tables), 6 methods, 17 paths, two of them with a segment spelled like a parameter | `TypeOK`, `LookupIsPrecedence`, `AllowIsTruthful`, `AddingKeepsAnswers` |

Runs that disagree with what the repository says; the findings in `PROJECT.json`
quote it:

| Run | Violated | In short |
|---|---|---|
| `CollectionSeed` | `NeverCreatedEmpty` | a seed with a repeated identifier, one that is no scalar, or the entry `null`, on which `seedDocuments` panics, passes validation and leaves a created, empty collection whose name is taken (two findings) |
| `CollectionCounter` | `CounterPointsAtNothing` | a reset between the two statements of a create leaves the counter at an identifier that exists, which the comment of its lock excludes; and the next create retries although no seed names anything, where the code explains retries by seeds (two findings) |
| `RecorderShutdown` | `LastRequestsWritten` | `stopRecorder` cancels a batch being written and its exchanges are given up |
| `LogTail` | `TailMissesNothing` | the stream of an empty page passes over rows, or polls with a cursor that never finds one; and any stream passes over rows stored behind its moving cursor (two findings) |
| `RouterTorn` | `RoutesBelongToTheProject` | a torn read serves one project's endpoints as another's |
| `Partitions` | `StraysOnlyAfterFailing` | on a first start rows are in the default partition before the first run has created a month, with no failure; that month can then not be created |
| `Address` | `NearestUnforgeable` | a header of more than `maxForwardedHops` entries is read from the wrong end |
| `Sessions` | `TakenStaysTaken` | a request that overlaps a logout stores the session back; two pages that overlap show a secret twice, and a login over a session takes it to another account (two findings) |
| `Patch` | `AbsentFieldsKept` | of two PATCHes that overlap, the later writes back old values of fields it was not given, of a project and of a collection (two findings) |

`LogTail`, `Sessions` and `Patch` have one property each for several cases, and TLC
stops at one of them; the findings say how to ask for the others.

**Bounds and why they are enough.** In `Collections`, three clients are a reset, a
create and one to disturb both (a second create for a number taken, a second reset
to overtake, an edit or a delete). In `Background`, two are enough for the
deadlock, a reset and a create, and for a reset to overtake a create until its
attempts are used up; a third client could only wait in the queue behind them. A
counter up to 3 has a number for each client and one a seed states, and a create
reaches its top and overflows. No seed of a run states the top itself: that a
reset wraps the counter is covered by the proof of `CollectionInvariant` alone.
`UuidRoom` keeps requests from starting that would run out of model uuids, of
which the program has no end. `Addressed` is the identifier that clients name in
URLs: 1, which seeds, creates and resets all fight for. For the recorder, three
exchanges fill the channel and overflow it, or make one full and one partial batch.
For the tail, four rows are enough for one below, at and beyond each cursor and a
poll that is cut. For the router, `EventuallyCurrent` needs two reloads that
install in the wrong order, the handler's and the refresh's, and `RouterTorn` one
refresh and two edits. A table of one bucket is at its cap with every second
caller, and a TTL of 4 outlasts the burst of 2 and two late requests, as
`LimitsAssumption` asks and a minute does for 20 seconds' worth. Three entries of
the header are one proxy, one mapped proxy and one entry claimed; `Address` claims
one more, so that the header that arrives is one past the limit. Three session
tokens are an old session, the one it is renewed to and a new one beside. Three
requests are two that overlap and one that moves the slug between their lookups;
the third slug is where the moved one goes. Definitions start from what owners made
before (`Populated`), which sequential requests can make; those of `Patch` start from
nothing, and the four requests are two that create and two that patch. Three
months let a run of the first be overtaken by a month that expires it; three
mishaps fail an install, a reset and a process. `MaxEdits`, `MaxFailures`,
`MaxExchanges` and `MaxConnections` bound counters in guards, never in constraints,
so liveness is not cut short. Deadlock is checked wherever the system goes on: a
process that has exited and a table that is built stutter (`Exited`, `TableBuilt`),
and only `RecorderShutdown`, where the process exits too, does without the check.
Clients and uuids are interchangeable, and so are the two requests and the two
users in `Services`: no part tells them apart. Symmetry is used in these two safety
runs and not in `Background`, which has the liveness properties.

**Fairness and why the code justifies it.** `Collection`: a request's next
statement is strongly fair because PostgreSQL queues the waiters of a lock, and a
cycle of waits is broken because it detects deadlocks; a client's decision to
start a request, and failures, are not fair. `Recorder`: a handler goes on and
ends, the goroutine runs, writes have a timeout (`DefaultRecorderWrite`, the grace
of the last flush), a shutdown that began has a deadline; arrivals and the signal
are not fair. The deadline may pass at any time (`ShutdownTimesOut`), whatever its
cause: that an open log stream is enough for it is not told apart.
`Router`: the refresh ticker, and reloads that end. `Partitions`: months pass, the
daily ticker ticks, a statement ends (they have a lock timeout). `Demo`: a process
that runs goes on and its ticker ticks; nothing restarts one that ended, and
`DemoComesBack` does not say so; nor does it speak of a reset that fails for ever,
since mishaps are bounded. `Background` grants each part its fairness only where the
part is in focus. `RetentionCatchesUp` excepts a state the code has no way out of:
rows in the default partition for a month it is to create (`Blocked`).

## 4. Proofs

TLC checks each property on the instance of its run; the theorems below hold for
every value of the constants that the named assumptions of the modules allow.
Each proof module follows one plan. The inductive invariant is a conjunction of
named parts and stands in the component's own module, where a run checks it
(`CollectionIInv`, `LimitsIInv`, ...); there is a lemma for each action, or for each group of
actions that disturb the same parts, saying that it keeps the invariant; the
properties follow from the invariant, or, for properties of steps, from it and
the step.

**`CollectionProofs`**, for any clients, seeds, texts, uuids, strategies (mixed
ones included, where the runs use one at a time), attempts and width of the
counter, under the named assumptions of `Collection` (identifiers of different
kinds are different, markers are not identifiers, seeds are sequences of entries,
the counter and the attempts are at least 1):

| Theorem | States |
|---|---|
| `CollectionInvariant` | `Spec => []CollectionIInv` |
| `TypeCorrect` | `Spec => []TypeOK` |
| `CounterSafe` | `Spec => []CounterPastSettled` |
| `ClaimsSafe` | `Spec => []ClaimedNumberIsFree` |
| `Refinement` | `Spec => ImplementsDocumentSet` |
| `LoopAllocates` | for any seed, what the loop of `allocateSeedID` gives its open entries is the one set `AllocateSeedID` describes |

`CounterPastSettled` is not inductive: that a create settles only numbers below
the counter needs that what it carries was handed out since the last reset
(`ClaimedNumberIsFree`), and the other way round. A reset's commit restores
exactly the seed only because what it deleted is still all there is when it
commits (`ClearedIsAll`), which holds because creates are kept out by its lock
(`LockHeldByReset`) and because what it is to insert still follows from the row
nobody could edit meanwhile (`PendingSeedsRow`). That a create's commit is an
`Add` of the abstract set needs that its index entry is unique
(`EntriesAreUnique`).

The numbers a reset gives are defined in one step (`AllocateSeedID`: the lowest free
ones, as many as are asked for) where the code counts. `CountingStarts` and
`CountingGoesOn` follow the code's counter, call by call (`CountedTo`), and
`LoopAllocates` says that where it ends, as long as the numbers fit the counter,
is the set the definition describes and the only one (`AllocationIsOne`).

**`RecorderProofs`**, for any number of exchanges, channel and batch:

| Theorem | States |
|---|---|
| `RecorderInvariant` | `RecorderSpec => []RecorderIInv` |
| `TypeCorrect` | `RecorderSpec => [](RecorderTypeOK /\ BatchBounded)` |
| `LossesCounted` | `RecorderSpec => []EveryLossIsCounted` |
| `CleanExit` | `RecorderSpec => []CleanExitSettlesAll` |
| `Refinement` | `RecorderSpec => ImplementsRequestLog` |

Sequences of exchanges are counted by their elements, which needs that nothing is
in the channel or the batch twice, nor in both (`HeldOnce`). That a flush is a
`Settle` needs that there is something in the batch (`BatchAtWork`); the batch has
its bound in the loop and none in the drain (`BatchBounded`); that a clean
exit leaves nothing needs that after `Shutdown` no handler is left to record, and
that the drain ended with the channel empty and it stayed so (`SettledInOrder`).

**`RouterProofs`**, for any handlers, projects, endpoints, slugs, edits and
failures:

| Theorem | States |
|---|---|
| `RouterInvariant` | `RouterSpec => []RouterIInv` |
| `RouterTypeCorrect` | `RouterSpec => []RouterTypeOK` |
| `UntouchedServed` | `RouterSpec => []UntouchedStaysServed` |

A table is installed from reads that may be arbitrarily old. What makes it serve
the untouched projects is that each read, by whatever caller and however long
ago, already served them and goes on serving them whatever is edited meanwhile
(`ProjectsReadServe`, `EndpointsReadServe`), because an edit of a project takes it
from the untouched, and a slug has one holder at a time.

**`MatcherProofs`**, for any rows in the query's order, any segments, methods and
paths, under the named assumptions of `Matcher` (the marker is no segment, `{id}`
is a parameter, the methods include the six the code names):

| Theorem | States |
|---|---|
| `InvIsInductive` | `MatcherSpec => []MatcherIInv` |
| `PrecedenceHolds` | `MatcherSpec => []LookupIsPrecedence` |
| `AllowHolds` | `MatcherSpec => []AllowIsTruthful` |
| `AnswersAreKept` | `MatcherSpec => AddingKeepsAnswers` |

What the trie holds is a function of the routes read: its nodes are the beginnings
of their patterns (`NodesArePatterns`), and at a pattern's own node is, for each
verb, the route of the first row that has it (`RoutesAreTheirNodes`,
`FirstIsServed`). The search is then judged by what is served at the end of the
path only. A node's answer is good (`Good`) if it is the route that precedes all
others that fit the rest of the path from there, with the rest's values, or else
the verbs of all that fit. That holds where the path ends (`ArriveIsGood`) and, if
it holds for both children, for the node: every route below the literal child
precedes every route below the parameter's, whatever the verbs
(`InTurnIsGood`). Descent stands in for induction: among the nodes where the
answer were not good, a deepest one (`LeastOf`, on what is left of the path) has
good children, and is good after all (`SearchIsGood`). In the same way the
recursive functions of the model are shown to be what their equations say
(`InsertedStepByStep`, `SearchStepByStep`). That `Allow` tells the truth is then the
precedence, read for each verb it lists, `HEAD` included; and that a row added
takes no answer away is that precedence is strict (`PrecedenceIsStrict`), so that
the route from before, which still fits, can only yield to a new one.

**`BackgroundProofs`**, for any number of exchanges, sizes of a page and a poll,
connections; any instances, months, retention (`keepMonths` below the minimum
included), lookahead and faults; any datasets and mishaps:

| Theorem | States |
|---|---|
| `TailInvariant` | `TailSpec => []TailIInv` |
| `PagesExactlyOnce` | `TailSpec => []PagingExactlyOnce` |
| `StreamOrdered` | `TailSpec => []StreamInOrder` |
| `PartitionsInvariant` | `PartitionsSpec => []PartitionsIInv` |
| `WindowKept` | `PartitionsSpec => WindowIsKept` |
| `CoveredKeepsItsRows` | `PartitionsSpec => CoveredMonthKeepsItsRows` |
| `DemoInvariant` | `DemoSpec => []DemoIInv` |
| `DemoWhole` | `DemoSpec => []DemoIsWhole` |

A walk goes strictly down the log and stays above the cursor of its Older link,
and of what was there when it began only what lies below that cursor is still to
come (`WalkGoesDown`); a stream's cursor is never behind what it sent nor behind
its page (`CursorLeads`). Both rest on what the two statements return: the first
rows in order, everything else beyond each of them (`FirstAscending`, `PageIs`).
That any set of rows can be put in order is induction over its size, which the
library's induction theorems cannot give here, since they take a predicate for a
parameter. `LeastOf`, that a set of natural numbers that is not empty has a least
one, takes its place: it follows from the library's fact that the order of the
numbers is well-founded, and a smallest set that could not be ordered is then
taken apart (`RowsAreOrderable`).

A run of the partitions drops what it listed as expired, measured from the month
it began in; no month gets younger, so that is still expired when it is dropped
(`RunsAreOfTheirMonth`). A month some run was done creating is there until it
expires (`CoveredIsThere`). The demo is whole because one transaction at a time
holds its slug, and none goes on after a dataset that failed (`OneInstalls`),
starting from nothing (`NothingBefore`).

**`RateLimitsProofs`**, for any handlers, addresses, slugs, credentials, burst,
cap and clock, with a TTL of at least `Burst + 2 * MaxLag`
(`LimitsAssumption`; in the code a minute against at most 20 seconds' worth of
burst, and a wait for a lock that is held for a few map operations):

| Theorem | States |
|---|---|
| `LimitsInvariant` | `LimitsSpec => []LimitsIInv` |
| `LimitsTypeCorrect` | `LimitsSpec => []LimitsTypeOK` |
| `TablesBounded` | `LimitsSpec => []TableBounded` |
| `NoMoreThanAllowed` | `LimitsSpec => []AdmissionsBounded` |
| `OnlyFullBucketsForgotten` | `LimitsSpec => NothingForgotten` |
| `RefusalsAreOnesOwn` | `LimitsSpec => RefusedForItsOwn` |

A bucket accounts for all its caller was ever let through: what it holds and what
was taken from it is at least a burst, and no more than came in
(`BucketAccounts`); a caller without one was either never let through or has
waited long enough to be given a full one (`MayHaveFull`). The rest is that what a
sweep forgets is full for every request still under way, which is what the TTL is
for.

Of `ClientAddress`, in the same module, for any machines, any length of the route
and of what strangers claim; `AttributedToOrigin` itself speaks of headers that
arrive with at most `MaxForwardedHops` entries, as it must:

| Theorem | States |
|---|---|
| `AddressInvariant` | `AddressSpec => []AddressIInv` |
| `AttributedCorrectly` | `AddressSpec => []AttributedToOrigin` |

The header names the machine to be found, and behind it none but our proxies
(`OnlyOursSince`); the walk from the right stops exactly there.

**`AccountsProofs`**, for any users, finitely many concurrent requests and session
tokens, any API tokens. Both sets are finite because `RoomForSids` counts them: the
model starts a request only while there is a session token it could be given, and
the code, whose tokens are random, never runs out:

| Theorem | States |
|---|---|
| `AccountsInvariant` | `AccountsSpec => []AccountsIInv` |
| `AccountsTypeCorrect` | `AccountsSpec => []AccountsTypeOK` |
| `OneVisitorPerToken` | `AccountsSpec => []TokenStandsForOneVisitor` |
| `NoSessionReturns` | `AccountsSpec => []ClosedStaysClosed` |
| `SecretsAreTheOwners` | `AccountsSpec => []SecretShownOnceToOwner` |
| `DeletedStop` | `AccountsSpec => []DeletedActsNoMore` |

Every copy of a session is of the visitor its token stands for, or is the first
under a token nobody else has (`CopiesAreTheSessions`); a closed session has no
copy left to bring it back (`ClosedIsForgotten`). The path of a secret, from its
minting through copies and the stored row to the page, is followed by
`NotBeforeMinted`, `WithItsOwner`, `InOnePlace` and `GoneOnceShown`: as long as no
two requests shared the session it is in one copy and the row that copy is of,
and once it was shown it is in no copy, and in a row only until the request that
showed it stores its own.

**`DefinitionsProofs`**, for any owners, projects, collections, endpoints, slugs,
names, routes and requests:

| Theorem | States |
|---|---|
| `DefinitionsInvariant` | `DefinitionsSpec => []DefinitionsIInv` |
| `DefinitionsTypeCorrect` | `DefinitionsSpec => []DefinitionsTypeOK` |
| `EndpointsServeTheirProject` | `DefinitionsSpec => []EndpointServesItsProject` |
| `ChangesAskedFor` | `DefinitionsSpec => ChangesAreAskedFor` |

Of a row a request has read and not yet written, all is as it was read but what
others have written since (`StaleOnlyWhereOvertaken`): an id is never used again,
and each write marks what it overtook. With that, what a merge puts back is
either what is there or what was overtaken.

**What the attempts to prove found in the model.**

- A bound on admissions of a burst and a fixed excess for each clearing of the
  table was false as soon as a table has room for two: a clearing can hand a late
  request a full bucket and be set back by it. `Allowance` states what a clearing
  can cost.
- `CoveredMonthKeepsItsRows` was stated over the last month creation had reached,
  and is false so for a retention of two months or more: after an outage, runs
  skip the months they missed. It is stated over the months created (`covered`).
- The type of a header bounded its length by `MaxForwardedHops`, which a claimed
  header exceeds; it is a header of any length.
- `SecretShownOnceToOwner` now says of every token whom it was shown to; before,
  it said so only of tokens whose requests had not overlapped.
- The trie marked the child of parameters with the string `{}`, and a request's
  segment can be that string: a search for it would have gone down the parameter's
  child as if it were literal, which the code, with a field of its own for that
  child, never does. The marker is now a constant outside the segments.
- What the trie holds was stated in one direction only (every route is at its
  node); the search needs the other as well, that there is no node and no route
  but for a pattern read.
- The order of rows was taken from a library's sort, which has no definition that
  the prover can expand; `Ascending` is defined by what the statements order by.

**Only model-checked.** Liveness (`EveryRequestAnswered`, `QueuedIsSettled`,
`ShutdownEnds`, `RetentionCatchesUp`, `DemoComesBack`, `EventuallyCurrent`): fairness
and `ENABLED` are beyond the prover. That parts put side by side behave as each does
alone (`MCServices`, `MCBackground`): the theorems are about each part by itself,
and the definitions of the runs use TLC's `:>` and `@@`, which the prover does not
expand.

## 5. Plan

1. **Collection**, with its proofs — done.
2. **Recorder**, **LogTail** over **RequestLog** — modelled, checked, proved.
3. **Router**, **Matcher** — modelled, checked, proved.
4. **RateLimits**, **ClientAddress**, **Accounts**, **Definitions**,
   **Partitions**, **Demo** — modelled, checked, proved.

## 6. Not modelled

- **What a request or an answer holds.** Document bodies and the identifier field's
  name, filters and sorting, what an exchange records, what makes a field valid,
  the text of a refusal. A property over them would restate the code that formats
  them. One hazard is lost with it: a renamed identifier field between the two
  statements of a PUT (`core/document.go:409`).
- **Reads for a page.** Listings, the page of one exchange, the log's API, the
  suggestions of a 404: they change nothing, and where two reads belong together
  (the log's pages, a listing and its total, the two reads of a reload) they are
  in.
- **The middleware around all routes.** Recovery, the access log, metrics,
  security headers, the body limit. A handler that panics is served a 500 and is
  in no log (`web/recording.go:55`): the handlers of `Recorder` do not panic.
- **Libraries.** PostgreSQL, scs, `x/time/rate` and `net/http` are modelled by
  what the code uses of them and marked external; bcrypt, CSRF tokens and digests
  are right or wrong.
- **Set-up.** Configuration, migrations, opening the pool.
- **The idle timeout of sessions** and retention under an open page of the log.
