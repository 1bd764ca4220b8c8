# A TLA+ model of flagstate

flagstate keeps a PostgreSQL database of the images in a docker/distribution
registry and serves queries about them. This directory holds TLA+
specifications of its concurrent core and of its queries, the TLC models that
check them, and proofs of the safety of the concurrent core and of `DoQuery`,
checked by TLAPS.

    tlc -workers 2 -config RepoDispatcher.cfg MCRepoDispatcher
    tlapm RepoDispatcherProofs.tla

`PROJECT.json` lists the runs, the source lines behind every definition, the
mutants that show that each property can fail, the hazards and the theorems.

## 1. The system

| Component | State | Operations | Talks to |
|---|---|---|---|
| Repository dispatcher `util/repodispatcher.go` | a map of repositories with three flags, two ready maps, a count, a lock flag, two condition variables | `Add`, `Take`, `Release`, `Lock`, `Unlock` | called by the request loop and 5 workers |
| Change broadcaster `util/changebroadcaster.go` | a serial, a slice of channels | `Change`, `LastChange`, `Wait`, `WaitTimeout` | called by workers and by `/assert` |
| Request loop `fetcher/fetcher.go` (`dispatch`, `fetchAll`, `garbageCollect`) | a channel of 100 requests, the state of a scan | receive a request, scan, collect | dispatcher, registry catalog, database |
| Synchronisation of a repository (`fetchRepository`) | what was read from the registry, an open transaction | read the tags, compare, store, tag, delete, commit | registry, database, broadcaster |
| Database `database/postgres.go`, `schema.sql` | five tables and a modification time | transactions, statements, two queries | PostgreSQL |
| Query builder `database/wherebuilder.go` | none | `makeWhereClause`, `flatten`, `likePattern` | used by the queries |
| `/events` `web/events.go` | none | a webhook becomes a request | request loop |
| `/assert` `web/assert.go` | the last change seen, a deadline | query, check, wait, reply | database, broadcaster |
| `/index`, home page `web/index.go`, `home.go`, `httputil.go` | none (entity tags come from the database) | revalidate, query, reply | database |
| Start-up and timers `cmd/flagstate/main.go` | two tickers | `FetchAll`, `GarbageCollect` | request loop |

How they interact. Webhooks, two timers and `fetchAll` itself send requests to
one channel. One goroutine, `dispatch`, receives them; it adds repositories to
the dispatcher and runs scans and collections itself, inside the dispatcher's
lock, which drains the pool. Five workers take repositories from the
dispatcher, each with a transaction of its own. A worker that changed something
announces it to the broadcaster, which wakes handlers of `/assert`. The handlers
of all pages, and the workers, read the database through one function, `DoQuery`.
The database is the only thing that outlives the process: `main` opens it again
and begins with a scan.

What is hard. Condition variables whose signals are conditional; a lock that
drains a pool; a channel that is sent to by its own receiver; pages of a catalog
that moves; tags that move while they are read; transactions of several workers
that touch the same rows; garbage collection beside them; a broadcast that only
reaches those who already listen; a tag for caches that must move with the data;
two statements that see two states of the tables and are merged as if both were
sorted; conditions assembled as text; a process that stops in the middle of any
of this. The list of hazards, each at its line, is in `PROJECT.json`.

What correctness means, per component:

- dispatcher: no request is lost, no repository is fetched twice at once, the
  lock excludes the workers, nobody sleeps beside work;
- broadcaster: the list of waiters is exact, an answer is news, a timed wait
  ends, and a change ends a wait;
- request loop: no request is lost on the way, a scan sees what stays, a scan
  ends, the database catches up and forgets what vanished;
- synchronisation and database: once nothing is under way the database has the
  registry's tags; references hold; lists are complete; collection is invisible;
  transactions do not hang; a restart finds sound tables and makes up for what
  was lost;
- queries: the condition selects what was asked for; what stays in the database
  is shown and what is shown was there;
- `/assert`: no change slips between query and wait; an assertion is answered
  with the truth; every request is answered;
- `/index`: "not modified" is true; conditional headers are read by their grammar.

## 2. The modules

    WorkQueue            what the dispatcher promises (abstract)
      ^ refined by
    RepoDispatcher       util/repodispatcher.go
      MCRepoDispatcher, RepoDispatcherProofs
    Postgres             tables and statements as operators
    RepoSync             fetchRepository and garbageCollect
      EXTENDS Postgres, composed with WorkQueue;  MCRepoSync,
      RepoSyncProofs (the tables), RepoSyncedProofs (the tags)
    FetchLoop            dispatch, fetchAll, timers, webhooks
      composed with WorkQueue;  MCFetchLoop, FetchLoopProofs
    ChangeBroadcaster    util/changebroadcaster.go;  ChangeBroadcasterProofs
    Freshness            workers + ChangeBroadcaster + handlers of /assert
      INSTANCE ChangeBroadcaster;  FreshnessProofs
    IndexCache           transactions' modify flag + entity tags
    WhereBuilder         database/wherebuilder.go: a Query as an SQL condition
    IfMatch              ParseIfMatch of web/httputil.go
    JsonAssert           jsonContains and checkAssertions of web/assert.go
    DoQuery              DoQuery of database/postgres.go, step by step
      EXTENDS Postgres;  DoQueryProofs
      ^ refined by
    WebQuery             a request from its parameters to its answer
      EXTENDS DoQuery, WhereBuilder, IfMatch, JsonAssert;  MCWebQuery

**RepoDispatcher.** A flag of `repoInfo` is the set of repositories that have it
set; the ready maps are sets; the two condition variables are the set `asleep`
and the place of the `locker`. Every method runs under the mutex, so `Add`,
`Release` and `Unlock` are one action each, `Take` is `TakeRepo` or `TakeWait`,
and `Lock` is `Lock` up to its first wait and `LockWake` after a signal. A worker
that was signalled and one that calls `Take` do the same next and are one state.
There is one user of `Lock`, as in the code (`dispatch`).

**WorkQueue.** The dispatcher without maps, count and condition variables:
urgent and background requests, busy repositories, an exclusive section.
`RepoSync` and `FetchLoop` are composed with it, so they do not repeat the
dispatcher's details; `RefinesWorkQueue` is what justifies this.

**ChangeBroadcaster.** A wait is split at the points where the code does not
hold the mutex: registered, parked in the receive, past it. The send of `Change`
succeeds for a parked receiver only, because the channel is unbuffered and the
`select` has a `default`.

**Postgres and RepoSync.** `Postgres` has the statements as operators on table
contents, the two queries with the conditions they really have included.
`RepoSync` runs them in READ COMMITTED transactions: the rows an open
transaction has inserted are in its `op` record and reach `db` at the commit;
an insert of a row that another open transaction has inserted waits for it; a
circle of waits is ended by PostgreSQL. Reading the registry takes one action
per call, so tags move in between. Tag rows of a repository are written only by
the worker that holds it, so its transaction keeps the whole row set of the
repository. The primary keys on (repository, tag), the cascade of `listEntry`
and the references between tables are kept. A digest stands for its manifest.
`Restart` is a process that stops anywhere and starts again: open transactions
are gone, committed tables stay, everything in memory is as at the start.
A manifest list may be empty. It has no entries then, and the inner join of the
list query drops it: the fetcher stores it again on every visit and cannot remove
its tag. The properties therefore leave the rows of empty lists out
(`StoredRows`, `Known`), and the empty list is part of the model so that its
row is seen to do no harm to the others. `StoredRows` is about the rows of one
repository in the tag tables, not about what a query shows for it: with shared
digests a query also shows, on a digest of the repository, the tags that other
repositories have on it (`shownTags` in `DoQuery`), so a tag deleted from one
repository may still be shown there. With digests of its own the two agree.
`CollectionIsInvisible` contradicts the letter of the comment at
`postgres.go:483` ("changes here aren't really changes - they affect the data we
return from a query"), which is evidently meant to say "they do not affect".

**FetchLoop.** A repository is reduced to a version, 0 when it does not exist.
The channel is a sequence with a capacity; a send is enabled while there is
room. `fetchAll` takes one action per page, one for `DeleteMissingRepos`, one
per request it sends. `Restart` empties the channel, the dispatcher and the scan,
and the scan with which `main` begins follows. The timers tick at any moment,
and the theorems hold for that; the runs assume slow timers (section 3).

**Freshness.** Instances the whole `ChangeBroadcaster` and adds the order
"change the data, call `Change`, commit" of the fetcher and the loop of the
`/assert` handler. The data is the number of commits. Since `Change` is called
before the commit, a handler that it wakes can query too early; the history
variable `racing` counts the transactions that were in this window when a handler
queried, and `MissesOnlyRacing` says that a handler which goes back to wait misses
no more than these. `RetriesOnlyOnNews` says that a handler queries again only when
there is a new serial, which with the bound on changes is why its loop ends.

**IndexCache.** The value receiver of `exec` is kept: the flag of the
transaction does not change. The tag is read before the data, as in the handlers.

**WhereBuilder.** A `Query` is a sequence of terms per field and per annotation or
label. The clause is a sequence of pieces (a column, a comparison, `AND`, `OR`,
parentheses, `$n`), put together in the order in which the code concatenates and
numbers its arguments; `whereClauses` is the set of clauses for all orders in
which Go may range over a map. `holds` evaluates such a clause as PostgreSQL does
(external): it splits at the top-level connectives and looks the argument up, so
a wrong number or a missing parenthesis shows. A comparison with NULL counts as
false, which makes no difference without negation. `Selects` is the reference: what
the terms mean, with globs matched by a definition that knows nothing of `LIKE`.
Strings are sequences of symbols, because `likePattern` rewrites symbols; a
backslash in a glob is left out.

**IfMatch.** `ParseIfMatch` is the scanner, symbol by symbol. `Readings` is
the grammar of the header, stated without a scanner.

**JsonAssert.** JSON documents as records with a type; `jsonContains` as it
recurses; `checkAssertions` with its error for an unknown type.

**DoQuery.** The condition of a query is the set of joined rows that satisfy it.
Each statement sees the tables that are committed when it starts, and others may
commit at any moment. The loops over the rows and the loop of the merge take
a step per round (`ScanImage`, `ScanList`, `MergeBoth`, `MergeImage`, `MergeList`),
so that the module needs no recursion and can be proved about: loop invariants
take the place of induction. Rows of the image query come grouped by repository,
in the order of an unknown collation, rows of the list query in any order.
`BreakOff` is a statement that fails after some of its rows: `Next` returns false
as at the end, the loops do not ask for `rows.Err()`, and only the failure of
the next statement or of the commit keeps the part from being taken for the whole
(`broken`). `during` is the history of the tables while `DoQuery` runs, which is
what the properties relate the answer to. `FetcherSeesTables` is what `RepoSync`
assumes of the query by repository.

**WebQuery.** One request at a time: it only reads, so several do not
interact. The inputs are chosen where the code first looks at them: the
values of `If-None-Match`, then the form (whose keys come in any order), or
assertions, or a query built by calls as in the fetcher. The first status that is
written counts, as in `net/http`: the handler of `/assert` answers a timeout that
it cannot parse with 400 and goes on. `DoQuery` is the module above, with the
condition that `WhereBuilder` assembles anew for each statement; what is asked for
(`wanted`) is stated without it, by `FormSelects` and `Selects`.
`RefinesDoQuery`, that `WebSpec` implements the specification of `DoQuery`, says
that the two agree, so that what is proved of `DoQuery` holds for every request.

## 3. The runs

| Run | What it shows | Bounds |
|---|---|---|
| `RepoDispatcher` | the dispatcher's invariants, the refinement of `WorkQueue`, `Lock` returns, every request is taken | 3 repositories, 3 workers, 6 calls of `Add`, 2 of `Lock` |
| `ChangeBroadcaster` | exact waiters, answers are news, `WaitTimeout` returns | 3 callers (so that a removal moves a channel past another), 2 changes |
| `ChangeBroadcasterLost` (violation) | a change is lost before the receive | 1 caller, 1 change |
| `RepoSyncOwn` | with nothing under way, database = registry; scans make up for what is lost | 2 repositories, 2 tags, 3 images, a list, a list without manifests, an ignored manifest, 2 changes, 1 failure or restart |
| `RepoSyncShared` | references, complete lists, open transactions, no stale row, collection is invisible, fetches end despite opposite insert orders | 2 repositories, 1 tag, two lists of the same two images in opposite orders, 3 changes: stored in one repository, untagged there, stored in the other |
| `RepoSyncLeak` (violation) | tags of another repository hide a missing tag | 1 image, 2 repositories, 2 tags, 3 changes |
| `FetchLoop` | paging misses nothing, no request lost, with slow timers scans end and the database catches up | 2 repositories that come, go and change, pages of 1, 1 change, 1 failure or restart, channel of 4: room for all outstanding requests |
| `FetchLoopFull` (violation) | a scan blocks in its own send | 3 repositories, channel of 2 |
| `FetchLoopVanished` (violation) | a vanished repository is never forgotten | 1 repository |
| `Freshness` | no announced change slips past a handler, a waiting handler misses only what was not committed when it queried, a retry has a reason, `/assert` answers | 2 handlers, 2 workers, 3 changes |
| `IndexCacheStale` (violation) | 304 for stale data | 1 worker, 1 client |
| `WebQuery` | the assembled conditions select what is asked for (refinement of `DoQuery`), what stays is shown, what is shown was there and was asked for, one entry per repository if both statements keep the order, the fetcher sees what the tables have, truthful assertions, exact conditional requests | 2 repositories, 2 tags, 2 images, 2 lists, 4 contents of the tables and a commit at any moment of a query, a header of up to 4 of 7 symbols or up to 3 shorter ones, forms of up to 2 keys, 216 queries, up to 2 assertions |

The calls of `Add` and `Lock` need a budget only for liveness: a caller that
never stops can starve a low priority repository, which the code allows. The
safety properties of the dispatcher hold without it (section 4).

Why the bounds are enough. The interesting cases are races of two actors over
one item with a third that disturbs them: two repositories that share a digest,
two waiters and a removal, a push during a fetch, a channel that is full or
has room. Changes and failures are budgets of the MC modules, so the components
themselves stay unbounded; the code's 100 (channel, page) and 5 (workers) are
parameters whose ratio to the number of repositories is what matters.

What `DoQuery` and `WebQuery` say of the answers, and what they do not. An
answer may be of two moments, because a commit can come between the two
statements: a repository that trades its lists for images meanwhile can be
missing altogether. The merge expects both results in the order of Go's `<`; the
list query asks for no order and the image query for that of the collation, and
then a repository can appear twice. Nothing documented is contradicted, so these
are conditions in `OneEntryPerRepository` and `AssertionsTruthful`, while
`StableShown`, `ShownWasThere` and `FetcherSeesTables` hold without them. The tags
shown with a digest are those of all repositories, and `ShownWasThere` says no
more of them than that they were on the digest somewhere. Forms with several values
for one annotation, with `label:` keys, or with `:matches` of an annotation
other than "1" are misread by `/index` in ways that no document describes; the
meaning of a form is stated for the others (`IsPlain`), and for these only that
the answer fits the query that was made.

Deadlock is checked except where the system really may come to rest: a pool with
all workers asleep and the budget of calls used up, callers with nothing to wait
for, handlers without requests, or a scan stuck in its own send.

Fairness. Goroutines that can run eventually run (weak fairness). Calls to the
registry and to the database return; the code sets no deadline, so this is an
assumption about the environment, listed among the hazards. The timer
of `fetch_all` keeps ticking (`SlowTickFetchAll`). Strong fairness is assumed for a worker's `Take`
and for `Lock` in the composed models: `LockGranted` and `EveryRequestTaken`,
checked of the detailed dispatcher under weak fairness, are the reason.
Nobody is obliged to push, to call `Change`, to call `Lock` or to ask. In the
runs of `FetchLoop` the next tick of `fetch_all` comes after the requests of the
previous scan were received, as the default interval of an hour suggests;
`startTimers` does not enforce it, and with ticks at any moment the channel fills
up as in `FetchLoopFull`. `ScanEnds` and `EventuallyStored` rest on this assumption
of `MCFetchLoop`; the safety properties do not (section 4).

The five violations are disagreements between the code and its tests, comments
or documentation; `PROJECT.json` quotes the lines:
the dropped change, the tag query that ignores the repository, the scan that
blocks on its own channel, the deletion from a table that does not exist, and
the modification time that never moves.

## 4. What is proved

Each theorem holds for every value of the constants that the assumptions of the
module allow, and for the components without the budgets of the MC modules. Each
proof follows one scheme: an inductive invariant, a lemma per action that it is
preserved, a lemma `InvStep` (or its like) that combines them, and theorems that
follow from the invariant.

| Module | Proved of the runs' properties | For every |
|---|---|---|
| `RepoDispatcherProofs` | `TypeOK`, `ReadyMapsAgree`, `OneWorkerPerRepo`, `LockExcludesWorkers`, `NoLostWakeup`, `LockerNotForgotten`, `RefinesWorkQueue` | set of repositories, finite set of workers |
| `ChangeBroadcasterProofs` | `TypeOK`, `WaitersAreWaiting`, `SuccessIsNews` | set of callers, bound on the serial (`SerialAssumption`) |
| `FreshnessProofs` | `TypeOK`, `WaiterSawPublished`, `MissesOnlyRacing`, `RetriesOnlyOnNews`; and `Spec => Broadcaster!Spec` | set of handlers, finite set of workers, bound on the serial (`FreshnessAssumption`) |
| `FetchLoopProofs` | `TypeOK`, `PagingMissesNothing`, `NoRequestLost`; and that scans run alone | number of repositories and versions, capacity and page size of at least 1 (`LoopAssumption`) |
| `RepoSyncProofs` | `TypeOK`, `ForeignKeys`, `ListsComplete`, `OpenTransactionsSound`, `CollectionIsInvisible` | repositories, tags, images, lists and contents (`ContentsAssumption`), disjoint kinds of digests (`DigestAssumption`) |
| `RepoSyncedProofs` | `NothingStale`; `QuietMeansSynced` if no digest is in two repositories | the same |
| `DoQueryProofs` | `TypeOK`, `StableShown`, `ShownWasThere`, `OneEntryPerRepository`, `FetcherSeesTables`; and that an answer is exactly that of two moments | repositories in any total order, tables, conditions, rows in any order, number of commits during a query (`QueryAssumption`) |

**RepoDispatcher.** None of the invariants is inductive alone. `DispatcherInv`
conjoins them with `LockState` (the lock flag follows the place of the locker,
an owner has an empty pool and a waiting locker a non-empty one),
`SleepersHoldNothing` and `ReadyFinite`. `NoLostWakeup` is the hard part: a
`Signal` must add an awake worker whenever a repository becomes ready beside a
sleeping one, which needs `ReadyMapsAgree` to know that `Add` with the flag
already set adds nothing to the ready maps, and cardinality arguments for `Take`
(one less ready, one less awake) and for `TakeWait` (which happens only when
nothing is ready). `OneWorkerPerRepo` is needed for `Release`: with one holder
less the count goes down by one and exactly one repository stops being pending.
The refinement maps each method to the abstract operation of its caller and the
waits and wakeups to stuttering; `LockExcludesWorkers` and `ReadyMapsAgree` are
what it needs from the invariant.

**ChangeBroadcaster.** `BroadcasterInv` adds `NothingFromTheFuture`: without it a
receiver could hold a serial that is not new, or one not yet reached. The slice
is the hard part: `ReplaceByLast` shows that overwriting an element by the last
one and cutting the slice removes this element and no other, which is true only
because the slice has no channel twice, so that `WaitersAreWaiting` says both.

**Freshness.** The composition is first shown to use the broadcaster by its own
operations only (`BroadcasterStep`), so `BroadcasterInv` is taken over from the
proof above instead of being proved again. `MissesOnlyRacing` is not inductive:
an announced transaction that commits while a handler waits adds to what it
misses. `WillMissOnlyRacing` counts such transactions in advance: what is
missing plus the number of announced transactions is at most `racing`. A commit
moves one from the second summand to the first, a new announcement gives the
handler a new serial, and a query sets `racing` to exactly that number.

**FetchLoop.** `PagingMissesNothing` speaks of the end of a scan; `PagesSawSteady`
says of each moment that the steady repositories up to `last` were read, and a
page extends it because a page has the next repositories in order, to its
maximum (`MaxOfBounded`). `NoRequestLost` is not inductive either, because a
fetch that read an old version will overwrite the database with it:
`StoredOrRequested` looks at the version that will be stored. `LoopState` is
needed for restarts and for the exclusion of scans and fetches.

**RepoSync, the tables.** `SyncInv` relates each open transaction to the
committed tables: the rows it refers to are committed or its own (`RowsExist`),
its unfinished lists have all entries but the ones still to be inserted
(`OpenListsComplete`), and no two transactions inserted the same list
(`ListsApart`; without it a commit could merge half a list with a whole one).
With these a commit preserves `ForeignKeys` and `ListsComplete`. Collection
preserves `RowsExist` only because no fetch is in progress then
(`exclusive => busy = {}`): this is the place where the dispatcher's lock is
needed.

**RepoSync, the tags.** `CurrentInv` is proved on top of `SyncInv`. `HasRead`: what
a fetch read is what the registry has, or the repository is pending again.
`Planned`: each row of the transaction that was not read will be removed by
the work that is left, and each that was read and is missing will be added.
`PlanRemoves` and `PlanAdds` show that the comparison with the database makes
such a plan, `SettleStep` that each statement keeps it. At the commit no work is
left and the rows agree. Removal needs no condition, which gives `NothingStale`
(theorem `NothingStaleStored`), for the rows that the queries of a fetch can
return, which are all but those of empty lists. The run has one tag, the theorem
any number: with two, the comparison of tags of several repositories decides.
Addition needs `OwnDigests`: the tag query ignores the repository, so a tag of
another repository with the same digest passes for present. The theorem
`OwnDigestsSynced` has this as its hypothesis, `RepoSyncOwn` is an instance
that satisfies it, and `RepoSyncLeak` shows that it cannot be dropped.

The strengthened invariants of both modules were checked with TLC on the
instances of the three `RepoSync` runs before they were proved.

**DoQuery.** The five properties speak of the end; `QueryInv` says of each moment
what the loops have done. `ImagesRead` and `ListsRead`: there is a state of the
tables during the query such that what a statement has returned, together with
the rows still to come, is what the statement finds in it, or only a part of it
once the statement broke off; a round of the loop moves a row from one side
to the other (`AddRow`), and a later commit does not disturb it, because `during`
only grows. `Merged`: the answer shows what the two results show before the
positions `i` and `j`, and nothing else; this needs `KindsApart`, since `MergeBoth`
overwrites the lists of the image entry, which is no loss only because it has
none. `Phases` says that a broken transaction never gets to "done". Together
they give `AnswerOfTwoMoments`, that an answer is exactly what the two
statements find at two moments of the query, from which `StableShown` and
`ShownWasThere` follow. `MergedInOrder` (what is merged is sorted and comes before
what is not, if both inputs are sorted) gives `OneEntryPerRepository` with the
laws of a strict order (`StrictOrder`). `NamesWanted` and `IsGrouped` show
that the results of a query by one repository have one entry each, so they are
sorted whatever the collation, and `FetcherSeesTables` follows without a condition
on the order. `QueryInv` was checked with TLC on a small instance first.

Only model-checked:

- liveness under fairness (`LockGranted`, `EveryRequestTaken`, `TimedWaitReturns`,
  `FetchesEnd`, `EventuallySynced`, `ScanEnds`, `EventuallyStored`,
  `AssertReturns`), which the prover does not handle;
- `RefinesDoQuery`, `AssertionsTruthful` and `ConditionalExact` of `WebQuery`:
  `WhereBuilder`, `IfMatch` and `JsonAssert` are recursive over their input, and
  what a recursion computes for every input is an induction that the prover
  cannot do;
- the violations, which are counterexamples.

## 5. Not modelled, and what is next

Not modelled: routing, templates, configuration, version, the data types with
their accessors, `SetCacheControl`, the test environment and vendored code (no
state of the service's own and no choice that a property could be about). The
registry and PostgreSQL appear as environments, as the code uses them. Four
hazards have no property: calls to the registry without a deadline (the
environment decides), the misread forms above (nothing says what they
should mean), the row that an empty list leaves behind (nothing says what such a
list should be) and the connections of the pool (resources outside the tables).

What is left out of the proofs is the reading of texts: that an assembled
condition selects what a query means, that `ParseIfMatch` reads the grammar and
that `jsonContains` is containment. `WebQuery` checks these on bounded inputs.
