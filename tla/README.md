# Verification of meta-network-backend

TLA+ models of the NestJS backend that lets users occupy cells of a hexagonal map,
keeps the occupied grids in step with two other services, and archives them on
Arweave. TLC checks the models on small instances; TLAPS proves the main safety
properties for instances of any size. `PROJECT.json` lists the runs, the theorems,
the hazards, the findings, and for every definition the lines it models.

File names below are relative to `src/src/` of the repository.

## 1. The system

One Node process (or several: nothing in the code counts on one) over a MySQL
database. JavaScript runs one piece of code at a time, so a handler is atomic between
two `await`s and anything may run at an `await`. The process restarts on failure
(`docker-compose.yml`).

| Component | Where | State | Operations |
|---|---|---|---|
| Occupation | `hex-grids/hex-grids.service.ts` | table `hex_grid` (unique on user and on x, y, z) | `occupy`, `validateCoordinate` |
| Grid updates | same file | `hex_grid`, `hex_grid_pending` | `updateByUserId`, `doUpdateHexGridPending`; `updateByMetaSpaceSiteId` (no caller) |
| Grid queries | same file, `hex-grids.controller.ts` | none | `findByFilter` (at most 5000 rows), `countByFilter`, `findOneBy...` |
| Gateway | `hex-grids/hex-grids.gateway.ts` | the sockets of the process | forwards `OCCUPIED` |
| Site lookup | `microservices/meta-cms` | none; counts its retries | `fetchUserDefaultSiteInfo` over NATS |
| Synchronisation | `sync-tasks`, `app.service.ts` | table `sync_task` | cron runs `syncUserProfile`, `syncSiteInfo` |
| Events of other services | `app.ms.controller.ts` | none | handlers of profile and site events; `findHexGridByUserId` |
| Invitations | `app.service.ts` | none | listener of `OCCUPIED` |
| Archive | `scheduler/hex-grid`, `scripts/upload-hex-grids-to-arweave.ts` | `hex_grid_pending`, `hex_grid_batch_tx`, `hex_grid_transaction_reference`, Arweave | `uploadPendings`, every ten minutes or by the script |
| Business configuration | `config-biz` | a cache per key in front of a YAML file | getters, refresh when the file changes |
| Authentication, health, wiring | `auth`, `health`, `main.ts`, ... | none | |

How they interact:

* `occupy` reads the configuration (radius, archive flag), asks the CMS for the user's
  site, writes `hex_grid` and `hex_grid_pending` in one transaction, and emits
  `OCCUPIED`, which the invitation listener and the gateway hear.
* Clients query the table without a transaction and hear `OCCUPIED` on a socket; a client
  that does both puts its map together from the two.
* A synchronisation run asks ucenter or the CMS for everything modified since the last
  successful run and calls `updateByUserId` for each user without awaiting it. Events of
  the same services start the same updates.
* `updateByUserId` writes `hex_grid` and merges the change into `hex_grid_pending`.
* An upload reads `hex_grid_pending` in a database transaction, posts one transaction
  on Arweave, saves references to it and empties the table.

What is hard, and what makes each component correct:

* **Occupation.** The checks are queries outside the transaction of the insert. Whatever
  they saw, no user may own two grids and no grid two users; islands may only start from
  requests that saw an empty map; what a client is told must be true although queries
  fail, the process crashes and an acknowledgement is lost; every request must end.
* **Queries and gateway.** A grid appears with its commit and is announced after it, in an
  order that is not the one of the ids, and an answer may be cut down. A client that does
  things in the right order must miss no grid, and none may be told of a grid that is not
  committed.
* **Archive.** A transaction on Arweave cannot be rolled back, a `TRUNCATE` commits the
  transaction that runs it, runs may overlap each other and the transactions that queue
  changes. References must name real transactions, links must lead back, nothing
  uncommitted may be archived, and no committed change may be missing from both the
  queue and the archive. The archive may be switched off and on.
* **Synchronisation.** Runs overlap, fail and are cut short, updates race with each other
  and with `occupy`, and the services have clocks of their own. No modification may fall
  between two tasks, and what was fetched must reach the grid.
* **Configuration.** Calls interleave at every operation of the store, the file may be read
  while it is being written, and an empty one is loaded again in the middle of a call. The
  cache must end up with the value of the file.

## 2. The modules

| Module | Models | Runs |
|---|---|---|
| `HexGeometry` | the arithmetic of the coordinate checks | |
| `LandRegistry` | abstract: what occupying promises, claims granted atomically | by refinement |
| `ArchiveLog` | abstract: what the archive promises while uploads do not overlap | by refinement |
| `HexGridOccupy` | `occupy`, `validateCoordinate`, site lookup, invitation | `occupy_*` |
| `HexGridMap` | `HexGridOccupy` composed with queries, the gateway and clients | `map_client` |
| `GridArchive` | transactions that queue changes, uploads | `archive_*` |
| `SyncTasks` | runs, updates, events, `occupy` as they see it | `sync_*` |
| `ConfigBizCache` | refresh, getters, store | `config_*` |
| `MC*` | constants and symmetry of the runs | |
| `*Proofs`, `NaturalFacts` | proofs | |

Definitions named `Mut*` are plausible mistakes in the definition that follows them.
Nothing uses them except the test that each property can fail.

### HexGridOccupy

`req` holds one record per HTTP request: `phase` is the await the handler is at, and the
other fields are its local variables. One action per awaited call, in the order of the
code: `Receive` (with `validateCoordinateSum`), `CountCell`, `CheckZone`, `CountAll`,
`CountNear`, then for `occupy` `CountOwner`, the three outcomes of a send to the CMS,
`Insert`, `SavePending`, `Commit`, `EmitOccupied`, and `HandleOccupied` for the listener.
Reading the radius or the archive flag may throw as a query may, so `DbError` includes the
steps that begin with such a read; where the retry limit cannot be read the request ends as
in `FetchFatal`.
`hexGrids`, `pendings` and `nextId` are committed rows and the `AUTO_INCREMENT` counter.
The row of an open transaction is in its handler (`LiveRows` adds it).

External behaviour: `LockedByOther` makes an insert wait for the unique keys of another
open insert, `DbError` fails any query and rolls back, `CommitUnacknowledged` commits
while the caller sees an exception, `Crash` ends the handlers and rolls back open
transactions. Ids are consumed by failed inserts, as in InnoDB. `ChangeConfig` changes
what the getters answer; `ConfigBizCache` says when they do.

A site that the CMS does not have is an OK reply like any other: only its effect on the
grid's site fields differs, and `SyncTasks` has those.

### LandRegistry

Claims are granted one at a time to free users and cells, next to land. A request
*admitted* while there was no land may settle anywhere: that is the exact price of the
checks being outside the transaction. `ImplementsRegistry` shows `HexGridOccupy` under
the mapping of committed rows to land, of requests that saw the empty map and are not
yet committed or refused to pioneers, and of answers 201 to acknowledgements. It is a
specification and not a translation, so it has no source lines.

### HexGridMap

Extends `HexGridOccupy` with `client`, what each client has been told: the rows that the
gateway sent or a lookup found since it connected, and its last `findByFilter` with the
count that followed. A query is one `SELECT` of the committed rows, so it is one step. A
step of the server goes with `Broadcast`, which gives the rows for which it emits
`OCCUPIED` to the clients that are connected; a crash closes the sockets. `Limit` stands
for 5000. `FirstRows` is `ORDER BY id LIMIT`, stated as what the answer must be.

The search by name and the lookups by subdomain, site id and URL are left out: they read
columns that `Row` does not have, and they have no effect.

### GridArchive

A *writer* is a transaction that changes a grid and queues the change, of `occupy` or of
`updateByUserId`; a *run* is `uploadPendings` by the cron job or by the script. A change
is a number and a pending row is the set of changes merged into it, so a lost update is a
missing number. Both keep the snapshot of their first query (REPEATABLE READ). The rest
of MySQL that matters is its locks, and each statement takes its own:

* `UpdateGrid` waits for the row of the grid. `ReadPending` is the `SELECT` of the pending
  row and takes a read lock on the table's metadata, `QueueChange` is the save and needs a
  write lock: a `TRUNCATE` that asks in between goes first, so the transaction and the
  `TRUNCATE` wait for each other and MySQL rolls the transaction back (`DeadlockVictim`).
* `SaveBatch` inserts the batch, which takes its id there although it appears with the commit,
  so overlapping runs may commit in another order than that of the ids `LastBatch` reads by.
  `SaveReference` saves one reference, in the order of the ids, and keeps its row until the
  run ends. Where the snapshot showed no row and another run has committed one, the key is a
  duplicate and the run rolls back.
* `TRUNCATE` first commits (`CommitReferences`), then waits for every transaction that used
  the table (`RequestTable`, `Truncate`).

Any of these queries may fail (`RollbackChange`, `RunFails`), which is also what a lock
timeout does. Posting to Arweave may fail before or after it took effect. `Toggle` edits
`upload_to_arweave`: the transactions that ask while it is off do not queue their change
(`SkipChange`), and the uploads go on. The order of the references is that in which
`getPendings` returns rows without an `ORDER BY`, the one of the primary key in InnoDB.

`exposed` and `skipped` are history variables: the changes that were committed while a run
was active or beside another transaction of their grid, and those that were not queued
because archiving was off. The first can be lost (finding `archive_clear`), the second
reach the archive only with a run of the script; `OnlyExposedChangesAreLost` says that no
others are missing. What is found from a reference is stated as the least set that holds
it and is closed under `previousTx`, without recursion.

### ArchiveLog

A log of uploads that only grows. An upload holds committed changes only, names the upload
before it and, for each of its grids, the last upload that held the grid. `ImplementsLog`
shows `GridArchive` with one run at a time under the mapping of committed batches to the log
(`BatchLog`) and of references to the latest uploads: transactions that were posted and never
committed are not in it, and the commit of the references is the upload. Like `LandRegistry`
it has no source lines.

### SyncTasks

`upstream` is what the services have, `grid` what `hex_grid` has, and versions are times. A
run has the phases of `sync`: find the last success, save a `DOING` row, call back, save the
result. The save takes two steps: `createdAt` is the time its statement begins
(`StampDoing`), the id is taken by the insert (`SaveDoing`), so of two overlapping runs the
later id may bear the earlier time. `updates` are the promises nobody awaits and the events
on their way. `occupy` appears as the fetch of the site and the insert. `disturbed` is a
history variable for the updates that were overtaken, failed or fell between fetch and
insert. `delivered` is what runs have fetched.

Time is the database's clock, and every modification and every task has a time of its own.
A service stamps a modification with its own clock, up to `MaxSkew` before or after the
database's. The history variable `late` has the users whose last modification bears the
time of a task there already was, or an earlier one: the price of comparing `createdAt` of
one clock with times of another, and `NoGap` says that nothing else is missed. With
`MaxSkew = 0` nothing is ever late. The code truncates `createdAt` from microseconds to
milliseconds, which only makes a run fetch more. A process that ends because of an
unhandled rejection is a `Crash`; one that goes on is an `UpdateFails`.

### ConfigBizCache

One key stands for all, since no key affects another. An operation on the store is issued
in the tick in which the call decides on it and takes effect there, so `Refresh` is the
listener up to the delete, and `Read` is a getter whose argument loads the file and whose
`get` finds nothing; one that finds a value changes nothing. A call keeps what it has loaded
(`config`). An empty file is `undefined`, and the default argument of the next call of the
chain loads the file again, after the awaits (`Reloaded`); when it has become unparsable by
then the call fails.

`InMemory` says which store: `config-biz.module.ts` passes options from a YAML file, in which
only the memory store of cache-manager can be named. Its operations end in microtasks, so a
refresh, which the watcher starts in a task of its own, is alone, and getters interleave
with getters. With `InMemory = FALSE` every call interleaves with every other, operations
fail and the store survives a restart: what the service's code does behind the same
interface with a store across a connection. `disturbed` records that the last refresh failed
or began beside a call that had loaded an older file.

`content` is what a reader finds in the file: a value, none, nothing at all, or something
that `yaml.load` rejects. A file that is read half written counts as a version of its own,
followed by another; when the listener throws the process restarts (`RefreshThrows`).

## 3. The runs

| Run | Instance | Checks |
|---|---|---|
| `occupy_race` | 3 requests, 2 of them at a time, 3 users, 3 cells forming two islands | `Exclusive`, `IslandsHaveFounders`, `FoundersWereTogether`, `SoleFounderConnectsMap`, `ImplementsRegistry` |
| `occupy_faults` | 2 requests, 4 coordinates (one off the plane), 2 configurations, a crash, an edit, one retry | `TypeOK`, `AnswersTruthful`, `EachGridRequestedOnce`, `ZoneStaysEmpty`, `QueuedWithGrid`, `InvitationPerOwner`; liveness `EveryRequestAnswered`, `OccupationIsHandled` |
| `archive_cron` | 2 grids, 2 writers, one run at a time, 3 changes, 3 uploads, 1 switch of archiving, 1 crash | `TypeOK`, `OnlyExposedChangesAreLost`, `BatchesFormOneChain`, `EveryBatchIsFound`, `OnlyCommittedIsArchived`, `ImplementsLog` |
| `archive_overlap` | 2 grids, 2 writers, 2 cron runs and the script, 2 changes, 2 uploads | `ReferencesAreUploaded`, `OnlyExposedChangesAreLost`, `LinksLeadBack`, `OnlyUpgradesDeadlock`; liveness `TransactionsEnd` |
| `sync_overlap` | 1 user, 3 runs of any type, 3 points in time, clocks apart by up to 1 | `TypeOK`, `NoGap`, `UndisturbedSitesAreCurrent`, `ReachedProfilesFollow` |
| `config_quiet` | any store: 4 calls, 4 versions of any content, a failure of the store | `TypeOK`, `UndisturbedCacheIsCurrent` |
| `config_memory` | the memory store: 3 calls, 5 versions of any content | `CacheIsCurrent` |
| `map_client` | 1 client, 2 requests, 2 users, 2 cells, 2 boxes, answers of 1 row, a crash | `MapTypeOK`, `LiveMapMissesNoGrid`, `ToldTheTruth`; steps `CountProvesAnswer`, `RefreshDropsOnlyForEarlier` |

The other four runs (`occupy_islands`, `occupy_conflict`, `archive_clear`, `sync_profiles`)
end in a counterexample: they are the findings of section 5.

Why these bounds are enough. Races on a cell, a user or an empty map are between two
requests; the third comes when one of the first two has ended and can join one of two
islands. Three users on three cells give every combination of same and different user and
cell, and would give a third founder if one could still come after the first grid. One retry
reaches the limit of the loop and the error behind it. Two grids tell a whole-table
`TRUNCATE` from a row, two writers collide on a pending row, three changes and three uploads
give a chain of three batches, each with a change, or one of two and an upload that is
posted and fails, before or between them. Archiving starts on or off and is switched once,
between any two changes. Two overlapping uploads of two grids can lock two references in two
orders, and the third run, which may begin and finds no upload left, holds the table until
it fails. Clients do not interact, so one is enough; with two grids and a limit of one an
answer is whole or cut down, and the grid it holds may be pushed out by the other. Users do
not interact in `SyncTasks` (each property is about one user), so one is enough there; three
points in time hold a modification before, between or after two tasks, three runs the two
tasks and a run that overlaps both, and a skew of 1 puts the stamp of a modification before,
on or after the time of the last task. In `ConfigBizCache` a stale value needs one refresh
and one older getter; two more calls may disturb either, and five versions give every
content between two values.

The bounds `MaxInFlight`, `MaxConfigChanges`, `MaxCrashes`, `MaxChanges`, `MaxUploads`,
`MaxToggles`, `MaxTime`, `MaxSkew`, `MaxVersion` and `MaxFailures` exist only for TLC, which
is also why `CHECK_DEADLOCK` is off: a bounded system stops when its budget is used up, and
a request slot is used once. `MaxSkew` is also an assumption: how far clocks are apart.
`MaxRetry` is the configured `microservice.max_retry`.

**Fairness.** `HexGridOccupy` has weak fairness of `Serve(r)`: a handler that waits for the
database or the event loop is resumed, as Node and MySQL do (a query that hangs ends in a
lock timeout). The send to the CMS has no timeout, so nothing is assumed of it; the
property `EveryRequestAnswered` assumes of the CMS only that it answers the request at
hand, and shows that requests which wait for it for ever hold up no other. Clients,
faults and edits of the configuration owe nothing. `GridArchive` has weak fairness of each
open transaction and each run; Arweave's client is configured with a timeout
(`hex-grid.module.ts:36`) and its uploader gives up after a number of failures, so
`createTransaction` ends. `SyncTasks`, `ConfigBizCache` and `HexGridMap` state no
liveness.

## 4. What is proved

Every invariant, every action property and the two refinements that a passing run checks.
The proofs hold for any finite or infinite set of users, requests, cells, calls or runs and any
bounds. They assume the named assumptions on constants: coordinates are integer triples,
configurations have a natural radius, `MaxRetry` and `Limit` are positive, the bounds are
naturals, a run is of the cron job or of the script. Some theorems have one more
hypothesis, about how the system is set up: `OneRun` (uploads do not overlap, as while
each ends within the ten minutes to the next), `InMemory` (the store is the one that is
wired) and, for `EqualClocksAreNeverLate`, `MaxSkew = 0`. None of them restricts how
requests, transactions or calls of the configuration overlap.

* **HexGridOccupyProofs**: `TypeOK`, `Exclusive`, `EachGridRequestedOnce`,
  `IslandsHaveFounders`, `SoleFounderConnectsMap`. The invariant `IInv` is `TypeOK` and
  four parts. `HandlerInv` says what a handler carries past its checks: a row id exactly
  from its insert to a rollback, a cell on the plane, and a reason (it saw the empty map,
  or there is an adjacent committed grid with a smaller id). `IdInv`: ids are below
  `nextId`. `TableInv`: the table is exactly the rows of the committed requests.
  `DistinctInv`: inserted rows, committed or not, differ in id, user and cell. None of the
  properties is inductive alone: they speak of rows, and a row gets its qualities while
  its request is still running. For the islands, take a set of grids without a founder and
  in it the grid with the least id: its reason is a grid with a smaller id, which is
  outside the set. A connected map with a single founder follows, with the symmetry of the
  box.
* **HexGridOutcomeProofs**: `FoundersWereTogether`, `AnswersTruthful`, `ZoneStaysEmpty`, `QueuedWithGrid`,
  `InvitationPerOwner` and the refinement `ImplementsRegistry`. `OutcomeInv` adds to `IInv`
  what a handler knows past each check (that its cell is outside the zone it read, whether
  it queued its row, why it refused), and that an invitation was sent for one handled
  occupation. In the refinement,
  `CountAll` on an empty map is `Admit`, a commit is `Found` or `Settle` by what its
  handler saw, `EmitOccupied` is `Acknowledge`, a request that was admitted and fails is
  `Withdraw`, and every other step stutters. A settlement is next to land because the
  reason in `HandlerInv` is a committed grid, and on a free cell of a free user by
  `DistinctInv`: what the locks of InnoDB are for.
  `FounderInv` bounds the founders: they are settlers, requests that saw the empty map and
  have committed or may yet. When the first of them commits all are under way, so there are
  no more than `MaxInFlight`, and beside a grid nobody becomes one.
* **HexGridMapProofs**: all five properties of `HexGridMap`. `ServerRuns` shows that the
  composition does nothing that `HexGridOccupy` does not do, so that `IInv` and
  `OutcomeInv` hold in it. `MapInv` adds that a client holds committed grids only, and
  `LiveMapMissesNoGrid` itself, which is inductive with it: a grid whose occupant is
  answered 201 is emitted in the same step. For a repeated answer, a row that drops out of
  the first rows of a growing set was pushed out by a new row in front of it, by counting.
* **HexGeometryProofs**: the three `BETWEEN` clauses are, on the plane, exactly the cell
  and its six neighbours (`NearIsAdjacency`).
* **GridArchiveProofs**: `TypeOK`, the seven invariants of the archive and the refinement
  `ImplementsLog`. `IInv` has what
  an upload has read (`RunInv`: its items are committed, its links name transactions
  of committed batches), what a writer holds (`QueueInv`), and that batches name
  transactions on Arweave (`BatchInv`). For `BatchesFormOneChain` the number of runs is assumed to be
  one (`OneRun`), and `ChainInv` says that the run has read the last batch. For
  `OnlyExposedChangesAreLost`, `LossInv` adds what a transaction goes on to write: a
  writer holds the pending row of its grid but for exposed changes and its own
  (`RowCurrent`), and a run uploads what it clears while its reference leads to the rest
  (`Covers`). The trail is handled by two facts: a trail only grows when
  transactions are added, since links lead back, and a new reference leads to the old one
  because its run read it. `EveryBatchIsFound` and `ImplementsLog` assume `OneRun`, too:
  `LogInv` says that what the run has read is still so when it commits, so that a commit
  appends to the log and every other step stutters or is a change. One run commits its
  batches in the order of their ids, so the batch with the greatest id is the last one
  (`LastIsNewest`). For `OnlyUpgradesDeadlock`, `OrderInv` says that a run has saved the
  references below the one it saves next: rows of grids, the table and rows of references,
  and of these the smaller before the greater, are waited for in one order, so that in a
  circle there is a `TRUNCATE` and a transaction that has read its pending row and not
  written it.
* **SyncTasksProofs**: `TypeOK`, `NoGap`, `UndisturbedSitesAreCurrent`,
  `ReachedProfilesFollow`. The invariant adds that no task, saved or being saved, is later
  than the clock, and that a run in progress asks for a time up to which everything is
  already covered; so a task that succeeds covers all that was modified before it was
  created. `EqualClocksAreNeverLate` shows that the exception in `NoGap` is void when the
  clocks agree. For sites and profiles, `FieldsFollow` relates the grid, the site an occupy
  has fetched and the updates under way to what has been delivered, and adds that a grid has
  no profile before it is inserted; `ReachedProfilesFollow` shows that finding 4 is the only
  way to miss a profile that is not disturbed.
* **ConfigBizCacheProofs**: `TypeOK`, `UndisturbedCacheIsCurrent` and, with `InMemory`,
  `CacheIsCurrent`. The invariant says, once the last change has been told and the refresh is
  not disturbed, that the file can be parsed, that no open call may still store what it
  loaded from an older file (one that found the file empty loads it again), and that the cache
  has the file's value or none. With the memory store a refresh is never disturbed.
* **NaturalFacts**: every non-empty set of naturals has a least element, and a bounded one a
  greatest.

Only model-checked: the liveness properties `EveryRequestAnswered`, `OccupationIsHandled`
and `TransactionsEnd`, since liveness under fairness is out of the prover's reach (of the
last, `OnlyUpgradesDeadlock` is the part that is proved), and the counterexamples of section
5, which are a matter of one instance. No model uses recursive operators or functions.

## 5. What the checks found

1. `occupy_islands`: two first occupiers at once leave an unconnected map, against the
   comment at `hex-grids.service.ts:158`. The code keeps `IslandsHaveFounders` and
   `FoundersWereTogether` instead: no more islands than requests at a time.
2. `occupy_conflict`: a conflict that only the unique index sees is answered as an
   internal error, not with the 409 of `hex-grids.controller.ts:170`.
3. `archive_clear`: `clearPendings` empties the whole table, so a change that is committed
   during an upload is lost for the archive.
4. `sync_profiles`: a profile that was synchronised before its user occupied a grid never
   reaches the grid, since `occupy` stores the username only.

## 6. Not modelled

* The search by name and the lookups by subdomain, site id and URL: reads without effect, of
  columns that follow the two services and need not be unique. `findHexGridByUserId` is the
  lookup by user with another envelope.
* JWT checks (a request has an authenticated user), health check, `hello`, logging, API
  documentation and wiring: they keep no state, or a library does.
* Contents of grids, messages and signed metadata, except where a property tells them
  apart; dates of invitations; `updateByMetaSpaceSiteId` (no caller).
* Several server processes: nothing in the repository starts more than one. The models of
  the database, of the runs and of the cache do not count on one; that of the gateway does,
  since it sends only to the sockets of its own process.
* Several sites of one user: each update would overwrite the last in arrival, and only the
  CMS knows which is the default one.
* A migration that runs: the tables they create are the initial states.

## 7. Plan

Done, in this order: `HexGeometry`, `LandRegistry` and `HexGridOccupy` with the refinement;
proofs of exclusive ownership and of the islands; `GridArchive`; `SyncTasks` with the proof
of `NoGap`; `ConfigBizCache` with its proof; proofs of `GridArchive`, of the answers, the
queue and the refinement of `HexGridOccupy`; archiving switched off and on; clocks that
differ, and the proof of `UndisturbedSitesAreCurrent`; half-written files; `HexGridMap` with
its proofs; `ArchiveLog` with its refinement, the bound on founders; the locks of the archive
statement by statement, with the proof of where they can form a circle; the memory store of
the configuration with its proof.

Dropped: the answers of the configuration's getters as history, since the models that use an
answer let it change at any moment; that the time the next run asks for never moves back,
since rows need not be created in the order of their ids (`NoGap` does not need it); what
holds if requests, or calls of the configuration, came one at a time, since they do not.

What is left, in order of use:

1. The fields of a grid in `HexGridMap`, for the search by name beside the updates of
   `SyncTasks`.
2. Several processes: the gateway's sockets, the cron jobs and an in-memory cache for each.
