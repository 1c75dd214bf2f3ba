--------------------------- MODULE HexGridOccupy ---------------------------
(* HexGridsService.occupy and validateCoordinate, run by many HTTP requests at
   once over one MySQL database.

   A handler is a chain of awaited calls.  Every awaited database query, every
   reply of the CMS and every configuration read is a step of its own, so any
   other request may run between two of them; the code between two awaits is
   part of the step that resumes it.  The validation queries run outside the
   transaction of the insert. *)
EXTENDS HexGeometry, FiniteSets

CONSTANTS
  Users,             \* authenticated users
  Requests,          \* HTTP request slots; a slot is used once
  Coordinates,       \* the coordinates clients ask for
  Configs,           \* contents the business configuration file may take
  MaxRetry,          \* microservice max_retry
  MaxInFlight,       \* bound: requests handled at the same time
  MaxConfigChanges,  \* bound: edits of the configuration file
  MaxCrashes         \* bound: crashes of the server process

ASSUME UsersAssumption == Users # {}
ASSUME CoordinatesAssumption == Coordinates # {} /\ Coordinates \subseteq Coordinate
ASSUME ConfigsAssumption ==
  Configs \subseteq [radius : Nat, upload : BOOLEAN, invite : BOOLEAN]
ASSUME MaxRetryAssumption == MaxRetry \in Nat \ {0}
ASSUME MaxInFlightAssumption == MaxInFlight \in Nat

VARIABLES
  hexGrids,     \* committed rows of hex_grid
  pendings,     \* ids of the committed rows of hex_grid_pending
  nextId,       \* AUTO_INCREMENT of hex_grid; a rollback never gives ids back
  req,          \* the state of each request's handler
  config,       \* what the configuration getters answer
  invitations,  \* NEW_INVITATION_SLOT messages emitted, by user
  changes,      \* configuration edits so far
  crashes       \* crashes so far

vars == <<hexGrids, pendings, nextId, req, config, invitations, changes, crashes>>

\* Where a handler waits.  "insert", "pending" and "commit" are inside
\* databaseConnection.transaction; "emit" follows its commit.
Validating == {"countCell", "zone", "countAll", "countNear"}
OpenTx     == {"pending", "commit"}
InFlight   == Validating \cup OpenTx \cup {"countOwner", "fetch", "insert", "emit"}
Phases     == InFlight \cup {"idle", "done"}
Answers    == {"none", "created", "valid", "badRequest", "conflict",
               "duplicate", "error", "lost"}

Row == [id : Nat, userId : Users, at : Coordinates]

Handler ==
  [ phase      : Phases,
    kind       : {"occupy", "validate"},
    userId     : Users,
    at         : Coordinates,
    radius     : Nat \cup {-1},     \* the radius the zone check used; -1: not read
    sawEmpty   : BOOLEAN,           \* the first count answered zero
    retryCount : 0 .. MaxRetry + 1,
    gridId     : Nat,               \* id of the row it inserted; 0: none
    queued     : BOOLEAN,           \* its id is in hex_grid_pending
    invite     : {"none", "event", "handled", "lost"},
    answer     : Answers ]

\* The types of the state; the handler's bounds a retry loop that never sends
\* more than MaxRetry + 1 times (meta-cms.service.ts:54).
TypeOK ==
  /\ hexGrids \subseteq Row
  /\ pendings \subseteq Nat
  /\ nextId \in Nat \ {0}
  /\ req \in [Requests -> Handler]
  /\ config \in Configs
  /\ invitations \in [Users -> Nat]
  /\ changes \in Nat
  /\ crashes \in Nat
-----------------------------------------------------------------------------
RowOf(r) == [id |-> req[r].gridId, userId |-> req[r].userId, at |-> req[r].at]

(* Definitions with a name in Mut* are plausible mistakes in the operator that
   follows them; nothing uses them but the validation of the properties. *)

\* No unique key is locked by an uncommitted insert.
MutNoRowLocks(r) == FALSE

\* A row that an open transaction of another request has inserted and not
\* committed: its unique keys are locked.
LockedByOther(r) ==
  \E s \in Requests \ {r} :
    /\ req[s].phase \in OpenTx
    /\ req[s].userId = req[r].userId \/ req[s].at = req[r].at

\* The index on user_id is not unique.
MutOnlyCellIndex(r) == \E g \in hexGrids : g.at = req[r].at

\* The unique indexes on (x, y, z) and on user_id.
ViolatesUniqueIndex(r) ==
  \E g \in hexGrids : g.userId = req[r].userId \/ g.at = req[r].at

To(r, phase) == req' = [req EXCEPT ![r].phase = phase]

\* The handler returns or throws before it has inserted anything.
Answer(r, answer) ==
  req' = [req EXCEPT ![r].phase = "done", ![r].answer = answer]

UnchangedTables == UNCHANGED <<hexGrids, pendings, nextId>>
UnchangedRest   == UNCHANGED <<config, invitations, changes, crashes>>
-----------------------------------------------------------------------------
\* A slot before its request arrives; its user and cell mean nothing.
NoRequest(u) ==
  [ phase |-> "idle", kind |-> "occupy",
    userId |-> u, at |-> CHOOSE c \in Coordinates : TRUE,
    radius |-> -1, sawEmpty |-> FALSE, retryCount |-> 0, gridId |-> 0,
    queued |-> FALSE, invite |-> "none", answer |-> "none" ]

Init ==
  /\ hexGrids = {}
  /\ pendings = {}
  /\ nextId = 1
  /\ \E u \in Users : req = [r \in Requests |-> NoRequest(u)]
  /\ config \in Configs
  /\ invitations = [u \in Users |-> 0]
  /\ changes = 0
  /\ crashes = 0

\* POST hex-grids or PUT hex-grids/coordinate/validation arrives.
\* validateCoordinateSum runs before the first await.
Receive(r) ==
  /\ req[r].phase = "idle"
  /\ Cardinality({s \in Requests : req[s].phase \in InFlight}) < MaxInFlight
  /\ \E kind \in {"occupy", "validate"}, u \in Users, c \in Coordinates :
       req' = [req EXCEPT
         ![r].kind = kind, ![r].userId = u, ![r].at = c,
         ![r].phase = IF SumIsZero(c) THEN "countCell" ELSE "done",
         ![r].answer = IF SumIsZero(c) THEN "none" ELSE "badRequest"]
  /\ UnchangedTables /\ UnchangedRest

\* The cell query uses the box of the adjacency query.
MutCountCellInBox(r) ==
  /\ req[r].phase = "countCell"
  /\ IF \E g \in hexGrids : Near(req[r].at, g.at)
       THEN Answer(r, "conflict")
       ELSE To(r, "zone")
  /\ UnchangedTables /\ UnchangedRest

\* count({x, y, z}) > 0 is a conflict.
CountCell(r) ==
  /\ req[r].phase = "countCell"
  /\ IF \E g \in hexGrids : g.at = req[r].at
       THEN Answer(r, "conflict")
       ELSE To(r, "zone")
  /\ UnchangedTables /\ UnchangedRest

\* The comparison with the radius is strict.
MutZoneOffByOne(r) ==
  /\ req[r].phase = "zone"
  /\ LET forbidden == InForbiddenZone(req[r].at, config.radius - 1)
     IN  req' = [req EXCEPT
           ![r].radius = config.radius,
           ![r].phase = IF forbidden THEN "done" ELSE "countAll",
           ![r].answer = IF forbidden THEN "badRequest" ELSE "none"]
  /\ UnchangedTables /\ UnchangedRest

\* The radius is read, and nothing inside it may be occupied.
CheckZone(r) ==
  /\ req[r].phase = "zone"
  /\ LET forbidden == InForbiddenZone(req[r].at, config.radius)
     IN  req' = [req EXCEPT
           ![r].radius = config.radius,
           ![r].phase = IF forbidden THEN "done" ELSE "countAll",
           ![r].answer = IF forbidden THEN "badRequest" ELSE "none"]
  /\ UnchangedTables /\ UnchangedRest

\* validateCoordinate returns: to the client, or into occupy.
AfterValidation(r) ==
  IF req[r].kind = "validate" THEN "done" ELSE "countOwner"
AnswerAfterValidation(r) ==
  IF req[r].kind = "validate" THEN "valid" ELSE "none"

\* "Only the first" is taken to mean the first two.
MutFirstTwoAnywhere(r) ==
  /\ req[r].phase = "countAll"
  /\ IF Cardinality(hexGrids) <= 1
       THEN req' = [req EXCEPT ![r].sawEmpty = hexGrids = {},
                               ![r].phase = AfterValidation(r),
                               ![r].answer = AnswerAfterValidation(r)]
       ELSE To(r, "countNear")
  /\ UnchangedTables /\ UnchangedRest

\* The first count is of the grids of the user.
MutCountOwn(r) ==
  /\ req[r].phase = "countAll"
  /\ IF \A g \in hexGrids : g.userId # req[r].userId
       THEN req' = [req EXCEPT ![r].sawEmpty = TRUE,
                               ![r].phase = AfterValidation(r),
                               ![r].answer = AnswerAfterValidation(r)]
       ELSE To(r, "countNear")
  /\ UnchangedTables /\ UnchangedRest

\* count({}): on an empty map the adjacency query is short-circuited.
CountAll(r) ==
  /\ req[r].phase = "countAll"
  /\ IF hexGrids = {}
       THEN req' = [req EXCEPT ![r].sawEmpty = TRUE,
                               ![r].phase = AfterValidation(r),
                               ![r].answer = AnswerAfterValidation(r)]
       ELSE To(r, "countNear")
  /\ UnchangedTables /\ UnchangedRest

\* The box of the adjacency query reaches two cells away.
MutCountNearTooWide(r) ==
  /\ req[r].phase = "countNear"
  /\ IF \E g \in hexGrids : /\ Abs(req[r].at.x - g.at.x) <= 2
                            /\ Abs(req[r].at.y - g.at.y) <= 2
                            /\ Abs(req[r].at.z - g.at.z) <= 2
       THEN req' = [req EXCEPT ![r].phase = AfterValidation(r),
                               ![r].answer = AnswerAfterValidation(r)]
       ELSE Answer(r, "badRequest")
  /\ UnchangedTables /\ UnchangedRest

\* count of the box around the cell: none means not adjacent.
CountNear(r) ==
  /\ req[r].phase = "countNear"
  /\ IF \E g \in hexGrids : Near(req[r].at, g.at)
       THEN req' = [req EXCEPT ![r].phase = AfterValidation(r),
                               ![r].answer = AnswerAfterValidation(r)]
       ELSE Answer(r, "badRequest")
  /\ UnchangedTables /\ UnchangedRest

\* count({userId}) > 0: "You already own a grid".
CountOwner(r) ==
  /\ req[r].phase = "countOwner"
  /\ IF \E g \in hexGrids : g.userId = req[r].userId
       THEN Answer(r, "conflict")
       ELSE To(r, "fetch")
  /\ UnchangedTables /\ UnchangedRest

\* fetchUserDefaultSiteInfo: an OK reply ends the loop.
FetchOk(r) ==
  /\ req[r].phase = "fetch"
  /\ To(r, "insert")
  /\ UnchangedTables /\ UnchangedRest

\* The retries are compared with one more than their limit.
MutRetryOnceMore(r) ==
  /\ req[r].phase = "fetch"
  /\ LET count == req[r].retryCount + 1
     IN  req' = [req EXCEPT
           ![r].retryCount = count,
           ![r].phase = IF count <= MaxRetry + 1 THEN "fetch" ELSE "done",
           ![r].answer = IF count <= MaxRetry + 1 THEN "none" ELSE "error"]
  /\ UnchangedTables /\ UnchangedRest

\* Beyond the limit the retries are counted anew.
MutRetryForever(r) ==
  /\ req[r].phase = "fetch"
  /\ LET count == req[r].retryCount + 1
     IN  req' = [req EXCEPT ![r].retryCount = IF count <= MaxRetry THEN count ELSE 0]
  /\ UnchangedTables /\ UnchangedRest

\* A retryable reply sends again, until retryCount exceeds maxRetry.
FetchRetryable(r) ==
  /\ req[r].phase = "fetch"
  /\ LET count == req[r].retryCount + 1
     IN  req' = [req EXCEPT
           ![r].retryCount = count,
           ![r].phase = IF count <= MaxRetry THEN "fetch" ELSE "done",
           ![r].answer = IF count <= MaxRetry THEN "none" ELSE "error"]
  /\ UnchangedTables /\ UnchangedRest

\* Any other reply, or a rejected send, is thrown at once.
FetchFatal(r) ==
  /\ req[r].phase = "fetch"
  /\ Answer(r, "error")
  /\ UnchangedTables /\ UnchangedRest

\* The id is computed as the last committed one plus one.
MutIdNotReserved(r) ==
  /\ req[r].phase = "insert"
  /\ ~LockedByOther(r)
  /\ IF ViolatesUniqueIndex(r)
       THEN Answer(r, "duplicate")
       ELSE req' = [req EXCEPT ![r].phase = "pending", ![r].gridId = nextId]
  /\ UNCHANGED nextId
  /\ UNCHANGED <<hexGrids, pendings>> /\ UnchangedRest

\* INSERT INTO hex_grid in a new transaction.  It waits while another open
\* transaction holds one of its keys, and throws QueryFailedError on a
\* committed duplicate.  Both outcomes consume an id.
Insert(r) ==
  /\ req[r].phase = "insert"
  /\ ~LockedByOther(r)
  /\ nextId' = nextId + 1
  /\ IF ViolatesUniqueIndex(r)
       THEN Answer(r, "duplicate")
       ELSE req' = [req EXCEPT ![r].phase = "pending", ![r].gridId = nextId]
  /\ UNCHANGED <<hexGrids, pendings>> /\ UnchangedRest

\* The pending row is saved outside the transaction.
MutPendingAutocommits(r) ==
  /\ req[r].phase = "pending"
  /\ req' = [req EXCEPT ![r].phase = "commit", ![r].queued = config.upload]
  /\ pendings' = IF config.upload THEN pendings \cup {req[r].gridId} ELSE pendings
  /\ UNCHANGED <<hexGrids, nextId>> /\ UnchangedRest

\* The event is emitted inside the transaction callback.
MutEmitBeforeCommit(r) ==
  /\ req[r].phase = "pending"
  /\ req' = [req EXCEPT ![r].phase = "commit", ![r].queued = config.upload,
                        ![r].invite = "event"]
  /\ UnchangedTables /\ UnchangedRest

\* In the same transaction, if archiving is enabled: the row of
\* hex_grid_pending with the new id.
SavePending(r) ==
  /\ req[r].phase = "pending"
  /\ req' = [req EXCEPT ![r].phase = "commit", ![r].queued = config.upload]
  /\ UnchangedTables /\ UnchangedRest

CommitTables(r) ==
  /\ hexGrids' = hexGrids \cup {RowOf(r)}
  /\ pendings' = IF req[r].queued THEN pendings \cup {req[r].gridId} ELSE pendings
  /\ UNCHANGED nextId

Commit(r) ==
  /\ req[r].phase = "commit"
  /\ CommitTables(r)
  /\ To(r, "emit")
  /\ UnchangedRest

\* The commit takes effect and its acknowledgement is lost: the transaction
\* call throws, and nothing after it runs.
CommitUnacknowledged(r) ==
  /\ req[r].phase = "commit"
  /\ CommitTables(r)
  /\ Answer(r, "error")
  /\ UnchangedRest

\* The listener is not registered.
MutNobodyListens(r) ==
  /\ req[r].phase = "emit"
  /\ req' = [req EXCEPT ![r].phase = "done", ![r].answer = "created"]
  /\ UnchangedTables /\ UnchangedRest

\* eventEmitter.emit calls the listeners up to their first await, and the
\* handler answers 201 with the entity.
EmitOccupied(r) ==
  /\ req[r].phase = "emit"
  /\ req' = [req EXCEPT ![r].phase = "done", ![r].answer = "created",
                        ![r].invite = "event"]
  /\ UnchangedTables /\ UnchangedRest

\* AppService.handleHexGridOccupied resumes: one invitation slot if enabled.
HandleOccupied(r) ==
  /\ req[r].invite = "event"
  /\ req' = [req EXCEPT ![r].invite = "handled"]
  /\ invitations' = IF config.invite
                      THEN [invitations EXCEPT ![req[r].userId] = @ + 1]
                      ELSE invitations
  /\ UnchangedTables /\ UNCHANGED <<config, changes, crashes>>

\* A query fails (connection, lock wait timeout, deadlock victim), or a configuration
\* read throws; an open transaction is rolled back.
DbError(r) ==
  /\ req[r].phase \in (InFlight \ {"fetch", "emit"})
  /\ req' = [req EXCEPT ![r].phase = "done", ![r].answer = "error",
                        ![r].gridId = 0, ![r].queued = FALSE]
  /\ UnchangedTables /\ UnchangedRest

\* The configuration file is edited and the cache refreshed.
ChangeConfig ==
  /\ changes < MaxConfigChanges
  /\ changes' = changes + 1
  /\ config' \in Configs \ {config}
  /\ UnchangedTables /\ UNCHANGED <<req, invitations, crashes>>

\* The process dies and is restarted: handlers and un-run listeners are gone,
\* open transactions are rolled back.
Crash ==
  /\ crashes < MaxCrashes
  /\ crashes' = crashes + 1
  /\ req' = [r \in Requests |->
       LET h == req[r] IN
       IF h.phase \in InFlight
         THEN [h EXCEPT !.phase = "done", !.answer = "lost",
                        !.gridId = IF h.phase = "emit" THEN @ ELSE 0,
                        !.queued = @ /\ h.phase = "emit"]
         ELSE [h EXCEPT !.invite = IF @ = "event" THEN "lost" ELSE @]]
  /\ UnchangedTables /\ UNCHANGED <<config, invitations, changes>>

Fetch(r) == FetchOk(r) \/ FetchRetryable(r) \/ FetchFatal(r)

\* What the server's event loop and the database owe a request.
Serve(r) ==
  \/ CountCell(r) \/ CheckZone(r) \/ CountAll(r) \/ CountNear(r) \/ CountOwner(r)
  \/ Insert(r) \/ SavePending(r) \/ Commit(r)
  \/ EmitOccupied(r) \/ HandleOccupied(r)

Next ==
  \/ \E r \in Requests :
       Receive(r) \/ Serve(r) \/ Fetch(r) \/ CommitUnacknowledged(r) \/ DbError(r)
  \/ ChangeConfig
  \/ Crash

Spec == Init /\ [][Next]_vars

\* Each handler that waits for the database or the event loop is resumed.  Clients,
\* faults and edits of the configuration owe nothing, and the send to the CMS has no
\* timeout: without a reply its handler waits for ever.
Fairness == \A r \in Requests : WF_vars(Serve(r))

FairSpec == Spec /\ Fairness
-----------------------------------------------------------------------------
Committed(r) == req[r].gridId # 0 /\ req[r].phase \in {"emit", "done"}

\* Rows that count against the unique indexes: committed, or in an open
\* transaction.
LiveRows == hexGrids \cup {RowOf(r) : r \in {s \in Requests : req[s].phase \in OpenTx}}

\* A grid whose request found the map empty: it skipped the adjacency query.
Founder(g) == \E r \in Requests : RowOf(r) = g /\ req[r].sawEmpty

\* One grid per user and one owner per cell, for the rows of open transactions
\* too: whatever the checks of concurrent occupy calls saw, two live rows never
\* share a user or a cell.
Exclusive ==
  \A g, h \in LiveRows : g.userId = h.userId \/ g.at = h.at => g = h

\* validateCoordinate's adjacency rule as the code keeps it under concurrency:
\* every island of the map holds a founder, so no set of grids without one is
\* cut off from the rest.
IslandsHaveFounders ==
  \A A \in SUBSET hexGrids :
    A # {} /\ (\A a \in A : ~Founder(a))
      => \E a \in A, b \in hexGrids \ A : Near(a.at, b.at)

\* "Unless it is the first, a grid must be adjacent to an existing one"
\* (hex-grids.service.ts:158): the map is connected.
MapConnected == ConnectedCells({g.at : g \in hexGrids})

\* The rule of line 158 does hold when a single request was validated against
\* an empty map.
SoleFounderConnectsMap ==
  (\A g, h \in hexGrids : Founder(g) /\ Founder(h) => g = h) => MapConnected

\* An island more than one costs a request more that was handled at the same time:
\* there are never more founders than requests the server handles at once, however
\* many follow.
FoundersWereTogether == Cardinality({g \in hexGrids : Founder(g)}) <= MaxInFlight

\* What the client is told is true when and after it is told: 201 has its row,
\* a refusal has left no row and its reason is still there (rows are never
\* deleted), and a coordinate passed as valid was outside the zone.
AnswersTruthful ==
  \A r \in Requests :
    LET h == req[r] IN
    /\ h.answer = "created" => RowOf(r) \in hexGrids
    /\ h.answer \in {"valid", "badRequest", "conflict", "duplicate"} => h.gridId = 0
    /\ h.answer \in {"conflict", "duplicate"} =>
         \E g \in hexGrids : g.userId = h.userId \/ g.at = h.at
    /\ h.answer = "badRequest" =>
         ~SumIsZero(h.at) \/ InForbiddenZone(h.at, h.radius) \/ hexGrids # {}
    /\ h.answer = "valid" => SumIsZero(h.at) /\ ~InForbiddenZone(h.at, h.radius)

\* Every grid is on the plane and was requested by exactly one occupy call,
\* whatever crashed, failed or lost its acknowledgement in between.
EachGridRequestedOnce ==
  \A g \in hexGrids :
    /\ SumIsZero(g.at)
    /\ \E r \in Requests : Committed(r) /\ RowOf(r) = g /\ req[r].kind = "occupy"
    /\ \A r, s \in Requests : req[r].gridId = g.id /\ req[s].gridId = g.id => r = s

\* While the radius has not been edited nobody owns a grid in the forbidden zone.
ZoneStaysEmpty ==
  changes = 0 => \A g \in hexGrids : ~InForbiddenZone(g.at, config.radius)

\* The grid and its hex_grid_pending row appear together or not at all: with
\* archiving enabled throughout every grid is queued, and no queued id lacks
\* its grid.
QueuedWithGrid ==
  LET ids == {g.id : g \in hexGrids}
  IN  /\ pendings \subseteq ids
      /\ changes = 0 => pendings = IF config.upload THEN ids ELSE {}

\* A user is given at most one invitation slot, and only once its grid is
\* committed.
InvitationPerOwner ==
  \A u \in Users :
    /\ invitations[u] <= 1
    /\ invitations[u] = 1 => \E g \in hexGrids : g.userId = u

\* A request whose own sends the CMS answers ends, even while others wait for the
\* CMS for ever: the retries are bounded, and no transaction waits for ever for the
\* unique keys of another.
EveryRequestAnswered ==
  \A r \in Requests :
    WF_vars(Fetch(r)) => (req[r].phase \in InFlight ~> req[r].phase = "done")

\* The invitation listener of a successful occupation runs, or dies with the
\* process.
OccupationIsHandled ==
  \A r \in Requests : req[r].answer = "created" ~> req[r].invite \in {"handled", "lost"}

\* The API document (hex-grids.controller.ts:170) promises 409 for every
\* uniqueness conflict: none surfaces as the database's own error.
ConflictsAnswered409 == \A r \in Requests : req[r].answer # "duplicate"
-----------------------------------------------------------------------------
(* The abstract registry: claims are atomic, and only requests that found no
   land at all may settle away from it. *)
Claims(S) == { [userId |-> g.userId, at |-> g.at] : g \in S }

Pioneers ==
  { r \in Requests :
      req[r].sawEmpty
      /\ req[r].phase \in {"countOwner", "fetch", "insert", "pending", "commit"} }

Acknowledged ==
  { [userId |-> req[r].userId, at |-> req[r].at] :
      r \in {s \in Requests : req[s].answer = "created"} }

Registry == INSTANCE LandRegistry WITH
  land <- Claims(hexGrids), pioneers <- Pioneers, acknowledged <- Acknowledged

\* occupy, with all its awaits, races, faults and crashes, implements the atomic
\* registry.
ImplementsRegistry == Registry!Spec
=============================================================================
