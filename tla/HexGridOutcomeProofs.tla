----------------------- MODULE HexGridOutcomeProofs -----------------------
(* What comes of occupying, for instances of any size: answers, queue and
   invitations agree with the table, and the whole implements LandRegistry. *)
EXTENDS HexGridOccupyProofs, FiniteSetTheorems

(* What a handler h may have answered, and what it still knows on its way there,
   when G are the committed rows, c is the configuration and n counts its edits. *)
PastZone == {"countAll", "countNear"} \cup PastChecks

Refusals == {"valid", "badRequest", "conflict", "duplicate"}

Outcome(h, G, c, n) ==
  /\ h.phase # "done" => h.answer = "none" /\ h.invite = "none"
  /\ h.phase = "countNear" => G # {}
  /\ h.phase \in {"idle", "countCell", "zone", "countAll", "countNear"} => ~h.sawEmpty
  /\ h.phase \in {"countAll", "countNear"} => ~InForbiddenZone(h.at, h.radius)
  /\ n = 0 /\ (h.phase \in PastZone \/ h.gridId # 0) => ~InForbiddenZone(h.at, c.radius)
  /\ n = 0 /\ h.phase = "commit" => h.queued = c.upload
  /\ h.answer = "created" \/ h.invite \in {"event", "handled"} => h.gridId # 0
  /\ h.answer \in Refusals => h.gridId = 0
  /\ h.answer \in {"conflict", "duplicate"} => \E g \in G : g.userId = h.userId \/ g.at = h.at
  /\ h.answer = "badRequest" =>
       ~SumIsZero(h.at) \/ InForbiddenZone(h.at, h.radius) \/ G # {}
  /\ h.answer = "valid" => SumIsZero(h.at) /\ ~InForbiddenZone(h.at, h.radius)

\* An invitation was sent for one handled occupation.
Invited(u) ==
  \/ invitations[u] = 0
  \/ invitations[u] = 1 /\ \E r \in Requests : req[r].invite = "handled" /\ req[r].userId = u

OutcomeInv ==
  /\ \A r \in Requests : Outcome(req[r], hexGrids, config, changes)
  /\ QueuedWithGrid
  /\ \A u \in Users : Invited(u)
-----------------------------------------------------------------------------
(* More rows take back no outcome. *)
LEMMA MoreRows ==
  ASSUME NEW h, NEW G, NEW H, NEW c, NEW n, Outcome(h, G, c, n), G \subseteq H
  PROVE  Outcome(h, H, c, n)
BY DEF Outcome

(* The steps of one handler, each with what it makes of the handler. *)
LEMMA OwnOutcome ==
  ASSUME IInv, OutcomeInv, NEW r \in Requests,
         \/ Receive(r) \/ Serve(r) \/ Fetch(r) \/ CommitUnacknowledged(r) \/ DbError(r)
  PROVE  Outcome(req'[r], hexGrids', config, changes)
<1>1. /\ req \in [Requests -> Handler] /\ req[r] \in Handler /\ Sound(req[r])
      /\ Outcome(req[r], hexGrids, config, changes)
  BY DEF IInv, TypeOK, HandlerInv, OutcomeInv
<1>2. CASE Receive(r)
  <2>1. PICK kind \in {"occupy", "validate"}, u \in Users, c \in Coordinates :
          req' = [req EXCEPT
            ![r].kind = kind, ![r].userId = u, ![r].at = c,
            ![r].phase = IF SumIsZero(c) THEN "countCell" ELSE "done",
            ![r].answer = IF SumIsZero(c) THEN "none" ELSE "badRequest"]
    BY <1>2 DEF Receive
  <2>2. req[r].phase = "idle" /\ req[r].gridId = 0
    BY <1>1, <1>2 DEF Receive, Sound, OpenTx
  <2>3. /\ req'[r].at = c /\ req'[r].gridId = 0 /\ req'[r].invite = "none"
        /\ ~req'[r].sawEmpty
        /\ req'[r].phase = IF SumIsZero(c) THEN "countCell" ELSE "done"
        /\ req'[r].answer = IF SumIsZero(c) THEN "none" ELSE "badRequest"
    BY <1>1, <2>1, <2>2 DEF Handler, Outcome
  <2>. QED BY <2>3 DEF Outcome, Refusals, PastZone, PastChecks
<1>3. CASE CountCell(r)
  BY <1>1, <1>3 DEF CountCell, To, Answer, UnchangedTables, Outcome, Sound, Handler, OpenTx,
                    InFlight, Refusals, PastZone, PastChecks, Validating
<1>4. CASE CheckZone(r)
  BY <1>1, <1>4 DEF CheckZone, UnchangedTables, Outcome, Sound, Handler, OpenTx,
                    InFlight, Refusals, PastZone, PastChecks, Validating
<1>5. CASE CountAll(r)
  BY <1>1, <1>5 DEF CountAll, To, AfterValidation, AnswerAfterValidation, UnchangedTables, Outcome,
                    Sound, Handler, OpenTx, InFlight, Refusals, PastZone, PastChecks, Validating
<1>6. CASE CountNear(r)
  BY <1>1, <1>6 DEF CountNear, Answer, AfterValidation, AnswerAfterValidation, UnchangedTables,
                    Outcome, Sound, Handler, OpenTx, InFlight, Refusals, PastZone, PastChecks,
                    Validating
<1>7. CASE CountOwner(r)
  BY <1>1, <1>7 DEF CountOwner, To, Answer, UnchangedTables, Outcome, Sound, Handler, OpenTx,
                    InFlight, Refusals, PastZone, PastChecks
<1>8. CASE Fetch(r)
  BY <1>1, <1>8 DEF Fetch, FetchOk, FetchRetryable, FetchFatal, To, Answer, UnchangedTables,
                    Outcome, Sound, Handler, OpenTx, InFlight, Refusals, PastZone, PastChecks
<1>9. CASE Insert(r)
  BY <1>1, <1>9 DEF Insert, Answer, ViolatesUniqueIndex, Outcome, Sound, Handler, OpenTx,
                    InFlight, Refusals, PastZone, PastChecks
<1>10. CASE SavePending(r)
  BY <1>1, <1>10 DEF SavePending, UnchangedTables, Outcome, Sound, Handler, OpenTx,
                     InFlight, Refusals, PastZone, PastChecks
<1>11. CASE Commit(r) \/ CommitUnacknowledged(r)
  <2>1. hexGrids \subseteq hexGrids'
    BY <1>11 DEF Commit, CommitUnacknowledged, CommitTables
  <2>2. Outcome(req'[r], hexGrids, config, changes)
    BY <1>1, <1>11 DEF Commit, CommitUnacknowledged, To, Answer, Outcome, Sound, Handler,
                       OpenTx, InFlight, Refusals, PastZone, PastChecks
  <2>. QED BY <2>1, <2>2, MoreRows
<1>12. CASE EmitOccupied(r)
  BY <1>1, <1>12 DEF EmitOccupied, UnchangedTables, Outcome, Sound, Handler, OpenTx,
                     InFlight, Refusals, PastZone, PastChecks
<1>13. CASE HandleOccupied(r)
  BY <1>1, <1>13 DEF HandleOccupied, UnchangedTables, Outcome, Sound, Handler, OpenTx,
                     InFlight, Refusals, PastZone, PastChecks
<1>14. CASE DbError(r)
  BY <1>1, <1>14 DEF DbError, UnchangedTables, Outcome, Sound, Handler, OpenTx,
                     InFlight, Refusals, PastZone, PastChecks, Validating
<1>. QED BY <1>2, <1>3, <1>4, <1>5, <1>6, <1>7, <1>8, <1>9, <1>10, <1>11, <1>12, <1>13, <1>14
            DEF Serve

(* A step of one handler leaves the others where they are. *)
LEMMA OthersWait ==
  ASSUME IInv, NEW r \in Requests,
         \/ Receive(r) \/ Serve(r) \/ Fetch(r) \/ CommitUnacknowledged(r) \/ DbError(r)
  PROVE  \A s \in Requests \ {r} : req'[s] = req[s]
<1>1. req \in [Requests -> Handler]
  BY DEF IInv, TypeOK
<1>2. CASE Receive(r)
  <2>1. PICK kind \in {"occupy", "validate"}, u \in Users, c \in Coordinates :
          req' = [req EXCEPT
            ![r].kind = kind, ![r].userId = u, ![r].at = c,
            ![r].phase = IF SumIsZero(c) THEN "countCell" ELSE "done",
            ![r].answer = IF SumIsZero(c) THEN "none" ELSE "badRequest"]
    BY <1>2 DEF Receive
  <2>. QED BY <1>1, <2>1
<1>3. CASE DbError(r) \/ CommitUnacknowledged(r)
  BY <1>1, <1>3 DEF DbError, CommitUnacknowledged, Answer
<1>4. CASE EmitOccupied(r)
  BY <1>1, <1>4 DEF EmitOccupied
<1>5. CASE CountCell(r) \/ CheckZone(r) \/ CountAll(r) \/ CountNear(r) \/ CountOwner(r)
  BY <1>1, <1>5 DEF CountCell, CheckZone, CountAll, CountNear, CountOwner, To, Answer
<1>6. CASE Fetch(r)
  BY <1>1, <1>6 DEF Fetch, FetchOk, FetchRetryable, FetchFatal, To, Answer
<1>7. CASE Insert(r) \/ SavePending(r)
  BY <1>1, <1>7 DEF Insert, SavePending, To, Answer
<1>8. CASE Commit(r) \/ HandleOccupied(r)
  BY <1>1, <1>8 DEF Commit, HandleOccupied, To, Answer
<1>. QED BY <1>2, <1>3, <1>4, <1>5, <1>6, <1>7, <1>8 DEF Serve

(* Whoever is not the one to move keeps its outcome. *)
LEMMA OutcomesKept ==
  ASSUME IInv, OutcomeInv, NEW r \in Requests,
         \/ Receive(r) \/ Serve(r) \/ Fetch(r) \/ CommitUnacknowledged(r) \/ DbError(r)
  PROVE  \A s \in Requests : Outcome(req'[s], hexGrids', config', changes')
<1>1. UNCHANGED <<config, changes>> /\ hexGrids \subseteq hexGrids'
  BY DEF Receive, Serve, Fetch, CommitUnacknowledged, DbError, CountCell, CheckZone, CountAll,
         CountNear, CountOwner, FetchOk, FetchRetryable, FetchFatal, Insert, SavePending, Commit,
         CommitTables, EmitOccupied, HandleOccupied, UnchangedTables, UnchangedRest
<1>2. \A s \in Requests \ {r} : req'[s] = req[s]
  BY OthersWait
<1>3. \A s \in Requests \ {r} : Outcome(req[s], hexGrids', config, changes)
  BY <1>1, MoreRows DEF OutcomeInv
<1>. QED BY <1>1, <1>2, <1>3, OwnOutcome

(* The row and its queue entry are committed together. *)
LEMMA CommitQueues ==
  ASSUME IInv, OutcomeInv, NEW r \in Requests, Commit(r) \/ CommitUnacknowledged(r)
  PROVE  QueuedWithGrid'
<1>1. /\ hexGrids' = hexGrids \cup {RowOf(r)}
      /\ pendings' = IF req[r].queued THEN pendings \cup {req[r].gridId} ELSE pendings
      /\ UNCHANGED <<config, changes>>
  BY DEF Commit, CommitUnacknowledged, CommitTables, UnchangedRest
<1>2. changes = 0 => req[r].queued = config.upload
  BY DEF OutcomeInv, Outcome, Commit, CommitUnacknowledged
<1>3. RowOf(r).id = req[r].gridId
  BY DEF RowOf
<1>4. {g.id : g \in hexGrids'} = {g.id : g \in hexGrids} \cup {req[r].gridId}
  BY <1>1, <1>3
<1>. QED BY <1>1, <1>2, <1>4 DEF OutcomeInv, QueuedWithGrid

(* The listener of a second request of a user would need a second grid. *)
LEMMA HandlingInvites ==
  ASSUME IInv, OutcomeInv, NEW r \in Requests, HandleOccupied(r), NEW u \in Users
  PROVE  Invited(u)'
<1>1. /\ req \in [Requests -> Handler] /\ invitations \in [Users -> Nat] /\ Invited(u)
      /\ req[r].invite = "event" /\ req' = [req EXCEPT ![r].invite = "handled"]
      /\ invitations' = IF config.invite THEN [invitations EXCEPT ![req[r].userId] = @ + 1]
                        ELSE invitations
  BY DEF IInv, TypeOK, OutcomeInv, HandleOccupied
<1>2. req[r].gridId # 0 /\ req[r].userId \in Users
  BY <1>1 DEF OutcomeInv, Outcome, Handler
<1>3. /\ req'[r].invite = "handled" /\ req'[r].userId = req[r].userId
      /\ \A s \in Requests \ {r} : req'[s] = req[s]
  BY <1>1 DEF Handler
<1>4. CASE u = req[r].userId /\ config.invite
  <2>1. ASSUME NEW s \in Requests, req[s].invite = "handled", req[s].userId = u PROVE FALSE
    <3>1. s # r /\ req[s].gridId # 0
      BY <1>1, <2>1 DEF OutcomeInv, Outcome
    <3>. QED BY <1>2, <1>4, <2>1, <3>1 DEF IInv, DistinctInv, Apart
  <2>2. invitations[u] = 0
    BY <1>1, <2>1 DEF Invited
  <2>3. invitations'[u] = 1
    BY <1>1, <1>4, <2>2
  <2>. QED BY <1>3, <1>4, <2>3 DEF Invited
<1>5. CASE ~(u = req[r].userId /\ config.invite)
  <2>1. invitations'[u] = invitations[u]
    BY <1>1, <1>5
  <2>. QED BY <1>1, <1>3, <2>1 DEF Invited
<1>. QED BY <1>4, <1>5

(* Steps of handlers keep queue and invitations. *)
LEMMA HandlerOutcome ==
  ASSUME IInv, OutcomeInv, NEW r \in Requests,
         \/ Receive(r) \/ Serve(r) \/ Fetch(r) \/ CommitUnacknowledged(r) \/ DbError(r)
  PROVE  OutcomeInv'
<1>1. QueuedWithGrid'
  <2>1. CASE Commit(r) \/ CommitUnacknowledged(r)
    BY <2>1, CommitQueues
  <2>2. CASE ~(Commit(r) \/ CommitUnacknowledged(r))
    <3>1. UNCHANGED <<hexGrids, pendings, config, changes>>
      BY <2>2 DEF Receive, Serve, Fetch, DbError, CountCell, CheckZone, CountAll, CountNear,
                  CountOwner, FetchOk, FetchRetryable, FetchFatal, Insert, SavePending,
                  EmitOccupied, HandleOccupied, UnchangedTables, UnchangedRest
    <3>. QED BY <3>1 DEF OutcomeInv, QueuedWithGrid
  <2>. QED BY <2>1, <2>2
<1>2. \A u \in Users : Invited(u)'
  <2>1. CASE HandleOccupied(r)
    BY <2>1, HandlingInvites
  <2>2. CASE ~HandleOccupied(r)
    <3>1. UNCHANGED invitations
      BY <2>2 DEF Receive, Serve, Fetch, CommitUnacknowledged, DbError, CountCell, CheckZone,
                  CountAll, CountNear, CountOwner, FetchOk, FetchRetryable, FetchFatal, Insert,
                  SavePending, Commit, EmitOccupied, UnchangedRest
    <3>2. req[r].invite = "handled" => UNCHANGED req[r]
      <4> SUFFICES ASSUME req[r].invite = "handled" PROVE FALSE
        OBVIOUS
      <4>1. req[r].phase = "done"
        BY DEF OutcomeInv, Outcome
      <4>. QED BY <2>2, <4>1 DEF Receive, Serve, Fetch, CommitUnacknowledged, DbError, CountCell,
                  CheckZone, CountAll, CountNear, CountOwner, FetchOk, FetchRetryable, FetchFatal,
                  Insert, SavePending, Commit, EmitOccupied, InFlight, Validating, OpenTx
    <3>3. \A s \in Requests \ {r} : req'[s] = req[s]
      BY OthersWait
    <3>. QED BY <3>1, <3>2, <3>3 DEF OutcomeInv, Invited
  <2>. QED BY <2>1, <2>2
<1>. QED BY <1>1, <1>2, OutcomesKept DEF OutcomeInv

(* An edit of the configuration ends what was claimed of the first one. *)
LEMMA ConfigOutcome ==
  ASSUME IInv, OutcomeInv, ChangeConfig
  PROVE  OutcomeInv'
<1>1. UNCHANGED <<hexGrids, pendings, req, invitations>> /\ changes' # 0
  BY DEF ChangeConfig, UnchangedTables, IInv, TypeOK
<1>2. \A r \in Requests : Outcome(req'[r], hexGrids', config', changes')
  BY <1>1 DEF OutcomeInv, Outcome
<1>3. QueuedWithGrid' /\ \A u \in Users : Invited(u)'
  BY <1>1 DEF OutcomeInv, QueuedWithGrid, Invited
<1>. QED BY <1>2, <1>3 DEF OutcomeInv

(* A crash makes nothing of a handler that it had not committed, and takes back no
   answer. *)
LEMMA CrashOutcome ==
  ASSUME IInv, OutcomeInv, Crash
  PROVE  OutcomeInv'
<1>1. UNCHANGED <<hexGrids, pendings, config, invitations, changes>>
  BY DEF Crash, UnchangedTables
<1>2. ASSUME NEW r \in Requests
      PROVE  /\ Outcome(req'[r], hexGrids, config, changes)
             /\ req[r].invite = "handled" => req'[r].invite = "handled"
             /\ req'[r].userId = req[r].userId
  <2>1. req[r] \in Handler /\ Sound(req[r]) /\ Outcome(req[r], hexGrids, config, changes)
    BY DEF IInv, TypeOK, HandlerInv, OutcomeInv
  <2>2. CASE req[r].phase \in InFlight
    <3>1. req'[r] = [req[r] EXCEPT !.phase = "done", !.answer = "lost",
                       !.gridId = IF req[r].phase = "emit" THEN @ ELSE 0,
                       !.queued = @ /\ req[r].phase = "emit"]
      BY <2>2 DEF Crash
    <3>2. /\ req'[r].phase = "done" /\ req'[r].answer = "lost" /\ req'[r].at = req[r].at
          /\ req'[r].invite = req[r].invite /\ req'[r].userId = req[r].userId
          /\ req'[r].gridId # 0 => req[r].gridId # 0
      BY <2>1, <3>1 DEF Handler
    <3>3. req[r].invite = "none"
      BY <2>1, <2>2 DEF Outcome, InFlight, Validating, OpenTx
    <3>. QED BY <2>1, <3>2, <3>3 DEF Outcome, Refusals, PastZone, PastChecks
  <2>3. CASE req[r].phase \notin InFlight
    <3>1. req'[r] = [req[r] EXCEPT !.invite = IF @ = "event" THEN "lost" ELSE @]
      BY <2>3 DEF Crash
    <3>2. /\ req'[r].phase = req[r].phase /\ req'[r].answer = req[r].answer
          /\ req'[r].at = req[r].at /\ req'[r].userId = req[r].userId
          /\ req'[r].gridId = req[r].gridId /\ req'[r].radius = req[r].radius
          /\ req'[r].queued = req[r].queued /\ req'[r].sawEmpty = req[r].sawEmpty
          /\ req'[r].invite = IF req[r].invite = "event" THEN "lost" ELSE req[r].invite
      BY <2>1, <3>1 DEF Handler
    <3>. QED BY <2>1, <3>2 DEF Outcome
  <2>. QED BY <2>2, <2>3
<1>3. QueuedWithGrid'
  BY <1>1 DEF OutcomeInv, QueuedWithGrid
<1>. QED BY <1>1, <1>2, <1>3 DEF OutcomeInv, Invited

(* Nothing has come of requests that have not arrived. *)
LEMMA InitOutcome == ASSUME Init PROVE OutcomeInv
<1>1. PICK u \in Users : req = [r \in Requests |-> NoRequest(u)]
  BY DEF Init
<1>2. \A G, c, n : Outcome(NoRequest(u), G, c, n)
  BY DEF Outcome, NoRequest, Refusals, PastZone, PastChecks
<1>3. QueuedWithGrid
  BY DEF Init, QueuedWithGrid
<1>. QED BY <1>1, <1>2, <1>3 DEF Init, OutcomeInv, Invited

(* No step takes back an outcome. *)
LEMMA NextOutcome ==
  ASSUME IInv, OutcomeInv, [Next]_vars
  PROVE  OutcomeInv'
<1>1. CASE UNCHANGED vars
  BY <1>1 DEF vars, OutcomeInv, QueuedWithGrid, Invited
<1>. QED BY <1>1, HandlerOutcome, ConfigOutcome, CrashOutcome DEF Next

(* Outcomes agree with the tables in every reachable state. *)
THEOREM OutcomeInvariance == Spec => []OutcomeInv
<1>1. Init => OutcomeInv
  BY InitOutcome
<1>2. IInv /\ OutcomeInv /\ [Next]_vars => OutcomeInv'
  BY NextOutcome
<1>. QED BY <1>1, <1>2, Invariance, PTL DEF Spec

(* A client is told 201 only of a committed row, and refused only for a reason that
   still holds. *)
THEOREM AnswersAreTrue == Spec => []AnswersTruthful
<1>1. IInv /\ OutcomeInv => AnswersTruthful
  <2> SUFFICES ASSUME IInv, OutcomeInv, NEW r \in Requests
               PROVE  LET h == req[r] IN
                 /\ h.answer = "created" => RowOf(r) \in hexGrids
                 /\ h.answer \in Refusals => h.gridId = 0
                 /\ h.answer \in {"conflict", "duplicate"} =>
                      \E g \in hexGrids : g.userId = h.userId \/ g.at = h.at
                 /\ h.answer = "badRequest" =>
                      ~SumIsZero(h.at) \/ InForbiddenZone(h.at, h.radius) \/ hexGrids # {}
                 /\ h.answer = "valid" => SumIsZero(h.at) /\ ~InForbiddenZone(h.at, h.radius)
    BY DEF AnswersTruthful, Refusals
  <2>1. Outcome(req[r], hexGrids, config, changes)
    BY DEF OutcomeInv
  <2>2. req[r].answer = "created" => Committed(r)
    BY <2>1 DEF Outcome, Committed
  <2>3. Committed(r) => RowOf(r) \in hexGrids
    BY DEF IInv, TableInv
  <2>. QED BY <2>1, <2>2, <2>3 DEF Outcome
<1>. QED BY <1>1, Invariance, OutcomeInvariance, PTL

(* Until the radius is edited nobody owns a grid in the forbidden zone. *)
THEOREM ZoneIsEmpty == Spec => []ZoneStaysEmpty
<1>1. IInv /\ OutcomeInv => ZoneStaysEmpty
  BY DEF IInv, TableInv, OutcomeInv, Outcome, ZoneStaysEmpty, Committed, RowOf
<1>. QED BY <1>1, Invariance, OutcomeInvariance, PTL

(* A grid and its hex_grid_pending row appear together. *)
THEOREM GridsAreQueued == Spec => []QueuedWithGrid
<1>1. OutcomeInv => QueuedWithGrid
  BY DEF OutcomeInv
<1>. QED BY <1>1, OutcomeInvariance, PTL

(* A user is invited at most once, and only as the owner of a committed grid. *)
THEOREM OwnersAreInvitedOnce == Spec => []InvitationPerOwner
<1>1. ASSUME IInv, OutcomeInv PROVE InvitationPerOwner
  <2> SUFFICES ASSUME NEW u \in Users
               PROVE  /\ invitations[u] <= 1
                      /\ invitations[u] = 1 => \E g \in hexGrids : g.userId = u
    BY DEF InvitationPerOwner
  <2>1. Invited(u)
    BY <1>1 DEF OutcomeInv
  <2>2. ASSUME NEW r \in Requests, req[r].invite = "handled", req[r].userId = u
        PROVE  \E g \in hexGrids : g.userId = u
    <3>1. req[r].gridId # 0 /\ req[r].phase = "done"
      BY <1>1, <2>2 DEF OutcomeInv, Outcome
    <3>2. RowOf(r) \in hexGrids
      BY <1>1, <3>1 DEF IInv, TableInv, Committed
    <3>3. RowOf(r).userId = u
      BY <2>2 DEF RowOf
    <3>. QED BY <3>2, <3>3
  <2>. QED BY <2>1, <2>2 DEF Invited
<1>. QED BY <1>1, Invariance, OutcomeInvariance, PTL
-----------------------------------------------------------------------------
(* The refinement: each step of a handler is a step of the registry. *)

\* Awaits of a request that is a pioneer if it found no land.
Waiting == {"countOwner", "fetch", "insert", "pending", "commit"}

ClaimOf(r) == [userId |-> req[r].userId, at |-> req[r].at]

(* The registry speaks of the same plane. *)
LEMMA SamePlane ==
  /\ \A c : Registry!SumIsZero(c) <=> SumIsZero(c)
  /\ \A a, b : Registry!Near(a, b) <=> Near(a, b)
BY DEF Registry!SumIsZero, SumIsZero, Registry!Near, Near, Registry!Abs, Abs

(* Handlers that touch neither land nor acknowledgements only leave the pioneers. *)
LEMMA QuietStep ==
  ASSUME IInv, UNCHANGED hexGrids,
         \A r \in Requests :
           /\ req'[r].answer = "created" <=> req[r].answer = "created"
           /\ req[r].answer = "created" =>
                req'[r].userId = req[r].userId /\ req'[r].at = req[r].at
           /\ req'[r].sawEmpty /\ req'[r].phase \in Waiting =>
                req[r].sawEmpty /\ req[r].phase \in Waiting
  PROVE  Registry!Next
<1>1. Acknowledged' = Acknowledged
  BY DEF Acknowledged
<1>2. Pioneers' \in SUBSET Pioneers
  BY DEF Pioneers, Waiting
<1>3. Claims(hexGrids)' = Claims(hexGrids)
  BY DEF Claims
<1>4. Registry!Withdraw
  BY <1>1, <1>2, <1>3 DEF Registry!Withdraw
<1>. QED BY <1>4 DEF Registry!Next

(* The count that finds an empty map admits a request. *)
LEMMA AdmitStep ==
  ASSUME IInv, OutcomeInv, NEW r \in Requests, CountAll(r)
  PROVE  Registry!Next
<1>1. /\ req \in [Requests -> Handler] /\ req[r] \in Handler /\ req[r].phase = "countAll"
      /\ req[r].answer = "none" /\ UNCHANGED hexGrids
  BY DEF IInv, TypeOK, OutcomeInv, Outcome, CountAll, UnchangedTables
<1>2. \A s \in Requests \ {r} : req'[s] = req[s]
  BY <1>1 DEF CountAll, To
<1>3. CASE hexGrids = {} /\ req[r].kind = "occupy"
  <2>1. /\ req'[r].sawEmpty /\ req'[r].phase = "countOwner" /\ req'[r].answer = "none"
    BY <1>1, <1>3 DEF CountAll, AfterValidation, AnswerAfterValidation, Handler
  <2>2. Pioneers' = Pioneers \cup {r}
    BY <1>2, <2>1 DEF Pioneers
  <2>3. Acknowledged' = Acknowledged
    BY <1>1, <1>2, <2>1 DEF Acknowledged
  <2>4. Claims(hexGrids) = {} /\ Claims(hexGrids)' = Claims(hexGrids)
    BY <1>1, <1>3 DEF Claims
  <2>5. Registry!Admit(r)
    BY <2>2, <2>3, <2>4 DEF Registry!Admit
  <2>. QED BY <2>5 DEF Registry!Next
<1>4. CASE ~(hexGrids = {} /\ req[r].kind = "occupy")
  <2>1. req'[r].phase \notin Waiting /\ req'[r].answer # "created"
    BY <1>1, <1>4 DEF CountAll, To, AfterValidation, AnswerAfterValidation, Handler, Waiting
  <2>2. \A s \in Requests :
           /\ req'[s].answer = "created" <=> req[s].answer = "created"
           /\ req[s].answer = "created" =>
                req'[s].userId = req[s].userId /\ req'[s].at = req[s].at
           /\ req'[s].sawEmpty /\ req'[s].phase \in Waiting =>
                req[s].sawEmpty /\ req[s].phase \in Waiting
    BY <1>1, <1>2, <2>1
  <2>. QED BY <1>1, <2>2, QuietStep
<1>. QED BY <1>3, <1>4

(* A commit grants a claim, to a pioneer or next to land. *)
LEMMA GrantStep ==
  ASSUME IInv, OutcomeInv, NEW r \in Requests, Commit(r) \/ CommitUnacknowledged(r)
  PROVE  Registry!Next
<1>1. /\ req \in [Requests -> Handler] /\ req[r] \in Handler /\ req[r].phase = "commit"
      /\ req[r].answer = "none" /\ hexGrids' = hexGrids \cup {RowOf(r)}
  BY DEF IInv, TypeOK, OutcomeInv, Outcome, Commit, CommitUnacknowledged, CommitTables
<1>2. req[r].gridId # 0 /\ SumIsZero(req[r].at)
  BY <1>1 DEF IInv, HandlerInv, Sound, OpenTx
<1>3. \A s \in Requests \ {r} : req'[s] = req[s]
  BY <1>1 DEF Commit, CommitUnacknowledged, To, Answer
<1>4. req'[r].phase \notin Waiting /\ req'[r].answer # "created"
  BY <1>1 DEF Commit, CommitUnacknowledged, To, Answer, Handler, Waiting
<1>5. Acknowledged' = Acknowledged
  BY <1>1, <1>3, <1>4 DEF Acknowledged
<1>6. Pioneers' = Pioneers \ {r}
  BY <1>3, <1>4 DEF Pioneers, Waiting
<1>7. Claims(hexGrids)' = Claims(hexGrids) \cup {ClaimOf(r)}
  <2>1. RowOf(r).userId = req[r].userId /\ RowOf(r).at = req[r].at
    BY DEF RowOf
  <2>. QED BY <1>1, <2>1 DEF Claims, ClaimOf
<1>8. ClaimOf(r) \in Registry!Claim
  BY <1>1 DEF ClaimOf, Registry!Claim, Handler
<1>9. Registry!Free(ClaimOf(r))
  <2>1. ASSUME NEW g \in hexGrids PROVE g.userId # req[r].userId /\ g.at # req[r].at
    <3>1. PICK s \in Requests : Committed(s) /\ g = RowOf(s)
      BY DEF IInv, TableInv
    <3>2. s # r
      BY <1>1, <3>1 DEF Committed
    <3>. QED BY <1>2, <3>1, <3>2 DEF IInv, DistinctInv, Apart, Committed, RowOf
  <2>. QED BY <1>2, <2>1, SamePlane DEF Registry!Free, Claims, ClaimOf
<1>10. CASE req[r].sawEmpty
  <2>1. r \in Pioneers
    BY <1>1, <1>10 DEF Pioneers
  <2>2. Registry!Found(r, ClaimOf(r))
    BY <1>5, <1>6, <1>7, <1>9, <2>1 DEF Registry!Found
  <2>. QED BY <1>8, <2>2 DEF Registry!Next
<1>11. CASE ~req[r].sawEmpty
  <2>1. PICK g \in hexGrids : Near(req[r].at, g.at)
    BY <1>1, <1>11 DEF IInv, HandlerInv, Supported, PastChecks
  <2>2. \E c \in Claims(hexGrids) : Registry!Near(ClaimOf(r).at, c.at)
    <3> DEFINE c == [userId |-> g.userId, at |-> g.at]
    <3>1. c \in Claims(hexGrids)
      BY DEF Claims
    <3>2. c.at = g.at /\ ClaimOf(r).at = req[r].at
      BY DEF ClaimOf
    <3> HIDE DEF c
    <3>3. Registry!Near(ClaimOf(r).at, c.at)
      BY <2>1, <3>2, SamePlane
    <3>. QED BY <3>1, <3>3
  <2>3. Pioneers' = Pioneers
    BY <1>6, <1>11 DEF Pioneers
  <2>4. Registry!Settle(ClaimOf(r))
    BY <1>5, <1>7, <1>9, <2>2, <2>3 DEF Registry!Settle
  <2>. QED BY <1>8, <2>4 DEF Registry!Next
<1>. QED BY <1>10, <1>11

(* The answer 201 acknowledges a granted claim. *)
LEMMA AcknowledgeStep ==
  ASSUME IInv, OutcomeInv, NEW r \in Requests, EmitOccupied(r)
  PROVE  Registry!Next
<1>1. /\ req \in [Requests -> Handler] /\ req[r] \in Handler /\ req[r].phase = "emit"
      /\ UNCHANGED hexGrids
  BY DEF IInv, TypeOK, EmitOccupied, UnchangedTables
<1>2. RowOf(r) \in hexGrids
  BY <1>1 DEF IInv, HandlerInv, Sound, TableInv, Committed
<1>3. /\ \A s \in Requests \ {r} : req'[s] = req[s]
      /\ req'[r].answer = "created" /\ req'[r].phase = "done"
      /\ req'[r].userId = req[r].userId /\ req'[r].at = req[r].at
  BY <1>1 DEF EmitOccupied, Handler
<1>4. req[r].answer = "none"
  BY <1>1 DEF OutcomeInv, Outcome
<1>5. Acknowledged' = Acknowledged \cup {ClaimOf(r)}
  BY <1>3, <1>4 DEF Acknowledged, ClaimOf
<1>6. Pioneers' = Pioneers
  BY <1>1, <1>3 DEF Pioneers
<1>7. ClaimOf(r) \in Claims(hexGrids) /\ Claims(hexGrids)' = Claims(hexGrids)
  BY <1>1, <1>2 DEF Claims, ClaimOf, RowOf
<1>8. ClaimOf(r) \in Registry!Claim
  BY <1>1 DEF ClaimOf, Registry!Claim, Handler
<1>9. Registry!Acknowledge(ClaimOf(r))
  BY <1>5, <1>6, <1>7 DEF Registry!Acknowledge
<1>. QED BY <1>8, <1>9 DEF Registry!Next

(* Every other step of a handler is quiet. *)
LEMMA OtherHandlerStep ==
  ASSUME IInv, OutcomeInv, NEW r \in Requests,
         \/ Receive(r) \/ CountCell(r) \/ CheckZone(r) \/ CountNear(r) \/ CountOwner(r)
         \/ Fetch(r) \/ Insert(r) \/ SavePending(r) \/ HandleOccupied(r) \/ DbError(r)
  PROVE  Registry!Next
<1>1. /\ req \in [Requests -> Handler] /\ req[r] \in Handler /\ Sound(req[r])
      /\ Outcome(req[r], hexGrids, config, changes)
  BY DEF IInv, TypeOK, HandlerInv, OutcomeInv
<1>2. UNCHANGED hexGrids
  BY DEF Receive, CountCell, CheckZone, CountNear, CountOwner, Fetch, FetchOk, FetchRetryable,
         FetchFatal, Insert, SavePending, HandleOccupied, DbError, UnchangedTables
<1>3. \A s \in Requests \ {r} : req'[s] = req[s]
  BY OthersWait DEF Serve
<1>4. /\ req'[r].answer = "created" <=> req[r].answer = "created"
      /\ req[r].answer = "created" =>
           req'[r].userId = req[r].userId /\ req'[r].at = req[r].at
      /\ req'[r].sawEmpty /\ req'[r].phase \in Waiting =>
           req[r].sawEmpty /\ req[r].phase \in Waiting
  <2>1. CASE Receive(r)
    <3>1. PICK kind \in {"occupy", "validate"}, u \in Users, c \in Coordinates :
            req' = [req EXCEPT
              ![r].kind = kind, ![r].userId = u, ![r].at = c,
              ![r].phase = IF SumIsZero(c) THEN "countCell" ELSE "done",
              ![r].answer = IF SumIsZero(c) THEN "none" ELSE "badRequest"]
      BY <2>1 DEF Receive
    <3>2. req'[r].answer \in {"none", "badRequest"} /\ req'[r].phase \in {"countCell", "done"}
      BY <1>1, <3>1 DEF Handler
    <3>3. req[r].answer = "none"
      BY <1>1, <2>1 DEF Receive, Outcome
    <3>. QED BY <3>2, <3>3 DEF Waiting
  <2>2. CASE CountCell(r) \/ CheckZone(r)
    BY <1>1, <2>2 DEF CountCell, CheckZone, To, Answer, Outcome, Handler, Waiting
  <2>3. CASE CountNear(r)
    BY <1>1, <2>3 DEF CountNear, Answer, Outcome, Handler, Waiting, AfterValidation,
                      AnswerAfterValidation
  <2>4. CASE CountOwner(r) \/ Insert(r) \/ SavePending(r)
    BY <1>1, <2>4 DEF CountOwner, Insert, SavePending, To, Answer, Outcome, Handler, Waiting
  <2>5. CASE Fetch(r)
    BY <1>1, <2>5 DEF Fetch, FetchOk, FetchRetryable, FetchFatal, To, Answer, Outcome, Handler,
                      Waiting
  <2>6. CASE HandleOccupied(r)
    BY <1>1, <2>6 DEF HandleOccupied, Handler
  <2>7. CASE DbError(r)
    BY <1>1, <2>7 DEF DbError, Outcome, Handler, Waiting, InFlight, Validating, OpenTx
  <2>. QED BY <2>1, <2>2, <2>3, <2>4, <2>5, <2>6, <2>7
<1>5. \A s \in Requests :
        /\ req'[s].answer = "created" <=> req[s].answer = "created"
        /\ req[s].answer = "created" =>
             req'[s].userId = req[s].userId /\ req'[s].at = req[s].at
        /\ req'[s].sawEmpty /\ req'[s].phase \in Waiting =>
             req[s].sawEmpty /\ req[s].phase \in Waiting
  BY <1>3, <1>4
<1>. QED BY <1>2, <1>5, QuietStep

(* A crash sends pioneers home and takes back no acknowledgement. *)
LEMMA CrashIsWithdrawal ==
  ASSUME IInv, OutcomeInv, Crash
  PROVE  Registry!Next
<1>1. UNCHANGED hexGrids
  BY DEF Crash, UnchangedTables
<1>2. ASSUME NEW r \in Requests
      PROVE  /\ req'[r].answer = "created" <=> req[r].answer = "created"
             /\ req[r].answer = "created" =>
                  req'[r].userId = req[r].userId /\ req'[r].at = req[r].at
             /\ req'[r].sawEmpty /\ req'[r].phase \in Waiting =>
                  req[r].sawEmpty /\ req[r].phase \in Waiting
  <2>1. req[r] \in Handler /\ Outcome(req[r], hexGrids, config, changes)
    BY DEF IInv, TypeOK, OutcomeInv
  <2>2. CASE req[r].phase \in InFlight
    <3>1. req'[r] = [req[r] EXCEPT !.phase = "done", !.answer = "lost",
                       !.gridId = IF req[r].phase = "emit" THEN @ ELSE 0,
                       !.queued = @ /\ req[r].phase = "emit"]
      BY <2>2 DEF Crash
    <3>2. req'[r].phase = "done" /\ req'[r].answer = "lost"
      BY <2>1, <3>1 DEF Handler
    <3>3. req[r].answer = "none"
      BY <2>1, <2>2 DEF Outcome, InFlight, Validating, OpenTx
    <3>. QED BY <3>2, <3>3 DEF Waiting
  <2>3. CASE req[r].phase \notin InFlight
    <3>1. req'[r] = [req[r] EXCEPT !.invite = IF @ = "event" THEN "lost" ELSE @]
      BY <2>3 DEF Crash
    <3>2. /\ req'[r].phase = req[r].phase /\ req'[r].answer = req[r].answer
          /\ req'[r].at = req[r].at /\ req'[r].userId = req[r].userId
          /\ req'[r].sawEmpty = req[r].sawEmpty
      BY <2>1, <3>1 DEF Handler
    <3>. QED BY <3>2
  <2>. QED BY <2>2, <2>3
<1>. QED BY <1>1, <1>2, QuietStep

(* Each step is one of the registry. *)
LEMMA NextImplements ==
  ASSUME IInv, OutcomeInv, [Next]_vars
  PROVE  [Registry!Next]_(Registry!registryVars)
<1>1. CASE UNCHANGED vars
  BY <1>1 DEF vars, Registry!registryVars, Claims, Pioneers, Acknowledged
<1>2. CASE ChangeConfig
  BY <1>2, QuietStep DEF ChangeConfig, UnchangedTables
<1>3. CASE Crash
  BY <1>3, CrashIsWithdrawal
<1>4. ASSUME NEW r \in Requests,
             Receive(r) \/ Serve(r) \/ Fetch(r) \/ CommitUnacknowledged(r) \/ DbError(r)
      PROVE  Registry!Next
  BY <1>4, AdmitStep, GrantStep, AcknowledgeStep, OtherHandlerStep DEF Serve
<1>. QED BY <1>1, <1>2, <1>3, <1>4 DEF Next

(* No land, no pioneers, no acknowledgements. *)
LEMMA InitImplements == ASSUME Init PROVE Registry!Init
<1>1. PICK u \in Users : req = [r \in Requests |-> NoRequest(u)]
  BY DEF Init
<1>2. \A r \in Requests : ~req[r].sawEmpty /\ req[r].answer = "none"
  BY <1>1 DEF NoRequest
<1>. QED BY <1>2 DEF Init, Registry!Init, Claims, Pioneers, Acknowledged

(* occupy with all its awaits, races, faults and crashes implements the registry
   that grants claims atomically. *)
THEOREM OccupyImplementsRegistry == Spec => ImplementsRegistry
<1>1. Init => Registry!Init
  BY InitImplements
<1>2. IInv /\ OutcomeInv /\ [Next]_vars => [Registry!Next]_(Registry!registryVars)
  BY NextImplements
<1>. QED BY <1>1, <1>2, Invariance, OutcomeInvariance, PTL
         DEF Spec, ImplementsRegistry, Registry!Spec
-----------------------------------------------------------------------------
(* How many founders there can be.  A founder saw the empty map, so it was under way
   when the first of them committed, and nobody joins them afterwards. *)
Flying == {r \in Requests : req[r].phase \in InFlight}

Founding(r) == Committed(r) /\ req[r].sawEmpty

\* Requests that have founded, or may yet.
Settlers == Pioneers \cup {r \in Requests : Founding(r)}

Bounded(S) == IsFiniteSet(S) /\ Cardinality(S) <= MaxInFlight

FounderInv == Bounded(Flying) /\ (hexGrids # {} => Bounded(Settlers))

(* A part of a bounded set is bounded. *)
LEMMA PartIsBounded ==
  ASSUME NEW S, NEW T, Bounded(S), T \subseteq S
  PROVE  Bounded(T)
<1>1. IsFiniteSet(T) /\ Cardinality(T) <= Cardinality(S)
  BY FS_Subset DEF Bounded
<1>2. Cardinality(S) \in Nat /\ Cardinality(T) \in Nat
  BY <1>1, FS_CardinalityType DEF Bounded
<1>. QED BY <1>1, <1>2, MaxInFlightAssumption DEF Bounded

(* The server takes no more requests than it may handle. *)
LEMMA FlyingStaysBounded ==
  ASSUME IInv, FounderInv, NEW r \in Requests,
         \/ Receive(r) \/ Serve(r) \/ Fetch(r) \/ CommitUnacknowledged(r) \/ DbError(r)
  PROVE  Bounded(Flying')
<1>1. \A s \in Requests \ {r} : req'[s] = req[s]
  BY OthersWait
<1>2. CASE Receive(r)
  <2>1. Flying' \subseteq Flying \cup {r}
    BY <1>1 DEF Flying
  <2>2. /\ IsFiniteSet(Flying) /\ IsFiniteSet(Flying \cup {r})
        /\ Cardinality(Flying \cup {r}) <= Cardinality(Flying) + 1
        /\ Cardinality(Flying) \in Nat
    BY FS_AddElement, FS_CardinalityType DEF FounderInv, Bounded
  <2>3. Cardinality(Flying) < MaxInFlight
    BY <1>2 DEF Receive, Flying
  <2>4. Cardinality(Flying \cup {r}) \in Nat
    BY <2>2, FS_CardinalityType
  <2>5. Bounded(Flying \cup {r})
    BY <2>2, <2>3, <2>4, MaxInFlightAssumption DEF Bounded
  <2>. QED BY <2>1, <2>5, PartIsBounded
<1>3. CASE HandleOccupied(r)
  <2>1. req'[r].phase = req[r].phase
    BY <1>3 DEF HandleOccupied, IInv, TypeOK, Handler
  <2>2. Flying' = Flying
    BY <1>1, <2>1 DEF Flying
  <2>. QED BY <2>2 DEF FounderInv
<1>4. CASE ~Receive(r) /\ ~HandleOccupied(r)
  <2>1. req[r].phase \in InFlight
    BY <1>4 DEF Serve, Fetch, CommitUnacknowledged, DbError, CountCell, CheckZone, CountAll,
                CountNear, CountOwner, FetchOk, FetchRetryable, FetchFatal, Insert, SavePending,
                Commit, EmitOccupied, InFlight, Validating, OpenTx
  <2>2. Flying' \subseteq Flying
    BY <1>1, <2>1 DEF Flying
  <2>. QED BY <2>2, PartIsBounded DEF FounderInv
<1>. QED BY <1>2, <1>3, <1>4

(* Nobody becomes a settler beside a grid. *)
LEMMA NoLateSettler ==
  ASSUME IInv, OutcomeInv, NEW r \in Requests, hexGrids # {},
         \/ Receive(r) \/ Serve(r) \/ Fetch(r) \/ CommitUnacknowledged(r) \/ DbError(r),
         r \in Settlers'
  PROVE  r \in Settlers
<1>1. req \in [Requests -> Handler] /\ req[r] \in Handler /\ Sound(req[r])
  BY DEF IInv, TypeOK, HandlerInv
<1> DEFINE Settles(h) ==
      h.sawEmpty /\ (h.phase \in Waiting \/ (h.gridId # 0 /\ h.phase \in {"emit", "done"}))
<1>2. (r \in Settlers <=> Settles(req[r])) /\ (r \in Settlers' <=> Settles(req'[r]))
  BY DEF Settlers, Pioneers, Founding, Committed, Waiting
<1>3. Settles(req'[r])
  BY <1>2
<1>4. CASE Receive(r)
  <2>1. PICK kind \in {"occupy", "validate"}, u \in Users, c \in Coordinates :
          req' = [req EXCEPT
            ![r].kind = kind, ![r].userId = u, ![r].at = c,
            ![r].phase = IF SumIsZero(c) THEN "countCell" ELSE "done",
            ![r].answer = IF SumIsZero(c) THEN "none" ELSE "badRequest"]
    BY <1>4 DEF Receive
  <2>2. /\ req'[r].phase \in {"countCell", "done"}
        /\ req'[r].gridId = req[r].gridId /\ req[r].phase = "idle"
    BY <1>1, <1>4, <2>1 DEF Receive, Handler
  <2>. QED BY <1>1, <1>3, <2>2 DEF Sound, OpenTx, Waiting
<1>5. CASE CountCell(r) \/ CheckZone(r) \/ CountAll(r) \/ CountNear(r) \/ CountOwner(r)
  <2>1. CASE CountAll(r)
    <3>1. req'[r].phase = "countNear"
      BY <1>1, <2>1 DEF CountAll, To, Handler
    <3>. QED BY <1>3, <3>1 DEF Waiting
  <2>2. CASE CountNear(r)
    <3>1. /\ req[r].phase = "countNear" /\ req'[r].sawEmpty = req[r].sawEmpty
          /\ req'[r].gridId = req[r].gridId
      BY <1>1, <2>2 DEF CountNear, Answer, Handler
    <3>2. ~req[r].sawEmpty
      BY <3>1 DEF OutcomeInv, Outcome
    <3>. QED BY <1>3, <3>1, <3>2
  <2>. QED BY <1>1, <1>2, <1>3, <1>5, <2>1, <2>2 DEF CountCell, CheckZone, CountOwner, To, Answer,
              Handler, Sound, OpenTx, Waiting
<1>6. CASE Fetch(r)
  BY <1>1, <1>2, <1>3, <1>6 DEF Fetch, FetchOk, FetchRetryable, FetchFatal, To, Answer, Handler,
                                Sound, OpenTx, Waiting
<1>7. CASE Insert(r) \/ SavePending(r)
  BY <1>1, <1>2, <1>3, <1>7 DEF Insert, SavePending, Answer, Handler, Sound, OpenTx, Waiting
<1>8. CASE Commit(r) \/ CommitUnacknowledged(r) \/ EmitOccupied(r) \/ HandleOccupied(r)
  BY <1>1, <1>2, <1>3, <1>8 DEF Commit, CommitUnacknowledged, EmitOccupied, HandleOccupied, To,
                                Answer, Handler, Sound, OpenTx, Waiting
<1>9. CASE DbError(r)
  BY <1>1, <1>3, <1>9 DEF DbError, Handler, Waiting
<1>. QED BY <1>4, <1>5, <1>6, <1>7, <1>8, <1>9 DEF Serve

(* The first grid is committed beside the other settlers, and all are under way. *)
LEMMA FoundersHandler ==
  ASSUME IInv, OutcomeInv, FounderInv, NEW r \in Requests,
         \/ Receive(r) \/ Serve(r) \/ Fetch(r) \/ CommitUnacknowledged(r) \/ DbError(r)
  PROVE  FounderInv'
<1>1. \A s \in Requests \ {r} : req'[s] = req[s]
  BY OthersWait
<1>2. \A s \in Requests \ {r} : s \in Settlers' <=> s \in Settlers
  BY <1>1 DEF Settlers, Pioneers, Founding, Committed
<1>3. CASE hexGrids # {}
  <2>1. Settlers' \subseteq Settlers
    <3>1. Settlers' \subseteq Requests
      BY DEF Settlers, Pioneers
    <3>. QED BY <1>2, <1>3, <3>1, NoLateSettler
  <2>. QED BY <1>3, <2>1, PartIsBounded, FlyingStaysBounded DEF FounderInv
<1>4. CASE hexGrids = {} /\ hexGrids' # {}
  <2>1. Commit(r) \/ CommitUnacknowledged(r)
    BY <1>4 DEF Receive, Serve, Fetch, DbError, CountCell, CheckZone, CountAll, CountNear,
       CountOwner, FetchOk, FetchRetryable, FetchFatal, Insert, SavePending, EmitOccupied,
       HandleOccupied, UnchangedTables
  <2>2. r \in Flying
    BY <2>1 DEF Commit, CommitUnacknowledged, Flying, InFlight, OpenTx
  <2>3. \A s \in Requests : ~Founding(s)
    BY <1>4 DEF Founding, IInv, TableInv
  <2>4. Settlers \subseteq Flying
    BY <2>3 DEF Settlers, Pioneers, Flying, InFlight, Validating, OpenTx
  <2>5. Settlers' \subseteq Flying
    BY <1>2, <2>2, <2>4 DEF Settlers, Pioneers
  <2>. QED BY <2>5, PartIsBounded, FlyingStaysBounded DEF FounderInv
<1>5. CASE hexGrids = {} /\ hexGrids' = {}
  BY <1>5, FlyingStaysBounded DEF FounderInv
<1>. QED BY <1>3, <1>4, <1>5

(* A crash ends whoever was under way, and makes nobody a founder. *)
LEMMA FoundersCrash ==
  ASSUME IInv, FounderInv, Crash
  PROVE  FounderInv'
<1>1. UNCHANGED hexGrids
  BY DEF Crash, UnchangedTables
<1>2. ASSUME NEW r \in Requests
      PROVE  /\ req'[r].phase \notin InFlight
             /\ r \in Settlers' => r \in Settlers
  <2>1. req[r] \in Handler
    BY DEF IInv, TypeOK
  <2>2. CASE req[r].phase \in InFlight
    <3>1. req'[r] = [req[r] EXCEPT !.phase = "done", !.answer = "lost",
                       !.gridId = IF req[r].phase = "emit" THEN @ ELSE 0,
                       !.queued = @ /\ req[r].phase = "emit"]
      BY <2>2 DEF Crash
    <3>2. /\ req'[r].phase = "done" /\ req'[r].sawEmpty = req[r].sawEmpty
          /\ req'[r].gridId = IF req[r].phase = "emit" THEN req[r].gridId ELSE 0
      BY <2>1, <3>1 DEF Handler
    <3>. QED BY <3>2 DEF Settlers, Pioneers, Founding, Committed, InFlight, Validating, OpenTx
  <2>3. CASE req[r].phase \notin InFlight
    <3>1. req'[r] = [req[r] EXCEPT !.invite = IF @ = "event" THEN "lost" ELSE @]
      BY <2>3 DEF Crash
    <3>2. /\ req'[r].phase = req[r].phase
          /\ req'[r].sawEmpty = req[r].sawEmpty /\ req'[r].gridId = req[r].gridId
      BY <2>1, <3>1 DEF Handler
    <3>. QED BY <2>3, <3>2 DEF Settlers, Pioneers, Founding, Committed
  <2>. QED BY <2>2, <2>3
<1>3. Flying' \subseteq Flying /\ Settlers' \subseteq Settlers
  BY <1>2 DEF Flying, Settlers, Pioneers
<1>. QED BY <1>1, <1>3, PartIsBounded DEF FounderInv

(* No step makes more settlers beside a grid than requests could be under way. *)
LEMMA NextFounders ==
  ASSUME IInv, OutcomeInv, FounderInv, [Next]_vars
  PROVE  FounderInv'
<1>1. CASE UNCHANGED <<hexGrids, req>>
  BY <1>1 DEF FounderInv, Bounded, Flying, Settlers, Pioneers, Founding, Committed
<1>2. ChangeConfig \/ UNCHANGED vars => UNCHANGED <<hexGrids, req>>
  BY DEF ChangeConfig, UnchangedTables, vars
<1>. QED BY <1>1, <1>2, FoundersHandler, FoundersCrash DEF Next

(* Settlers are bounded from the first grid on. *)
LEMMA FoundersInvariance == Spec => []FounderInv
<1>1. Init => FounderInv
  <2> SUFFICES ASSUME Init PROVE FounderInv
    OBVIOUS
  <2>1. Flying = {} /\ hexGrids = {}
    BY DEF Init, NoRequest, Flying, InFlight, Validating, OpenTx
  <2>. QED BY <2>1, FS_EmptySet, MaxInFlightAssumption DEF FounderInv, Bounded
<1>2. IInv /\ OutcomeInv /\ FounderInv /\ [Next]_vars => FounderInv'
  BY NextFounders
<1>. QED BY <1>1, <1>2, Invariance, OutcomeInvariance, PTL DEF Spec

(* The request behind a grid of a founder founded it. *)
LEMMA FounderOfGrid ==
  ASSUME IInv, NEW g \in hexGrids, Founder(g)
  PROVE  \E r \in Requests : RowOf(r) = g /\ Founding(r)
<1>1. PICK r \in Requests : Committed(r) /\ g = RowOf(r)
  BY DEF IInv, TableInv
<1>2. PICK s \in Requests : RowOf(s) = g /\ req[s].sawEmpty
  BY DEF Founder
<1>3. req[s].gridId = req[r].gridId /\ req[r].gridId # 0
  BY <1>1, <1>2 DEF RowOf, Committed
<1>4. r = s
  BY <1>3 DEF IInv, DistinctInv, Apart
<1>. QED BY <1>1, <1>2, <1>4 DEF Founding

(* However many users come, the map has no more founders, and so no more islands, than
   the server handles requests at the same time. *)
THEOREM FoundersAreBounded == Spec => []FoundersWereTogether
<1>1. ASSUME IInv, FounderInv PROVE FoundersWereTogether
  <2> DEFINE F == {r \in Requests : Founding(r)}
             rows == {RowOf(r) : r \in F}
             founded == {g \in hexGrids : Founder(g)}
  <2>1. founded \subseteq rows
    BY <1>1, FounderOfGrid
  <2>2. CASE hexGrids = {}
    <3>1. founded = {}
      BY <2>2
    <3>. QED BY <3>1, FS_EmptySet, MaxInFlightAssumption DEF FoundersWereTogether
  <2>3. CASE hexGrids # {}
    <3>1. Bounded(F)
      <4>1. F \subseteq Settlers
        BY DEF Settlers
      <4>. QED BY <1>1, <2>3, <4>1, PartIsBounded DEF FounderInv
    <3> DEFINE row == [r \in F |-> RowOf(r)]
    <3>2. row \in Surjection(F, rows)
      BY DEF Surjection
    <3>3. IsFiniteSet(rows) /\ Cardinality(rows) <= Cardinality(F)
      BY <3>1, <3>2, FS_Surjection DEF Bounded
    <3> HIDE DEF F, rows, row
    <3>4. Cardinality(rows) \in Nat /\ Cardinality(F) \in Nat
      BY <3>1, <3>3, FS_CardinalityType DEF Bounded
    <3>5. Bounded(rows)
      BY <3>1, <3>3, <3>4, MaxInFlightAssumption DEF Bounded
    <3>6. Bounded(founded)
      BY <2>1, <3>5, PartIsBounded
    <3>. QED BY <3>6 DEF Bounded, FoundersWereTogether
  <2>. QED BY <2>2, <2>3
<1>. QED BY <1>1, Invariance, FoundersInvariance, PTL
=============================================================================
