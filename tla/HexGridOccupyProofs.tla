------------------------ MODULE HexGridOccupyProofs ------------------------
(* The safety of HexGridsService.occupy for any number of users, requests,
   cells, configurations and crashes. *)
EXTENDS HexGridOccupy, HexGeometryProofs, NaturalFacts

(* The inductive invariant.  The properties speak of committed rows; what makes
   them inductive is what each handler carries before its commit. *)

PastChecks == {"countOwner", "fetch", "insert", "pending", "commit", "emit"}

\* A handler h whose row has an id has it exactly between its INSERT and the
\* rollback, and everything it passed through was checked.
Sound(h) ==
  /\ h.phase \in OpenTx \cup {"emit"} => h.gridId # 0
  /\ h.gridId # 0 => h.phase \in OpenTx \cup {"emit", "done"}
  /\ h.phase \in InFlight => SumIsZero(h.at)
  /\ h.gridId # 0 => SumIsZero(h.at) /\ h.kind = "occupy"
  /\ h.phase \in PastChecks => h.kind = "occupy"
  /\ h.phase # "done" => h.retryCount <= MaxRetry

\* A handler past the adjacency check found the map empty, or rests on a grid
\* that was committed then and has therefore a smaller id than its own.
Supported(h, grids) ==
  h.phase \in PastChecks \/ h.gridId # 0 =>
    \/ h.sawEmpty
    \/ \E g \in grids : Near(h.at, g.at) /\ (h.gridId # 0 => g.id < h.gridId)

HandlerInv ==
  \A r \in Requests : Sound(req[r]) /\ Supported(req[r], hexGrids)

\* Ids are handed out once.
IdInv == \A r \in Requests : req[r].gridId < nextId

\* The table holds the rows of the requests past their commit, and no other.
TableInv ==
  /\ \A r \in Requests : Committed(r) => RowOf(r) \in hexGrids
  /\ \A g \in hexGrids : \E r \in Requests : Committed(r) /\ g = RowOf(r)

\* Two inserted rows share neither id, nor user, nor cell.
Apart(h, k) ==
  h.gridId # 0 /\ k.gridId # 0 =>
    h.gridId # k.gridId /\ h.userId # k.userId /\ h.at # k.at

DistinctInv == \A r, s \in Requests : r # s => Apart(req[r], req[s])

IInv == TypeOK /\ HandlerInv /\ IdInv /\ TableInv /\ DistinctInv
-----------------------------------------------------------------------------
(* A step of one handler that touches no table and neither gains nor loses its
   row keeps the invariant if the handler itself stays sound and supported. *)
LEMMA HandlerStep ==
  ASSUME IInv, NEW r \in Requests, NEW h \in Handler,
         req' = [req EXCEPT ![r] = h],
         UNCHANGED <<hexGrids, nextId>>,
         h.gridId = req[r].gridId,
         h.gridId # 0 =>
           /\ h.userId = req[r].userId
           /\ h.at = req[r].at
           /\ h.phase \in OpenTx <=> req[r].phase \in OpenTx,
         Sound(h), Supported(h, hexGrids)
  PROVE  /\ req' \in [Requests -> Handler]
         /\ HandlerInv' /\ IdInv' /\ TableInv' /\ DistinctInv'
<1>1. /\ req \in [Requests -> Handler]
      /\ req'[r] = h
      /\ \A s \in Requests \ {r} : req'[s] = req[s]
  BY DEF IInv, TypeOK
<1>2. req' \in [Requests -> Handler]
  BY <1>1
<1>3. HandlerInv'
  BY <1>1 DEF IInv, HandlerInv
<1>4. IdInv'
  BY <1>1 DEF IInv, IdInv
<1>5. \A s \in Requests : Committed(s)' <=> Committed(s)
  BY <1>1 DEF IInv, HandlerInv, Committed, Sound, OpenTx
<1>6. \A s \in Requests : Committed(s) => RowOf(s)' = RowOf(s)
  BY <1>1 DEF Committed, RowOf
<1>7. TableInv'
  BY <1>5, <1>6 DEF IInv, TableInv
<1>8. DistinctInv'
  BY <1>1 DEF IInv, DistinctInv, Apart
<1>. QED BY <1>2, <1>3, <1>4, <1>7, <1>8

(* The steps of a handler that touch no table, one case for each. *)
LEMMA ReceiveStep ==
  ASSUME IInv, NEW r \in Requests, Receive(r)
  PROVE  IInv'
<1>1. PICK kind \in {"occupy", "validate"}, u \in Users, c \in Coordinates :
        req' = [req EXCEPT
          ![r].kind = kind, ![r].userId = u, ![r].at = c,
          ![r].phase = IF SumIsZero(c) THEN "countCell" ELSE "done",
          ![r].answer = IF SumIsZero(c) THEN "none" ELSE "badRequest"]
  BY DEF Receive
<1> DEFINE h == [req[r] EXCEPT
          !.kind = kind, !.userId = u, !.at = c,
          !.phase = IF SumIsZero(c) THEN "countCell" ELSE "done",
          !.answer = IF SumIsZero(c) THEN "none" ELSE "badRequest"]
<1>2. req[r] \in Handler /\ req[r].phase = "idle"
  BY DEF IInv, TypeOK, Receive
<1>3. req[r].gridId = 0 /\ req[r].retryCount <= MaxRetry
  BY <1>2 DEF IInv, HandlerInv, Sound, OpenTx
<1>4. h \in Handler
  BY <1>2 DEF Handler, Phases, InFlight, Validating, Answers
<1>5. req' = [req EXCEPT ![r] = h]
  BY <1>1 DEF IInv, TypeOK
<1>6. Sound(h) /\ Supported(h, hexGrids)
  BY <1>2, <1>3 DEF Sound, Supported, OpenTx, InFlight, Validating, PastChecks, Handler
<1>7. h.gridId = 0
  BY <1>2, <1>3 DEF Handler
<1>8. UNCHANGED <<hexGrids, nextId, pendings, config, invitations, changes, crashes>>
  BY DEF Receive, UnchangedTables, UnchangedRest
<1> HIDE DEF h
<1>9. req' \in [Requests -> Handler] /\ HandlerInv' /\ IdInv' /\ TableInv' /\ DistinctInv'
  BY <1>3, <1>4, <1>5, <1>6, <1>7, <1>8, HandlerStep
<1>. QED BY <1>8, <1>9 DEF IInv, TypeOK

(* The count of the cell changes nothing but the handler's phase. *)
LEMMA CountCellStep ==
  ASSUME IInv, NEW r \in Requests, CountCell(r)
  PROVE  IInv'
<1> DEFINE h == [req[r] EXCEPT 
      !.phase = IF \E g \in hexGrids : g.at = req[r].at THEN "done" ELSE "zone",
      !.answer = IF \E g \in hexGrids : g.at = req[r].at THEN "conflict" ELSE @]
<1>1. req[r] \in Handler /\ Sound(req[r]) /\ Supported(req[r], hexGrids)
  BY DEF IInv, TypeOK, HandlerInv
<1>2. h \in Handler
  BY <1>1 DEF CountCell, Handler, Phases, InFlight, Validating, OpenTx, Answers
<1>3. req' = [req EXCEPT ![r] = h]
  BY <1>1 DEF CountCell, To, Answer, IInv, TypeOK, Handler
<1>4. /\ h.gridId = req[r].gridId /\ h.userId = req[r].userId /\ h.at = req[r].at
      /\ h.phase \in OpenTx <=> req[r].phase \in OpenTx
  BY <1>1 DEF CountCell, Handler, OpenTx, AfterValidation
<1>5. Sound(h) /\ Supported(h, hexGrids)
  BY <1>1 DEF CountCell, Sound, Supported, Handler, OpenTx, InFlight, Validating,
              PastChecks
<1>6. UNCHANGED <<hexGrids, nextId, pendings, config, invitations, changes, crashes>>
  BY DEF CountCell, UnchangedTables, UnchangedRest
<1> HIDE DEF h
<1>7. req' \in [Requests -> Handler] /\ HandlerInv' /\ IdInv' /\ TableInv' /\ DistinctInv'
  BY <1>2, <1>3, <1>4, <1>5, <1>6, HandlerStep
<1>. QED BY <1>6, <1>7 DEF IInv, TypeOK

(* The zone check changes nothing but the handler's phase and radius. *)
LEMMA CheckZoneStep ==
  ASSUME IInv, NEW r \in Requests, CheckZone(r)
  PROVE  IInv'
<1> DEFINE h == [req[r] EXCEPT 
      !.radius = config.radius,
      !.phase = IF InForbiddenZone(req[r].at, config.radius) THEN "done" ELSE "countAll",
      !.answer = IF InForbiddenZone(req[r].at, config.radius) THEN "badRequest" ELSE "none"]
<1>1. req[r] \in Handler /\ Sound(req[r]) /\ Supported(req[r], hexGrids)
  BY DEF IInv, TypeOK, HandlerInv
<1>2. h \in Handler
  BY <1>1, ConfigsAssumption DEF CheckZone, Handler, Phases, InFlight, Validating, OpenTx, Answers, IInv, TypeOK
<1>3. req' = [req EXCEPT ![r] = h]
  BY <1>1 DEF CheckZone, To, Answer, IInv, TypeOK, Handler
<1>4. /\ h.gridId = req[r].gridId /\ h.userId = req[r].userId /\ h.at = req[r].at
      /\ h.phase \in OpenTx <=> req[r].phase \in OpenTx
  BY <1>1 DEF CheckZone, Handler, OpenTx, AfterValidation
<1>5. Sound(h) /\ Supported(h, hexGrids)
  BY <1>1 DEF CheckZone, Sound, Supported, Handler, OpenTx, InFlight, Validating,
              PastChecks
<1>6. UNCHANGED <<hexGrids, nextId, pendings, config, invitations, changes, crashes>>
  BY DEF CheckZone, UnchangedTables, UnchangedRest
<1> HIDE DEF h
<1>7. req' \in [Requests -> Handler] /\ HandlerInv' /\ IdInv' /\ TableInv' /\ DistinctInv'
  BY <1>2, <1>3, <1>4, <1>5, <1>6, HandlerStep
<1>. QED BY <1>6, <1>7 DEF IInv, TypeOK

(* A handler that skips the adjacency check has found the map empty. *)
LEMMA CountAllStep ==
  ASSUME IInv, NEW r \in Requests, CountAll(r)
  PROVE  IInv'
<1> DEFINE h == [req[r] EXCEPT 
      !.sawEmpty = IF hexGrids = {} THEN TRUE ELSE @,
      !.phase = IF hexGrids = {} THEN AfterValidation(r) ELSE "countNear",
      !.answer = IF hexGrids = {} THEN AnswerAfterValidation(r) ELSE @]
<1>1. req[r] \in Handler /\ Sound(req[r]) /\ Supported(req[r], hexGrids)
  BY DEF IInv, TypeOK, HandlerInv
<1>2. h \in Handler
  BY <1>1 DEF CountAll, Handler, Phases, InFlight, Validating, OpenTx, Answers, AfterValidation, AnswerAfterValidation
<1>3. req' = [req EXCEPT ![r] = h]
  BY <1>1 DEF CountAll, To, Answer, IInv, TypeOK, Handler
<1>4. /\ h.gridId = req[r].gridId /\ h.userId = req[r].userId /\ h.at = req[r].at
      /\ h.phase \in OpenTx <=> req[r].phase \in OpenTx
  BY <1>1 DEF CountAll, Handler, OpenTx, AfterValidation
<1>5. Sound(h) /\ Supported(h, hexGrids)
  BY <1>1 DEF CountAll, Sound, Supported, Handler, OpenTx, InFlight, Validating,
              PastChecks, AfterValidation
<1>6. UNCHANGED <<hexGrids, nextId, pendings, config, invitations, changes, crashes>>
  BY DEF CountAll, UnchangedTables, UnchangedRest
<1> HIDE DEF h
<1>7. req' \in [Requests -> Handler] /\ HandlerInv' /\ IdInv' /\ TableInv' /\ DistinctInv'
  BY <1>2, <1>3, <1>4, <1>5, <1>6, HandlerStep
<1>. QED BY <1>6, <1>7 DEF IInv, TypeOK

(* A handler that passes the adjacency check rests on a committed grid, whose id
   is smaller than any the handler can be given. *)
LEMMA CountNearStep ==
  ASSUME IInv, NEW r \in Requests, CountNear(r)
  PROVE  IInv'
<1> DEFINE h == [req[r] EXCEPT 
      !.phase = IF \E g \in hexGrids : Near(req[r].at, g.at) THEN AfterValidation(r) ELSE "done",
      !.answer = IF \E g \in hexGrids : Near(req[r].at, g.at)
                   THEN AnswerAfterValidation(r) ELSE "badRequest"]
<1>1. req[r] \in Handler /\ Sound(req[r]) /\ Supported(req[r], hexGrids)
  BY DEF IInv, TypeOK, HandlerInv
<1>2. h \in Handler
  BY <1>1 DEF CountNear, Handler, Phases, InFlight, Validating, OpenTx, Answers, AfterValidation, AnswerAfterValidation
<1>3. req' = [req EXCEPT ![r] = h]
  BY <1>1 DEF CountNear, To, Answer, IInv, TypeOK, Handler
<1>4. /\ h.gridId = req[r].gridId /\ h.userId = req[r].userId /\ h.at = req[r].at
      /\ h.phase \in OpenTx <=> req[r].phase \in OpenTx
  BY <1>1 DEF CountNear, Handler, OpenTx, AfterValidation
<1>5. Sound(h) /\ Supported(h, hexGrids)
  BY <1>1 DEF CountNear, Sound, Supported, Handler, OpenTx, InFlight, Validating,
              PastChecks, AfterValidation
<1>6. UNCHANGED <<hexGrids, nextId, pendings, config, invitations, changes, crashes>>
  BY DEF CountNear, UnchangedTables, UnchangedRest
<1> HIDE DEF h
<1>7. req' \in [Requests -> Handler] /\ HandlerInv' /\ IdInv' /\ TableInv' /\ DistinctInv'
  BY <1>2, <1>3, <1>4, <1>5, <1>6, HandlerStep
<1>. QED BY <1>6, <1>7 DEF IInv, TypeOK

(* The count of the user's grids changes nothing but the handler's phase. *)
LEMMA CountOwnerStep ==
  ASSUME IInv, NEW r \in Requests, CountOwner(r)
  PROVE  IInv'
<1> DEFINE h == [req[r] EXCEPT 
      !.phase = IF \E g \in hexGrids : g.userId = req[r].userId THEN "done" ELSE "fetch",
      !.answer = IF \E g \in hexGrids : g.userId = req[r].userId THEN "conflict" ELSE @]
<1>1. req[r] \in Handler /\ Sound(req[r]) /\ Supported(req[r], hexGrids)
  BY DEF IInv, TypeOK, HandlerInv
<1>2. h \in Handler
  BY <1>1 DEF CountOwner, Handler, Phases, InFlight, Validating, OpenTx, Answers
<1>3. req' = [req EXCEPT ![r] = h]
  BY <1>1 DEF CountOwner, To, Answer, IInv, TypeOK, Handler
<1>4. /\ h.gridId = req[r].gridId /\ h.userId = req[r].userId /\ h.at = req[r].at
      /\ h.phase \in OpenTx <=> req[r].phase \in OpenTx
  BY <1>1 DEF CountOwner, Handler, OpenTx, AfterValidation
<1>5. Sound(h) /\ Supported(h, hexGrids)
  BY <1>1 DEF CountOwner, Sound, Supported, Handler, OpenTx, InFlight, Validating,
              PastChecks
<1>6. UNCHANGED <<hexGrids, nextId, pendings, config, invitations, changes, crashes>>
  BY DEF CountOwner, UnchangedTables, UnchangedRest
<1> HIDE DEF h
<1>7. req' \in [Requests -> Handler] /\ HandlerInv' /\ IdInv' /\ TableInv' /\ DistinctInv'
  BY <1>2, <1>3, <1>4, <1>5, <1>6, HandlerStep
<1>. QED BY <1>6, <1>7 DEF IInv, TypeOK

(* A reply of the CMS changes nothing but the handler's phase. *)
LEMMA FetchOkStep ==
  ASSUME IInv, NEW r \in Requests, FetchOk(r)
  PROVE  IInv'
<1> DEFINE h == [req[r] EXCEPT  !.phase = "insert"]
<1>1. req[r] \in Handler /\ Sound(req[r]) /\ Supported(req[r], hexGrids)
  BY DEF IInv, TypeOK, HandlerInv
<1>2. h \in Handler
  BY <1>1 DEF FetchOk, Handler, Phases, InFlight, Validating, OpenTx, Answers
<1>3. req' = [req EXCEPT ![r] = h]
  BY <1>1 DEF FetchOk, To, Answer, IInv, TypeOK, Handler
<1>4. /\ h.gridId = req[r].gridId /\ h.userId = req[r].userId /\ h.at = req[r].at
      /\ h.phase \in OpenTx <=> req[r].phase \in OpenTx
  BY <1>1 DEF FetchOk, Handler, OpenTx, AfterValidation
<1>5. Sound(h) /\ Supported(h, hexGrids)
  BY <1>1 DEF FetchOk, Sound, Supported, Handler, OpenTx, InFlight, Validating,
              PastChecks
<1>6. UNCHANGED <<hexGrids, nextId, pendings, config, invitations, changes, crashes>>
  BY DEF FetchOk, UnchangedTables, UnchangedRest
<1> HIDE DEF h
<1>7. req' \in [Requests -> Handler] /\ HandlerInv' /\ IdInv' /\ TableInv' /\ DistinctInv'
  BY <1>2, <1>3, <1>4, <1>5, <1>6, HandlerStep
<1>. QED BY <1>6, <1>7 DEF IInv, TypeOK

(* A failed fetch ends the handler before it has a row. *)
LEMMA FetchFatalStep ==
  ASSUME IInv, NEW r \in Requests, FetchFatal(r)
  PROVE  IInv'
<1> DEFINE h == [req[r] EXCEPT  !.phase = "done", !.answer = "error"]
<1>1. req[r] \in Handler /\ Sound(req[r]) /\ Supported(req[r], hexGrids)
  BY DEF IInv, TypeOK, HandlerInv
<1>2. h \in Handler
  BY <1>1 DEF FetchFatal, Handler, Phases, InFlight, Validating, OpenTx, Answers
<1>3. req' = [req EXCEPT ![r] = h]
  BY <1>1 DEF FetchFatal, To, Answer, IInv, TypeOK, Handler
<1>4. /\ h.gridId = req[r].gridId /\ h.userId = req[r].userId /\ h.at = req[r].at
      /\ h.phase \in OpenTx <=> req[r].phase \in OpenTx
  BY <1>1 DEF FetchFatal, Handler, OpenTx, AfterValidation
<1>5. Sound(h) /\ Supported(h, hexGrids)
  BY <1>1 DEF FetchFatal, Sound, Supported, Handler, OpenTx, InFlight, Validating,
              PastChecks
<1>6. UNCHANGED <<hexGrids, nextId, pendings, config, invitations, changes, crashes>>
  BY DEF FetchFatal, UnchangedTables, UnchangedRest
<1> HIDE DEF h
<1>7. req' \in [Requests -> Handler] /\ HandlerInv' /\ IdInv' /\ TableInv' /\ DistinctInv'
  BY <1>2, <1>3, <1>4, <1>5, <1>6, HandlerStep
<1>. QED BY <1>6, <1>7 DEF IInv, TypeOK

(* The pending row changes nothing that the invariant speaks of. *)
LEMMA SavePendingStep ==
  ASSUME IInv, NEW r \in Requests, SavePending(r)
  PROVE  IInv'
<1> DEFINE h == [req[r] EXCEPT  !.phase = "commit", !.queued = config.upload]
<1>1. req[r] \in Handler /\ Sound(req[r]) /\ Supported(req[r], hexGrids)
  BY DEF IInv, TypeOK, HandlerInv
<1>2. h \in Handler
  BY <1>1, ConfigsAssumption DEF SavePending, Handler, Phases, InFlight, Validating, OpenTx, Answers, IInv, TypeOK
<1>3. req' = [req EXCEPT ![r] = h]
  BY <1>1 DEF SavePending, To, Answer, IInv, TypeOK, Handler
<1>4. /\ h.gridId = req[r].gridId /\ h.userId = req[r].userId /\ h.at = req[r].at
      /\ h.phase \in OpenTx <=> req[r].phase \in OpenTx
  BY <1>1 DEF SavePending, Handler, OpenTx, AfterValidation
<1>5. Sound(h) /\ Supported(h, hexGrids)
  BY <1>1 DEF SavePending, Sound, Supported, Handler, OpenTx, InFlight, Validating,
              PastChecks
<1>6. UNCHANGED <<hexGrids, nextId, pendings, config, invitations, changes, crashes>>
  BY DEF SavePending, UnchangedTables, UnchangedRest
<1> HIDE DEF h
<1>7. req' \in [Requests -> Handler] /\ HandlerInv' /\ IdInv' /\ TableInv' /\ DistinctInv'
  BY <1>2, <1>3, <1>4, <1>5, <1>6, HandlerStep
<1>. QED BY <1>6, <1>7 DEF IInv, TypeOK

(* The emission ends the handler and keeps its row. *)
LEMMA EmitOccupiedStep ==
  ASSUME IInv, NEW r \in Requests, EmitOccupied(r)
  PROVE  IInv'
<1> DEFINE h == [req[r] EXCEPT  !.phase = "done", !.answer = "created", !.invite = "event"]
<1>1. req[r] \in Handler /\ Sound(req[r]) /\ Supported(req[r], hexGrids)
  BY DEF IInv, TypeOK, HandlerInv
<1>2. h \in Handler
  BY <1>1 DEF EmitOccupied, Handler, Phases, InFlight, Validating, OpenTx, Answers
<1>3. req' = [req EXCEPT ![r] = h]
  BY <1>1 DEF EmitOccupied, To, Answer, IInv, TypeOK, Handler
<1>4. /\ h.gridId = req[r].gridId /\ h.userId = req[r].userId /\ h.at = req[r].at
      /\ h.phase \in OpenTx <=> req[r].phase \in OpenTx
  BY <1>1 DEF EmitOccupied, Handler, OpenTx, AfterValidation
<1>5. Sound(h) /\ Supported(h, hexGrids)
  BY <1>1 DEF EmitOccupied, Sound, Supported, Handler, OpenTx, InFlight, Validating,
              PastChecks
<1>6. UNCHANGED <<hexGrids, nextId, pendings, config, invitations, changes, crashes>>
  BY DEF EmitOccupied, UnchangedTables, UnchangedRest
<1> HIDE DEF h
<1>7. req' \in [Requests -> Handler] /\ HandlerInv' /\ IdInv' /\ TableInv' /\ DistinctInv'
  BY <1>2, <1>3, <1>4, <1>5, <1>6, HandlerStep
<1>. QED BY <1>6, <1>7 DEF IInv, TypeOK

(* The invitation listener touches no row. *)
LEMMA HandleOccupiedStep ==
  ASSUME IInv, NEW r \in Requests, HandleOccupied(r)
  PROVE  IInv'
<1> DEFINE h == [req[r] EXCEPT  !.invite = "handled"]
<1>1. req[r] \in Handler /\ Sound(req[r]) /\ Supported(req[r], hexGrids)
  BY DEF IInv, TypeOK, HandlerInv
<1>2. h \in Handler
  BY <1>1 DEF HandleOccupied, Handler, Phases, InFlight, Validating, OpenTx, Answers
<1>3. req' = [req EXCEPT ![r] = h]
  BY <1>1 DEF HandleOccupied, To, Answer, IInv, TypeOK, Handler
<1>4. /\ h.gridId = req[r].gridId /\ h.userId = req[r].userId /\ h.at = req[r].at
      /\ h.phase \in OpenTx <=> req[r].phase \in OpenTx
  BY <1>1 DEF HandleOccupied, Handler, OpenTx, AfterValidation
<1>5. Sound(h) /\ Supported(h, hexGrids)
  BY <1>1 DEF HandleOccupied, Sound, Supported, Handler, OpenTx, InFlight, Validating,
              PastChecks
<1>6. UNCHANGED <<hexGrids, nextId, pendings, config, changes, crashes>>
  BY DEF HandleOccupied, UnchangedTables, UnchangedRest
<1>8. invitations' \in [Users -> Nat]
  BY <1>1 DEF HandleOccupied, IInv, TypeOK, Handler
<1> HIDE DEF h
<1>7. req' \in [Requests -> Handler] /\ HandlerInv' /\ IdInv' /\ TableInv' /\ DistinctInv'
  BY <1>2, <1>3, <1>4, <1>5, <1>6, HandlerStep
<1>. QED BY <1>6, <1>7, <1>8 DEF IInv, TypeOK

(* The retry loop keeps its count within the bound. *)
LEMMA FetchRetryableStep ==
  ASSUME IInv, NEW r \in Requests, FetchRetryable(r)
  PROVE  IInv'
<1> DEFINE count == req[r].retryCount + 1
           h == [req[r] EXCEPT
             !.retryCount = count,
             !.phase = IF count <= MaxRetry THEN "fetch" ELSE "done",
             !.answer = IF count <= MaxRetry THEN "none" ELSE "error"]
<1>1. req[r] \in Handler /\ Sound(req[r]) /\ Supported(req[r], hexGrids)
  BY DEF IInv, TypeOK, HandlerInv
<1>2. count \in 0 .. MaxRetry + 1
  BY <1>1, MaxRetryAssumption DEF FetchRetryable, Sound, Handler
<1>3. h \in Handler
  BY <1>1, <1>2 DEF Handler, Phases, InFlight, Validating, OpenTx, Answers
<1>4. req' = [req EXCEPT ![r] = h]
  BY <1>1 DEF FetchRetryable, IInv, TypeOK, Handler
<1>5. /\ h.gridId = req[r].gridId /\ h.userId = req[r].userId /\ h.at = req[r].at
      /\ h.phase \in OpenTx <=> req[r].phase \in OpenTx
  BY <1>1 DEF FetchRetryable, Handler, OpenTx
<1>6. Sound(h) /\ Supported(h, hexGrids)
  BY <1>1 DEF FetchRetryable, Sound, Supported, Handler, OpenTx, InFlight, Validating,
              PastChecks
<1>7. UNCHANGED <<hexGrids, nextId, pendings, config, invitations, changes, crashes>>
  BY DEF FetchRetryable, UnchangedTables, UnchangedRest
<1> HIDE DEF h
<1>8. req' \in [Requests -> Handler] /\ HandlerInv' /\ IdInv' /\ TableInv' /\ DistinctInv'
  BY <1>3, <1>4, <1>5, <1>6, <1>7, HandlerStep
<1>. QED BY <1>7, <1>8 DEF IInv, TypeOK

(* The insert: the unique indexes and the locks of open transactions keep the
   new row apart from every other, and the id is fresh. *)
LEMMA InsertStep ==
  ASSUME IInv, NEW r \in Requests, Insert(r)
  PROVE  IInv'
<1>1. /\ req \in [Requests -> Handler] /\ nextId \in Nat \ {0}
      /\ \A s \in Requests : req[s] \in Handler /\ Sound(req[s]) /\ Supported(req[s], hexGrids)
  BY DEF IInv, TypeOK, HandlerInv
<1>2. req[r].phase = "insert" /\ req[r].gridId = 0
  BY <1>1 DEF Insert, Sound, OpenTx
<1>3. UNCHANGED <<hexGrids, pendings, config, invitations, changes, crashes>> /\ nextId' = nextId + 1
  BY DEF Insert, UnchangedRest
<1>4. CASE ViolatesUniqueIndex(r)
  <2> DEFINE h == [req[r] EXCEPT !.phase = "done", !.answer = "duplicate"]
  <2>1. h \in Handler /\ req' = [req EXCEPT ![r] = h]
    <3>1. h \in Handler
      BY <1>1 DEF Handler, Phases, Answers
    <3>2. req' = [req EXCEPT ![r] = h]
      BY <1>1, <1>4 DEF Insert, Answer, Handler
    <3>. QED BY <3>1, <3>2
  <2>2. h.gridId = 0 /\ Sound(h) /\ Supported(h, hexGrids) /\ h.phase = "done"
    BY <1>1, <1>2 DEF Sound, Supported, Handler, OpenTx, InFlight, Validating, PastChecks
  <2> HIDE DEF h
  <2>3. req'[r] = h /\ \A s \in Requests \ {r} : req'[s] = req[s]
    BY <1>1, <2>1
  <2>4. TypeOK'
    BY <1>3, <2>1 DEF IInv, TypeOK
  <2>5. HandlerInv' /\ IdInv'
    BY <1>1, <1>3, <2>2, <2>3 DEF IInv, HandlerInv, IdInv, Handler
  <2>6. TableInv'
    BY <1>2, <1>3, <2>2, <2>3 DEF IInv, TableInv, Committed, RowOf
  <2>7. DistinctInv'
    BY <2>2, <2>3 DEF IInv, DistinctInv, Apart
  <2>. QED BY <2>4, <2>5, <2>6, <2>7 DEF IInv
<1>5. CASE ~ViolatesUniqueIndex(r)
  <2> DEFINE h == [req[r] EXCEPT !.phase = "pending", !.gridId = nextId]
  <2>1. h \in Handler /\ req' = [req EXCEPT ![r] = h]
    <3>1. h \in Handler
      <4>1. req[r] \in Handler /\ "pending" \in Phases /\ nextId \in Nat
        BY <1>1 DEF Phases, InFlight, OpenTx
      <4>2. QED BY <4>1 DEF Handler
    <3>2. req' = [req EXCEPT ![r] = h]
      BY <1>1, <1>5 DEF Insert, Handler
    <3>. QED BY <3>1, <3>2
  <2>2. /\ h.gridId = nextId /\ h.phase = "pending"
        /\ h.userId = req[r].userId /\ h.at = req[r].at /\ h.sawEmpty = req[r].sawEmpty
    BY <1>1 DEF Handler
  <2>3. Sound(h)
    BY <1>1, <1>2 DEF Sound, Handler, OpenTx, InFlight, Validating, PastChecks
  <2>4. \A g \in hexGrids : g.id < nextId
    BY <1>1 DEF IInv, IdInv, TableInv, RowOf
  <2>5. Supported(h, hexGrids)
    BY <1>1, <1>2, <2>2, <2>4 DEF Supported, PastChecks
  <2> HIDE DEF h
  <2>6. req'[r] = h /\ \A s \in Requests \ {r} : req'[s] = req[s]
    BY <1>1, <2>1
  <2>7. TypeOK'
    BY <1>3, <2>1 DEF IInv, TypeOK
  <2>8. HandlerInv'
    BY <1>1, <1>3, <2>3, <2>5, <2>6 DEF HandlerInv
  <2>9. IdInv'
    BY <1>1, <1>3, <2>2, <2>6 DEF IInv, IdInv, Handler
  <2>10. TableInv'
    BY <1>2, <1>3, <2>2, <2>6 DEF IInv, TableInv, Committed, RowOf
  <2>11. ASSUME NEW s \in Requests \ {r}, req[s].gridId # 0
         PROVE  req[s].gridId < nextId /\ req[s].userId # h.userId /\ req[s].at # h.at
    <3>1. req[s].gridId < nextId
      BY DEF IInv, IdInv
    <3>2. CASE req[s].phase \in OpenTx
      BY <3>1, <3>2, <2>2 DEF Insert, LockedByOther
    <3>3. CASE req[s].phase \notin OpenTx
      <4>1. Committed(s)
        BY <1>1, <2>11, <3>3 DEF Sound, Committed
      <4>2. RowOf(s) \in hexGrids
        BY <4>1 DEF IInv, TableInv
      <4>. QED BY <1>5, <2>2, <3>1, <4>2 DEF ViolatesUniqueIndex, RowOf
    <3>. QED BY <3>2, <3>3
  <2>12. DistinctInv'
    BY <1>1, <2>2, <2>6, <2>11 DEF IInv, DistinctInv, Apart, Handler
  <2>. QED BY <2>7, <2>8, <2>9, <2>10, <2>12 DEF IInv
<1>. QED BY <1>4, <1>5

(* The commit, acknowledged or not, adds the row of the handler to the table. *)
LEMMA CommitStep ==
  ASSUME IInv, NEW r \in Requests, NEW h \in Handler,
         req[r].phase = "commit", CommitTables(r), UnchangedRest,
         req' = [req EXCEPT ![r] = h],
         h.phase \in {"emit", "done"},
         /\ h.gridId = req[r].gridId /\ h.userId = req[r].userId /\ h.at = req[r].at
         /\ h.kind = req[r].kind /\ h.sawEmpty = req[r].sawEmpty
         /\ h.retryCount = req[r].retryCount
  PROVE  IInv'
<1>1. /\ req \in [Requests -> Handler] /\ nextId \in Nat \ {0}
      /\ \A s \in Requests : req[s] \in Handler /\ Sound(req[s]) /\ Supported(req[s], hexGrids)
  BY DEF IInv, TypeOK, HandlerInv
<1>2. req'[r] = h /\ \A s \in Requests \ {r} : req'[s] = req[s]
  BY <1>1
<1>3. hexGrids' = hexGrids \cup {RowOf(r)} /\ UNCHANGED nextId
  BY DEF CommitTables
<1>4. req[r].gridId # 0 /\ Sound(h)
  BY <1>1 DEF Sound, OpenTx, InFlight, Validating, PastChecks
<1>5. \A s \in Requests \ {r} : RowOf(s)' = RowOf(s) /\ Committed(s)' = Committed(s)
  BY <1>2 DEF RowOf, Committed
<1>6. RowOf(r)' = RowOf(r) /\ Committed(r)'
  BY <1>2, <1>4 DEF RowOf, Committed
<1>7. TypeOK'
  <2>1. RowOf(r) \in Row /\ req[r].gridId \in Nat
    BY <1>1 DEF Handler, RowOf, Row
  <2>2. hexGrids' \subseteq Row /\ pendings' \subseteq Nat
    BY <2>1 DEF CommitTables, IInv, TypeOK
  <2>. QED BY <1>1, <1>3, <2>2 DEF IInv, TypeOK, UnchangedRest
<1>8. HandlerInv'
  <2>1. \A s \in Requests : Supported(req'[s], hexGrids')
    BY <1>1, <1>2, <1>3, <1>4 DEF Supported, PastChecks
  <2>2. \A s \in Requests : Sound(req'[s])
    BY <1>1, <1>2, <1>4
  <2>. QED BY <2>1, <2>2 DEF HandlerInv
<1>9. IdInv'
  BY <1>2, <1>3 DEF IInv, IdInv
<1>10. TableInv'
  BY <1>3, <1>5, <1>6 DEF IInv, TableInv
<1>11. DistinctInv'
  BY <1>2 DEF IInv, DistinctInv, Apart
<1>. QED BY <1>7, <1>8, <1>9, <1>10, <1>11 DEF IInv

(* Both ways to commit add the handler's own row to the table. *)
LEMMA CommitActions ==
  ASSUME IInv, NEW r \in Requests, Commit(r) \/ CommitUnacknowledged(r)
  PROVE  IInv'
<1>1. req \in [Requests -> Handler] /\ req[r] \in Handler
  BY DEF IInv, TypeOK
<1>2. CASE Commit(r)
  <2> DEFINE h == [req[r] EXCEPT !.phase = "emit"]
  <2>1. h \in Handler
    BY <1>1 DEF Handler, Phases, InFlight
  <2>2. req' = [req EXCEPT ![r] = h]
    BY <1>1, <1>2 DEF Commit, To, Handler
  <2>3. /\ h.gridId = req[r].gridId /\ h.userId = req[r].userId /\ h.at = req[r].at
        /\ h.kind = req[r].kind /\ h.sawEmpty = req[r].sawEmpty
        /\ h.retryCount = req[r].retryCount /\ h.phase = "emit"
    BY <1>1 DEF Handler
  <2> HIDE DEF h
  <2>. QED BY <1>2, <2>1, <2>2, <2>3, CommitStep DEF Commit
<1>3. CASE CommitUnacknowledged(r)
  <2> DEFINE h == [req[r] EXCEPT !.phase = "done", !.answer = "error"]
  <2>1. h \in Handler
    BY <1>1 DEF Handler, Phases, Answers
  <2>2. req' = [req EXCEPT ![r] = h]
    BY <1>1, <1>3 DEF CommitUnacknowledged, Answer, Handler
  <2>3. /\ h.gridId = req[r].gridId /\ h.userId = req[r].userId /\ h.at = req[r].at
        /\ h.kind = req[r].kind /\ h.sawEmpty = req[r].sawEmpty
        /\ h.retryCount = req[r].retryCount /\ h.phase = "done"
    BY <1>1 DEF Handler
  <2> HIDE DEF h
  <2>. QED BY <1>3, <2>1, <2>2, <2>3, CommitStep DEF CommitUnacknowledged
<1>. QED BY <1>2, <1>3

(* Handlers that are ended by a fault keep a committed row and lose an
   uncommitted one; Ended relates such a handler k to what it was. *)
Ended(k, h) ==
  /\ k.userId = h.userId /\ k.at = h.at /\ k.kind = h.kind /\ k.sawEmpty = h.sawEmpty
  /\ k.retryCount = h.retryCount
  /\ k.phase \in {h.phase, "done"}
  /\ k.gridId = IF h.phase \in OpenTx THEN 0 ELSE h.gridId
  /\ h.phase \in OpenTx => k.phase = "done"

(* Faults end handlers and take back the ids of rows that were not committed. *)
LEMMA FaultStep ==
  ASSUME IInv, req' \in [Requests -> Handler],
         UNCHANGED <<hexGrids, pendings, nextId, config, invitations>>,
         changes' \in Nat, crashes' \in Nat,
         \A r \in Requests : req'[r] = req[r] \/ Ended(req'[r], req[r])
  PROVE  IInv'
<1>1. \A s \in Requests : /\ req[s] \in Handler /\ req'[s] \in Handler
                           /\ Sound(req[s]) /\ Supported(req[s], hexGrids)
  BY DEF IInv, TypeOK, HandlerInv
<1>2. TypeOK'
  BY DEF IInv, TypeOK
<1>3. ASSUME NEW s \in Requests
      PROVE  Sound(req'[s]) /\ Supported(req'[s], hexGrids')
  <2>1. CASE Ended(req'[s], req[s])
    BY <1>1, <2>1 DEF Ended, Sound, Supported, OpenTx, InFlight, Validating, PastChecks
  <2>. QED BY <1>1, <2>1
<1>4. HandlerInv'
  BY <1>3 DEF HandlerInv
<1>5. IdInv'
  BY <1>1 DEF IInv, IdInv, Ended, TypeOK, Handler
<1>6. \A s \in Requests : Committed(s)' <=> Committed(s)
  BY <1>1 DEF Ended, Committed, Sound, OpenTx
<1>7. \A s \in Requests : Committed(s) => RowOf(s)' = RowOf(s)
  BY <1>1 DEF Ended, Committed, RowOf, OpenTx
<1>8. TableInv'
  BY <1>6, <1>7 DEF IInv, TableInv
<1>9. DistinctInv'
  BY DEF IInv, DistinctInv, Apart, Ended
<1>. QED BY <1>2, <1>4, <1>5, <1>8, <1>9 DEF IInv

(* A failed query is such a fault, of one handler. *)
LEMMA DbErrorStep ==
  ASSUME IInv, NEW r \in Requests, DbError(r)
  PROVE  IInv'
<1> DEFINE h == [req[r] EXCEPT !.phase = "done", !.answer = "error",
                               !.gridId = 0, !.queued = FALSE]
<1>1. req \in [Requests -> Handler] /\ req[r] \in Handler /\ Sound(req[r])
  BY DEF IInv, TypeOK, HandlerInv
<1>2. h \in Handler
  BY <1>1 DEF Handler, Phases, Answers
<1>3. req' = [req EXCEPT ![r] = h]
  BY <1>1 DEF DbError, Handler
<1>4. Ended(h, req[r])
  BY <1>1 DEF DbError, Ended, Sound, Handler, OpenTx, InFlight, Validating
<1> HIDE DEF h
<1>5. req' \in [Requests -> Handler] /\ \A s \in Requests : req'[s] = req[s] \/ Ended(req'[s], req[s])
  BY <1>1, <1>2, <1>3, <1>4
<1>. QED BY <1>5, FaultStep DEF DbError, UnchangedTables, UnchangedRest, IInv, TypeOK

(* An edit of the configuration leaves handlers and tables alone. *)
LEMMA ChangeConfigStep ==
  ASSUME IInv, ChangeConfig
  PROVE  IInv'
<1>1. UNCHANGED <<hexGrids, pendings, nextId, req, invitations, crashes>>
      /\ config' \in Configs /\ changes' \in Nat
  BY DEF ChangeConfig, UnchangedTables, IInv, TypeOK
<1>2. TypeOK'
  BY <1>1 DEF IInv, TypeOK
<1>3. HandlerInv' /\ IdInv' /\ TableInv' /\ DistinctInv'
  BY <1>1 DEF IInv, HandlerInv, IdInv, TableInv, DistinctInv, Committed, RowOf
<1>. QED BY <1>2, <1>3 DEF IInv

(* A crash is such a fault, of all handlers at once. *)
LEMMA CrashStep ==
  ASSUME IInv, Crash
  PROVE  IInv'
<1> DEFINE Down(h) ==
      IF h.phase \in InFlight
        THEN [h EXCEPT !.phase = "done", !.answer = "lost",
                       !.gridId = IF h.phase = "emit" THEN @ ELSE 0,
                       !.queued = @ /\ h.phase = "emit"]
        ELSE [h EXCEPT !.invite = IF @ = "event" THEN "lost" ELSE @]
<1>1. \A r \in Requests : req[r] \in Handler /\ Sound(req[r])
  BY DEF IInv, TypeOK, HandlerInv
<1>2. req' = [r \in Requests |-> Down(req[r])]
  BY DEF Crash
<1>3. ASSUME NEW r \in Requests
      PROVE  Down(req[r]) \in Handler /\ Ended(Down(req[r]), req[r])
  <2>1. CASE req[r].phase \in InFlight
    <3>1. Down(req[r]) \in Handler
      <4> DEFINE id == IF req[r].phase = "emit" THEN req[r].gridId ELSE 0
                 in == req[r].queued /\ req[r].phase = "emit"
      <4>1. req[r] \in Handler /\ id \in Nat /\ in \in BOOLEAN
        BY <1>1 DEF Handler
      <4>2. "done" \in Phases /\ "lost" \in Answers
        BY DEF Phases, Answers
      <4>3. Down(req[r]) = [req[r] EXCEPT !.phase = "done", !.answer = "lost", !.gridId = id,
                                          !.queued = in]
        BY <1>1, <2>1 DEF Handler
      <4> HIDE DEF id, in, Down
      <4>. QED BY <4>1, <4>2, <4>3 DEF Handler
    <3>2. Ended(Down(req[r]), req[r])
      BY <1>1, <2>1 DEF Ended, Sound, Handler, OpenTx, InFlight, Validating
    <3>. QED BY <3>1, <3>2
  <2>2. CASE req[r].phase \notin InFlight
    <3>1. Down(req[r]) \in Handler
      BY <1>1, <2>2 DEF Handler
    <3>2. Ended(Down(req[r]), req[r])
      BY <1>1, <2>2 DEF Ended, Handler, OpenTx, InFlight
    <3>. QED BY <3>1, <3>2
  <2>. QED BY <2>1, <2>2
<1> HIDE DEF Down
<1>4. req' \in [Requests -> Handler] /\ \A r \in Requests : Ended(req'[r], req[r])
  BY <1>2, <1>3
<1>5. /\ UNCHANGED <<hexGrids, pendings, nextId>> /\ UNCHANGED <<config, invitations, changes>>
      /\ crashes' = crashes + 1
  BY Zenon DEF Crash, UnchangedTables
<1>6. changes' \in Nat /\ crashes' \in Nat
  BY <1>5 DEF IInv, TypeOK
<1>. QED BY <1>4, <1>5, <1>6, FaultStep
-----------------------------------------------------------------------------
(* The invariant holds at the start: no handler has a row. *)
LEMMA InitIInv == ASSUME Init PROVE IInv
<1>1. PICK u \in Users : req = [r \in Requests |-> NoRequest(u)]
  BY DEF Init
<1>2. NoRequest(u) \in Handler
  <2>1. (CHOOSE c \in Coordinates : TRUE) \in Coordinates
    BY CoordinatesAssumption
  <2>. QED BY <2>1, MaxRetryAssumption DEF NoRequest, Handler, Phases, Answers
<1>3. TypeOK
  BY <1>1, <1>2 DEF Init, TypeOK
<1>4. Sound(NoRequest(u)) /\ Supported(NoRequest(u), hexGrids)
  BY MaxRetryAssumption DEF NoRequest, Sound, Supported, OpenTx, InFlight, Validating, PastChecks
<1>5. HandlerInv
  BY <1>1, <1>4 DEF HandlerInv
<1>6. NoRequest(u).gridId = 0
  BY DEF NoRequest
<1>7. IdInv /\ TableInv /\ DistinctInv
  BY <1>1, <1>6 DEF Init, IdInv, TableInv, DistinctInv, Committed, Apart
<1>. QED BY <1>3, <1>5, <1>7 DEF IInv

(* No step breaks the invariant. *)
LEMMA NextIInv == ASSUME IInv, [Next]_vars PROVE IInv'
<1>1. CASE Next
  <2>1. ASSUME NEW r \in Requests, Receive(r) PROVE IInv'
    BY <2>1, ReceiveStep
  <2>2. ASSUME NEW r \in Requests, Serve(r) PROVE IInv'
    BY <2>2, CountCellStep, CheckZoneStep, CountAllStep, CountNearStep, CountOwnerStep,
       InsertStep, SavePendingStep, CommitActions, EmitOccupiedStep,
       HandleOccupiedStep DEF Serve
  <2>3. ASSUME NEW r \in Requests, Fetch(r) PROVE IInv'
    BY <2>3, FetchOkStep, FetchRetryableStep, FetchFatalStep DEF Fetch
  <2>4. ASSUME NEW r \in Requests, CommitUnacknowledged(r) PROVE IInv'
    BY <2>4, CommitActions
  <2>5. ASSUME NEW r \in Requests, DbError(r) PROVE IInv'
    BY <2>5, DbErrorStep
  <2>. QED BY <1>1, <2>1, <2>2, <2>3, <2>4, <2>5, ChangeConfigStep, CrashStep DEF Next
<1>2. CASE UNCHANGED vars
  <2>1. UNCHANGED <<hexGrids, pendings, nextId, req, config, invitations, changes, crashes>>
    BY <1>2 DEF vars
  <2>2. TypeOK'
    BY <2>1 DEF IInv, TypeOK
  <2>3. HandlerInv' /\ IdInv' /\ TableInv' /\ DistinctInv'
    BY <2>1 DEF IInv, HandlerInv, IdInv, TableInv, DistinctInv, Committed, RowOf
  <2>. QED BY <2>2, <2>3 DEF IInv
<1>. QED BY <1>1, <1>2

(* The inductive invariant holds in every reachable state. *)
THEOREM Invariance == Spec => []IInv
<1>1. Init => IInv
  BY InitIInv
<1>2. IInv /\ [Next]_vars => IInv'
  BY NextIInv
<1>. QED BY <1>1, <1>2, PTL DEF Spec

(* The state keeps its types, and with them the bound on the CMS retries: no
   request sends more than MaxRetry + 1 times. *)
THEOREM TypeCorrectness == Spec => []TypeOK
BY Invariance, PTL DEF IInv

(* A live row belongs to a request that has inserted it. *)
LEMMA LiveRowOrigin ==
  ASSUME IInv, NEW g \in LiveRows
  PROVE  \E r \in Requests : req[r].gridId # 0 /\ g = RowOf(r)
BY DEF LiveRows, IInv, TableInv, HandlerInv, Sound, Committed

(* One grid per user and one owner per cell, among the committed rows and those
   of open transactions, however the checks of occupy interleave. *)
THEOREM OwnershipIsExclusive == Spec => []Exclusive
<1>1. IInv => Exclusive
  <2> SUFFICES ASSUME IInv, NEW g \in LiveRows, NEW h \in LiveRows,
                      g.userId = h.userId \/ g.at = h.at
               PROVE  g = h
    BY DEF Exclusive
  <2>1. PICK r \in Requests : req[r].gridId # 0 /\ g = RowOf(r)
    BY LiveRowOrigin
  <2>2. PICK s \in Requests : req[s].gridId # 0 /\ h = RowOf(s)
    BY LiveRowOrigin
  <2>3. r = s
    BY <2>1, <2>2 DEF IInv, DistinctInv, Apart, RowOf
  <2>. QED BY <2>1, <2>2, <2>3
<1>. QED BY <1>1, Invariance, PTL

(* Every committed grid comes from exactly one occupy request for a cell of the
   plane, across crashes, failed transactions and lost acknowledgements. *)
THEOREM GridsAreRequestedOnce == Spec => []EachGridRequestedOnce
<1>1. IInv => EachGridRequestedOnce
  <2> SUFFICES ASSUME IInv, NEW g \in hexGrids
               PROVE  /\ SumIsZero(g.at)
                      /\ \E r \in Requests : Committed(r) /\ RowOf(r) = g /\ req[r].kind = "occupy"
                      /\ \A r, s \in Requests :
                           req[r].gridId = g.id /\ req[s].gridId = g.id => r = s
    BY DEF EachGridRequestedOnce
  <2>1. PICK r \in Requests : Committed(r) /\ g = RowOf(r)
    BY DEF IInv, TableInv
  <2>2. req[r].gridId # 0 /\ g.id = req[r].gridId /\ g.at = req[r].at
    BY <2>1 DEF Committed, RowOf
  <2>3. SumIsZero(g.at) /\ req[r].kind = "occupy"
    BY <2>2 DEF IInv, HandlerInv, Sound
  <2>4. \A q, s \in Requests : req[q].gridId = g.id /\ req[s].gridId = g.id => q = s
    BY <2>2 DEF IInv, DistinctInv, Apart
  <2>. QED BY <2>1, <2>3, <2>4
<1>. QED BY <1>1, Invariance, PTL

(* A grid that is not a founder rests on one with a smaller id. *)
LEMMA GridIsSupported ==
  ASSUME IInv, NEW a \in hexGrids, ~Founder(a)
  PROVE  \E g \in hexGrids : Near(a.at, g.at) /\ g.id < a.id
<1>1. PICK r \in Requests : Committed(r) /\ a = RowOf(r)
  BY DEF IInv, TableInv
<1>2. req[r].gridId # 0 /\ a.id = req[r].gridId /\ a.at = req[r].at /\ ~req[r].sawEmpty
  BY <1>1 DEF Committed, RowOf, Founder
<1>. QED BY <1>2 DEF IInv, HandlerInv, Supported

(* Each grid rests on an older one or is a founder, so the oldest grid of a set
   without founders rests on one outside the set. *)
LEMMA IslandsFromIInv == IInv => IslandsHaveFounders
<1> SUFFICES ASSUME IInv, NEW A \in SUBSET hexGrids, A # {}, \A a \in A : ~Founder(a)
             PROVE  \E a \in A, b \in hexGrids \ A : Near(a.at, b.at)
  BY DEF IslandsHaveFounders
<1> DEFINE ids == {a.id : a \in A}
<1>1. \A g \in hexGrids : g.id \in Nat
  BY DEF IInv, TypeOK, Row
<1>2. ids \subseteq Nat /\ ids # {}
  BY <1>1
<1>3. PICK n \in ids : \A m \in ids : n <= m
  <2> HIDE DEF ids
  <2>. QED BY <1>2, LeastNatural
<1>4. PICK a \in A : \A b \in A : a.id <= b.id
  BY <1>3
<1>5. PICK g \in hexGrids : Near(a.at, g.at) /\ g.id < a.id
  BY GridIsSupported
<1>6. g \notin A
  BY <1>1, <1>4, <1>5
<1>. QED BY <1>5, <1>6

(* Every island of the map holds a founder, that is a grid whose request was
   validated while the map was empty. *)
THEOREM IslandsHoldFounders == Spec => []IslandsHaveFounders
BY IslandsFromIInv, Invariance, PTL

(* With a single founder the map is connected, which is what the comment on the
   adjacency check (hex-grids.service.ts:158) asks for. *)
THEOREM SoleFounderConnects == Spec => []SoleFounderConnectsMap
<1>1. ASSUME IInv PROVE SoleFounderConnectsMap
  <2> SUFFICES ASSUME \A g, h \in hexGrids : Founder(g) /\ Founder(h) => g = h
               PROVE  MapConnected
    BY DEF SoleFounderConnectsMap
  <2> DEFINE S == {g.at : g \in hexGrids}
  <2> SUFFICES ASSUME NEW A \in SUBSET S, A # {}, A # S
               PROVE  \E a \in A, b \in S \ A : Near(a, b)
    BY DEF MapConnected, ConnectedCells
  <2> DEFINE G == {g \in hexGrids : g.at \in A}
             H == {g \in hexGrids : g.at \notin A}
  <2>1. G \in SUBSET hexGrids /\ H \in SUBSET hexGrids /\ G # {} /\ H # {}
        /\ G = hexGrids \ H /\ H = hexGrids \ G
    OBVIOUS
  <2>2. (\A g \in G : ~Founder(g)) \/ (\A h \in H : ~Founder(h))
    OBVIOUS
  <2>3. \E g \in G, h \in H : Near(g.at, h.at)
    <3>1. CASE \A g \in G : ~Founder(g)
      <4> HIDE DEF G, H
      <4>. QED BY <1>1, <2>1, <3>1, IslandsFromIInv DEF IslandsHaveFounders
    <3>2. CASE \A h \in H : ~Founder(h)
      <4>1. PICK h \in H, g \in G : Near(h.at, g.at)
        <5> HIDE DEF G, H
        <5>. QED BY <1>1, <2>1, <3>2, IslandsFromIInv DEF IslandsHaveFounders
      <4>2. h.at \in Coordinate /\ g.at \in Coordinate
        BY <1>1, CoordinatesAssumption DEF IInv, TypeOK, Row
      <4>3. Near(g.at, h.at)
        BY <4>1, <4>2, NearIsSymmetric
      <4>. QED BY <4>3
    <3>. QED BY <2>2, <3>1, <3>2
  <2>. QED BY <2>3
<1>. QED BY <1>1, Invariance, PTL
=============================================================================
