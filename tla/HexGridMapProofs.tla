------------------------- MODULE HexGridMapProofs -------------------------
(* What clients are told of the map is true, and complete when they have reason to
   think so, for any number of clients, boxes and requests and any limit. *)
EXTENDS HexGridMap, HexGridOutcomeProofs, FiniteSetTheorems

(* What a client holds: committed grids, an answer of the box it asked for, and a
   live answer only on the connection on which it asked. *)
Held(c) ==
  /\ c.known \subseteq hexGrids
  /\ c.answer \subseteq Matching(c.box)
  /\ Cardinality(c.answer) <= Limit
  /\ c.asked = "live" => c.connected

MapInv ==
  /\ client \in [Clients -> Client]
  /\ IsFiniteSet(hexGrids)
  /\ \A k \in Clients : Held(client[k])
  /\ LiveMapMissesNoGrid
-----------------------------------------------------------------------------
(* Clients change nothing of the server. *)
LEMMA ServerStep ==
  ASSUME [MapNext]_mapVars
  PROVE  [Next]_vars
BY DEF MapNext, mapVars, ClientStep, Connect, Disconnect, FindByFilter, CountByFilter, LookUp

THEOREM ServerRuns == MapSpec => Spec
<1>1. MapInit => Init
  BY DEF MapInit
<1>2. [MapNext]_mapVars => [Next]_vars
  BY ServerStep
<1>. QED BY <1>1, <1>2, PTL DEF MapSpec, Spec

(* The table grows by a row at a time. *)
LEMMA TableGrows ==
  ASSUME [Next]_vars
  PROVE  hexGrids' = hexGrids \/ \E r \in Requests : hexGrids' = hexGrids \cup {RowOf(r)}
BY DEF vars, Next, Receive, Serve, Fetch, CommitUnacknowledged, DbError, CountCell, CheckZone,
       CountAll, CountNear, CountOwner, FetchOk, FetchRetryable, FetchFatal, Insert, SavePending,
       Commit, CommitTables, EmitOccupied, HandleOccupied, ChangeConfig, Crash, UnchangedTables

LEMMA TableStaysFinite ==
  ASSUME [Next]_vars, IsFiniteSet(hexGrids)
  PROVE  IsFiniteSet(hexGrids)' /\ hexGrids \subseteq hexGrids'
BY TableGrows, FS_AddElement

(* Part of the table is finite, and all of it if it is as many. *)
LEMMA AnswersAreFinite ==
  ASSUME IsFiniteSet(hexGrids), NEW box, NEW A \in SUBSET Matching(box)
  PROVE  /\ IsFiniteSet(A) /\ Cardinality(A) \in Nat
         /\ IsFiniteSet(Matching(box)) /\ Cardinality(Matching(box)) \in Nat
         /\ Cardinality(A) = Cardinality(Matching(box)) => A = Matching(box)
<1>1. Matching(box) \in SUBSET hexGrids
  BY DEF Matching
<1>2. IsFiniteSet(Matching(box))
  BY <1>1, FS_Subset
<1>. QED BY <1>2, FS_Subset, FS_CardinalityType

(* The gateway is sent committed grids. *)
LEMMA EmittedIsCommitted ==
  ASSUME IInv, OutcomeInv, Next
  PROVE  Emitted \subseteq hexGrids'
<1> SUFFICES ASSUME NEW r \in Requests, req[r].invite = "none", req'[r].invite = "event"
             PROVE  RowOf(r) \in hexGrids'
  BY DEF Emitted
<1>1. req \in [Requests -> Handler] /\ req[r] \in Handler
  BY DEF IInv, TypeOK
<1>2. EmitOccupied(r)
  <2>1. ASSUME NEW s \in Requests, Receive(s) PROVE req'[r].invite = req[r].invite
    <3>1. PICK kind \in {"occupy", "validate"}, u \in Users, c \in Coordinates :
            req' = [req EXCEPT
              ![s].kind = kind, ![s].userId = u, ![s].at = c,
              ![s].phase = IF SumIsZero(c) THEN "countCell" ELSE "done",
              ![s].answer = IF SumIsZero(c) THEN "none" ELSE "badRequest"]
      BY <2>1 DEF Receive
    <3>. QED BY <1>1, <3>1 DEF Handler
  <2>2. ASSUME NEW s \in Requests, Serve(s) \/ Fetch(s) \/ CommitUnacknowledged(s) \/ DbError(s),
               ~EmitOccupied(s)
        PROVE  req'[r].invite # "event" \/ req'[r].invite = req[r].invite
    <3>1. CASE HandleOccupied(s)
      BY <1>1, <3>1 DEF HandleOccupied, Handler
    <3>2. CASE Insert(s) \/ SavePending(s) \/ Commit(s) \/ CommitUnacknowledged(s)
      BY <1>1, <3>2 DEF Insert, SavePending, Commit, CommitUnacknowledged, To, Answer, Handler
    <3>3. CASE CountCell(s) \/ CheckZone(s) \/ CountOwner(s)
      BY <1>1, <3>3 DEF CountCell, CheckZone, CountOwner, To, Answer, Handler
    <3>4. CASE CountAll(s) \/ CountNear(s)
      BY <1>1, <3>4 DEF CountAll, CountNear, To, Answer, Handler
    <3>5. CASE Fetch(s) \/ DbError(s)
      BY <1>1, <3>5 DEF Fetch, FetchOk, FetchRetryable, FetchFatal, DbError, To, Answer, Handler
    <3>. QED BY <2>2, <3>1, <3>2, <3>3, <3>4, <3>5 DEF Serve
  <2>3. CASE ChangeConfig
    BY <2>3 DEF ChangeConfig
  <2>4. CASE Crash
    <3>1. CASE req[r].phase \in InFlight
      <4>1. req'[r] = [req[r] EXCEPT !.phase = "done", !.answer = "lost",
                         !.gridId = IF req[r].phase = "emit" THEN @ ELSE 0,
                         !.queued = @ /\ req[r].phase = "emit"]
        BY <2>4, <3>1 DEF Crash
      <4>. QED BY <1>1, <4>1 DEF Handler
    <3>2. CASE req[r].phase \notin InFlight
      <4>1. req'[r] = [req[r] EXCEPT !.invite = IF @ = "event" THEN "lost" ELSE @]
        BY <2>4, <3>2 DEF Crash
      <4>. QED BY <1>1, <4>1 DEF Handler
    <3>. QED BY <3>1, <3>2
  <2>5. ASSUME NEW s \in Requests, EmitOccupied(s), s # r PROVE FALSE
    BY <1>1, <2>5 DEF EmitOccupied
  <2>. QED BY <2>1, <2>2, <2>3, <2>4, <2>5 DEF Next, Serve
<1>3. req[r].phase = "emit" /\ UNCHANGED hexGrids
  BY <1>2 DEF EmitOccupied, UnchangedTables
<1>4. Committed(r)
  BY <1>3 DEF IInv, HandlerInv, Sound, Committed
<1>. QED BY <1>3, <1>4 DEF IInv, TableInv

(* A request is answered 201 once, and the gateway is sent its grid then. *)
LEMMA CreatedIsEmitted ==
  ASSUME IInv, OutcomeInv, [Next]_vars, NEW r \in Requests, req'[r].answer = "created"
  PROVE  /\ RowOf(r)' = RowOf(r) /\ req'[r].at = req[r].at
         /\ req[r].answer = "created" \/ (Next /\ RowOf(r) \in Emitted)
<1>1. /\ req \in [Requests -> Handler] /\ req[r] \in Handler
      /\ Outcome(req[r], hexGrids, config, changes)
  BY DEF IInv, TypeOK, OutcomeInv
<1>2. CASE UNCHANGED vars
  BY <1>2 DEF vars, RowOf
<1>3. CASE ChangeConfig
  BY <1>3 DEF ChangeConfig, RowOf
<1>4. CASE Crash
  <2>1. req[r].phase \notin InFlight
    <3> SUFFICES ASSUME req[r].phase \in InFlight PROVE FALSE
      OBVIOUS
    <3>1. req'[r] = [req[r] EXCEPT !.phase = "done", !.answer = "lost",
                       !.gridId = IF req[r].phase = "emit" THEN @ ELSE 0,
                       !.queued = @ /\ req[r].phase = "emit"]
      BY <1>4 DEF Crash
    <3>. QED BY <1>1, <3>1 DEF Handler
  <2>2. req'[r] = [req[r] EXCEPT !.invite = IF @ = "event" THEN "lost" ELSE @]
    BY <1>4, <2>1 DEF Crash
  <2>3. /\ req'[r].answer = req[r].answer /\ req'[r].at = req[r].at
        /\ req'[r].userId = req[r].userId /\ req'[r].gridId = req[r].gridId
    BY <1>1, <2>2 DEF Handler
  <2>. QED BY <2>3 DEF RowOf
<1>5. ASSUME NEW s \in Requests, EmitOccupied(s) PROVE
         /\ RowOf(r)' = RowOf(r) /\ req'[r].at = req[r].at
         /\ req[r].answer = "created" \/ (Next /\ RowOf(r) \in Emitted)
  <2>1. CASE s # r
    BY <1>1, <1>5, <2>1 DEF EmitOccupied, RowOf
  <2>2. CASE s = r
    <3>1. req[r].invite = "none"
      BY <1>1, <1>5, <2>2 DEF EmitOccupied, Outcome
    <3>2. /\ req'[r].invite = "event" /\ req'[r].at = req[r].at
          /\ req'[r].userId = req[r].userId /\ req'[r].gridId = req[r].gridId
      BY <1>1, <1>5, <2>2 DEF EmitOccupied, Handler
    <3>. QED BY <1>5, <3>1, <3>2 DEF Next, Serve, Emitted, RowOf
  <2>. QED BY <2>1, <2>2
<1>6. ASSUME NEW s \in Requests,
             Receive(s) \/ Serve(s) \/ Fetch(s) \/ CommitUnacknowledged(s) \/ DbError(s),
             ~EmitOccupied(s)
      PROVE  RowOf(r)' = RowOf(r) /\ req'[r].at = req[r].at /\ req[r].answer = "created"
  <2>1. CASE s # r
    <3>1. req'[r] = req[r]
      BY <1>6, <2>1, OthersWait
    <3>. QED BY <3>1 DEF RowOf
  <2>2. CASE s = r /\ Receive(r)
    <3>1. PICK kind \in {"occupy", "validate"}, u \in Users, c \in Coordinates :
            req' = [req EXCEPT
              ![r].kind = kind, ![r].userId = u, ![r].at = c,
              ![r].phase = IF SumIsZero(c) THEN "countCell" ELSE "done",
              ![r].answer = IF SumIsZero(c) THEN "none" ELSE "badRequest"]
      BY <2>2 DEF Receive
    <3>. QED BY <1>1, <3>1 DEF Handler
  <2>3. CASE s = r /\ HandleOccupied(r)
    <3>1. /\ req'[r].answer = req[r].answer /\ req'[r].at = req[r].at
          /\ req'[r].userId = req[r].userId /\ req'[r].gridId = req[r].gridId
      BY <1>1, <2>3 DEF HandleOccupied, Handler
    <3>. QED BY <3>1 DEF RowOf
  <2>4. CASE s = r /\ ~Receive(r) /\ ~HandleOccupied(r)
    <3>1. req[r].answer = "none" /\ req'[r].answer # "created"
      BY <1>1, <1>6, <2>4
         DEF Serve, Fetch, CommitUnacknowledged, DbError, CountCell, CheckZone, CountAll,
             CountNear, CountOwner, FetchOk, FetchRetryable, FetchFatal, Insert, SavePending,
             Commit, To, Answer, Handler, Outcome, InFlight, Validating, OpenTx,
             AnswerAfterValidation
    <3>. QED BY <3>1
  <2>. QED BY <2>1, <2>2, <2>3, <2>4
<1>. QED BY <1>2, <1>3, <1>4, <1>5, <1>6 DEF Next, Serve
-----------------------------------------------------------------------------
(* A client that connected before it asked and has an answer that was not cut down
   has been told of every grid of its box whose occupant was told. *)
Informed(c) ==
  \A r \in Requests :
    /\ c.connected /\ c.asked = "live"
    /\ Cardinality(c.answer) < Limit \/ c.count = Cardinality(c.answer)
    /\ req[r].answer = "created" /\ InBox(c.box, req[r].at)
    => RowOf(r) \in c.known \cup c.answer

LEMMA LiveMapIsInformed == LiveMapMissesNoGrid <=> \A k \in Clients : Informed(client[k])
BY DEF LiveMapMissesNoGrid, Informed, Complete, Told

(* An occupant that was told has a committed grid. *)
LEMMA CreatedIsCommitted ==
  ASSUME IInv, OutcomeInv, NEW r \in Requests, req[r].answer = "created"
  PROVE  RowOf(r) \in hexGrids
<1>1. Committed(r)
  BY DEF OutcomeInv, Outcome, Committed
<1>. QED BY <1>1 DEF IInv, TableInv

(* A broadcast leaves alone what a client has asked. *)
LEMMA BroadcastAsksNothing ==
  ASSUME Broadcast, NEW k \in Clients, client[k] \in Client
  PROVE  /\ client'[k].box = client[k].box /\ client'[k].answer = client[k].answer
         /\ client'[k].count = client[k].count
<1>1. CASE crashes' # crashes
  <2>1. client'[k] = Unplugged(client[k])
    BY <1>1 DEF Broadcast
  <2>. QED BY <2>1 DEF Unplugged, Client
<1>2. CASE crashes' = crashes
  <2>1. client'[k] = [client[k] EXCEPT
                        !.known = @ \cup {row \in Emitted : client[k].connected}]
    BY <1>2 DEF Broadcast
  <2>. QED BY <2>1 DEF Client
<1>. QED BY <1>1, <1>2

(* Neither does a client that connects, disconnects or looks up a grid. *)
LEMMA OthersAskNothing ==
  ASSUME client \in [Clients -> Client], NEW j \in Clients, NEW k \in Clients,
         Connect(j) \/ Disconnect(j) \/ LookUp(j)
  PROVE  /\ client'[k].box = client[k].box /\ client'[k].answer = client[k].answer
         /\ client'[k].count = client[k].count
<1>1. CASE Connect(j)
  BY <1>1 DEF Connect, Client
<1>2. CASE Disconnect(j)
  <2>1. client' = [client EXCEPT ![j] = Unplugged(client[j])]
    BY <1>2 DEF Disconnect
  <2>2. /\ Unplugged(client[j]).box = client[j].box
        /\ Unplugged(client[j]).answer = client[j].answer
        /\ Unplugged(client[j]).count = client[j].count
    BY DEF Unplugged, Client
  <2>. QED BY <2>1, <2>2
<1>3. CASE LookUp(j)
  <2>1. PICK rows : client' = [client EXCEPT ![j].known = @ \cup rows]
    BY <1>3 DEF LookUp
  <2>. QED BY <2>1 DEF Client
<1>. QED BY <1>1, <1>2, <1>3

(* What the server emits reaches the sockets that are connected, and a crash closes
   them. *)
LEMMA BroadcastKeeps ==
  ASSUME IInv, OutcomeInv, MapInv, Next, Broadcast, TypeOK'
  PROVE  MapInv'
<1>1. /\ IsFiniteSet(hexGrids)' /\ hexGrids \subseteq hexGrids' /\ hexGrids' \subseteq Row
      /\ Emitted \subseteq hexGrids'
  BY TableStaysFinite, EmittedIsCommitted DEF MapInv, TypeOK
<1>2. ASSUME NEW k \in Clients
      PROVE  client'[k] \in Client /\ Held(client[k])' /\ Informed(client[k])'
  <2>1. /\ client[k] \in Client /\ Held(client[k]) /\ Informed(client[k])
    BY LiveMapIsInformed DEF MapInv
  <2>2. \A b : Matching(b) \subseteq Matching(b)'
    BY <1>1 DEF Matching
  <2>3. CASE crashes' # crashes \/ ~client[k].connected
    <3>1. /\ client'[k] \in Client /\ ~client'[k].connected /\ client'[k].asked # "live"
          /\ client'[k].known \subseteq client[k].known /\ client'[k].box = client[k].box
          /\ client'[k].answer = client[k].answer
      <4>1. CASE crashes' # crashes
        <5>1. client'[k] = Unplugged(client[k])
          BY <4>1 DEF Broadcast
        <5>. QED BY <2>1, <5>1 DEF Unplugged, Client
      <4>2. CASE crashes' = crashes
        <5>1. client'[k] = [client[k] EXCEPT
                              !.known = @ \cup {row \in Emitted : client[k].connected}]
          BY <4>2 DEF Broadcast
        <5>2. /\ client'[k].known = client[k].known
              /\ client'[k].connected = client[k].connected /\ client'[k].asked = client[k].asked
              /\ client'[k].box = client[k].box /\ client'[k].answer = client[k].answer
              /\ client'[k] \in Client
          BY <2>1, <2>3, <4>2, <5>1 DEF Client
        <5>. QED BY <2>1, <2>3, <4>2, <5>2 DEF Held
      <4>. QED BY <4>1, <4>2
    <3>2. Held(client[k])'
      BY <1>1, <2>1, <2>2, <3>1 DEF Held
    <3>3. Informed(client[k])'
      BY <3>1 DEF Informed
    <3>. QED BY <3>1, <3>2, <3>3
  <2>4. CASE crashes' = crashes /\ client[k].connected
    <3>1. client'[k] = [client[k] EXCEPT !.known = @ \cup Emitted]
      <4>1. client'[k] = [client[k] EXCEPT
                            !.known = @ \cup {row \in Emitted : client[k].connected}]
        BY <2>4 DEF Broadcast
      <4>2. {row \in Emitted : client[k].connected} = Emitted
        BY <2>4
      <4>. QED BY <4>1, <4>2
    <3>2. /\ client'[k].known = client[k].known \cup Emitted
          /\ client'[k].connected = client[k].connected /\ client'[k].asked = client[k].asked
          /\ client'[k].box = client[k].box /\ client'[k].answer = client[k].answer
          /\ client'[k].count = client[k].count /\ client'[k] \in Client
      BY <1>1, <2>1, <3>1 DEF Client
    <3>3. Held(client[k])'
      BY <1>1, <2>1, <2>2, <3>2 DEF Held
    <3>4. Informed(client[k])'
      <4> SUFFICES ASSUME NEW r \in Requests, req'[r].answer = "created",
                          client'[k].connected, client'[k].asked = "live",
                          Cardinality(client'[k].answer) < Limit
                            \/ client'[k].count = Cardinality(client'[k].answer),
                          InBox(client'[k].box, req'[r].at)
                   PROVE  RowOf(r)' \in client'[k].known \cup client'[k].answer
        BY DEF Informed
      <4>1. /\ RowOf(r)' = RowOf(r) /\ req'[r].at = req[r].at
            /\ req[r].answer = "created" \/ RowOf(r) \in Emitted
        BY CreatedIsEmitted
      <4>. QED BY <2>1, <3>2, <4>1 DEF Informed
    <3>. QED BY <3>2, <3>3, <3>4
  <2>. QED BY <2>3, <2>4
<1>3. client' \in [Clients -> Client]
  <2>1. client' = [k \in Clients |-> client'[k]]
    BY DEF Broadcast
  <2>. QED BY <1>2, <2>1
<1>4. LiveMapMissesNoGrid'
  BY <1>2, LiveMapIsInformed DEF LiveMapMissesNoGrid, Informed, Complete, Told
<1>. QED BY <1>1, <1>2, <1>3, <1>4 DEF MapInv

(* A client that learns only what is true stays truthful and informed. *)
LEMMA ClientKeeps ==
  ASSUME MapInv, UNCHANGED vars, NEW k \in Clients, NEW c \in Client,
         client' = [client EXCEPT ![k] = c], Held(c), Informed(c)
  PROVE  MapInv'
<1>1. /\ client' \in [Clients -> Client] /\ client'[k] = c
      /\ \A j \in Clients \ {k} : client'[j] = client[j]
  BY DEF MapInv
<1>2. \A j \in Clients : Held(client[j]) /\ Informed(client[j])
  BY LiveMapIsInformed DEF MapInv
<1>3. \A j \in Clients : Held(client[j])'
  BY <1>1, <1>2 DEF Held, Matching, vars
<1>4. LiveMapMissesNoGrid'
  BY <1>1, <1>2 DEF LiveMapMissesNoGrid, Informed, Complete, Told, vars, RowOf
<1>. QED BY <1>1, <1>3, <1>4 DEF MapInv, vars

(* Each step of a client, with what it makes of it. *)
LEMMA ClientLearns ==
  ASSUME IInv, OutcomeInv, MapInv, NEW k \in Clients, ClientStep(k)
  PROVE  MapInv'
<1>1. /\ client[k] \in Client /\ Held(client[k]) /\ Informed(client[k])
      /\ IsFiniteSet(hexGrids) /\ hexGrids \subseteq Row
      /\ client \in [Clients -> Client]
  BY LiveMapIsInformed DEF MapInv, IInv, TypeOK
<1>2. UNCHANGED vars
  BY DEF ClientStep, Connect, Disconnect, CountByFilter, LookUp, FindByFilter
<1>3. CASE Connect(k)
  <2>1. PICK c : c = [client[k] EXCEPT !.connected = TRUE]
    OBVIOUS
  <2>2. /\ c \in Client /\ c.known = client[k].known /\ c.answer = client[k].answer
        /\ c.box = client[k].box /\ c.connected /\ c.asked = client[k].asked
    BY <1>1, <2>1 DEF Client
  <2>3. c.asked # "live"
    BY <1>1, <1>3, <2>2 DEF Connect, Held
  <2>4. Held(c) /\ Informed(c)
    BY <1>1, <2>2, <2>3 DEF Held, Informed
  <2>5. client' = [client EXCEPT ![k] = c]
    BY <1>1, <1>3, <2>1 DEF Connect
  <2>. QED BY <1>2, <2>2, <2>4, <2>5, ClientKeeps
<1>4. CASE Disconnect(k)
  <2>1. PICK c : c = Unplugged(client[k])
    OBVIOUS
  <2>2. /\ c \in Client /\ c.known = {} /\ c.answer = client[k].answer
        /\ c.box = client[k].box /\ ~c.connected /\ c.asked # "live"
    BY <1>1, <2>1 DEF Client, Unplugged
  <2>3. Held(c) /\ Informed(c)
    BY <1>1, <2>2 DEF Held, Informed
  <2>4. client' = [client EXCEPT ![k] = c]
    BY <1>1, <1>4, <2>1 DEF Disconnect
  <2>. QED BY <1>2, <2>2, <2>3, <2>4, ClientKeeps
<1>5. CASE CountByFilter(k)
  <2>1. PICK c : c = [client[k] EXCEPT !.count = Cardinality(Matching(client[k].box))]
    OBVIOUS
  <2>2. client[k].answer \in SUBSET Matching(client[k].box)
    BY <1>1 DEF Held
  <2>3. /\ Cardinality(Matching(client[k].box)) \in Nat
        /\ Cardinality(client[k].answer) = Cardinality(Matching(client[k].box))
             => client[k].answer = Matching(client[k].box)
    BY <1>1, <2>2, AnswersAreFinite
  <2>4. /\ c \in Client /\ c.known = client[k].known /\ c.answer = client[k].answer
        /\ c.box = client[k].box /\ c.connected = client[k].connected
        /\ c.asked = client[k].asked /\ c.count = Cardinality(Matching(client[k].box))
    BY <1>1, <2>1, <2>3 DEF Client
  <2>5. Held(c)
    BY <1>1, <2>4 DEF Held
  <2>6. Informed(c)
    <3> SUFFICES ASSUME NEW r \in Requests, req[r].answer = "created",
                        c.connected, c.asked = "live",
                        Cardinality(c.answer) < Limit \/ c.count = Cardinality(c.answer),
                        InBox(c.box, req[r].at)
                 PROVE  RowOf(r) \in c.known \cup c.answer
      BY DEF Informed
    <3>1. CASE Cardinality(c.answer) < Limit
      BY <1>1, <2>4, <3>1 DEF Informed
    <3>2. CASE c.count = Cardinality(c.answer)
      <4>1. c.answer = Matching(c.box)
        BY <2>3, <2>4, <3>2
      <4>2. RowOf(r).at = req[r].at
        BY DEF RowOf
      <4>. QED BY <4>1, <4>2, CreatedIsCommitted DEF Matching
    <3>. QED BY <3>1, <3>2
  <2>7. client' = [client EXCEPT ![k] = c]
    BY <1>1, <1>5, <2>1 DEF CountByFilter
  <2>. QED BY <1>2, <2>4, <2>5, <2>6, <2>7, ClientKeeps
<1>6. CASE LookUp(k)
  <2>1. PICK rows \in SUBSET hexGrids : client' = [client EXCEPT ![k].known = @ \cup rows]
    BY <1>6 DEF LookUp, FindOneById, FindOneByUserId, FindOneByCoordinate
  <2>2. PICK c : c = [client[k] EXCEPT !.known = @ \cup rows]
    OBVIOUS
  <2>3. /\ c \in Client /\ c.known = client[k].known \cup rows /\ c.answer = client[k].answer
        /\ c.box = client[k].box /\ c.connected = client[k].connected
        /\ c.asked = client[k].asked /\ c.count = client[k].count
    BY <1>1, <2>1, <2>2 DEF Client
  <2>4. Held(c) /\ Informed(c)
    BY <1>1, <2>1, <2>3 DEF Held, Informed
  <2>5. client' = [client EXCEPT ![k] = c]
    BY <1>1, <2>1, <2>2
  <2>. QED BY <1>2, <2>3, <2>4, <2>5, ClientKeeps
<1>7. ASSUME NEW b \in Boxes, FindByFilter(k, b) PROVE MapInv'
  <2>1. PICK A \in SUBSET Matching(b) :
          /\ FirstRows(A, Matching(b))
          /\ client' = [client EXCEPT
               ![k].asked = IF client[k].connected THEN "live" ELSE "before",
               ![k].box = b, ![k].answer = A, ![k].count = -1]
    BY <1>7 DEF FindByFilter
  <2>2. PICK c : c = [client[k] EXCEPT
               !.asked = IF client[k].connected THEN "live" ELSE "before",
               !.box = b, !.answer = A, !.count = -1]
    OBVIOUS
  <2>3. A \subseteq Row /\ Cardinality(A) \in Nat
    BY <1>1, AnswersAreFinite DEF Matching
  <2>4. /\ c \in Client /\ c.known = client[k].known /\ c.answer = A /\ c.box = b
        /\ c.connected = client[k].connected /\ (c.asked = "live" => c.connected)
        /\ c.count = -1
    BY <1>1, <2>2, <2>3 DEF Client
  <2>5. Held(c)
    BY <1>1, <2>1, <2>4 DEF Held, FirstRows
  <2>6. Cardinality(A) < Limit \/ c.count = Cardinality(A) => A = Matching(b)
    BY <2>1, <2>3, <2>4, LimitAssumption DEF FirstRows
  <2>7. Informed(c)
    <3> SUFFICES ASSUME NEW r \in Requests, req[r].answer = "created",
                        A = Matching(b), InBox(b, req[r].at)
                 PROVE  RowOf(r) \in A
      BY <2>4, <2>6 DEF Informed
    <3>1. RowOf(r).at = req[r].at
      BY DEF RowOf
    <3>. QED BY <3>1, CreatedIsCommitted DEF Matching
  <2>8. client' = [client EXCEPT ![k] = c]
    BY <1>1, <2>1, <2>2
  <2>. QED BY <1>2, <2>4, <2>5, <2>7, <2>8, ClientKeeps
<1>. QED BY <1>3, <1>4, <1>5, <1>6, <1>7 DEF ClientStep

(* Before anything happens clients have been told nothing. *)
LEMMA InitMapInv == ASSUME MapInit PROVE MapInv
<1>1. PICK b \in Boxes :
        client = [k \in Clients |-> [ connected |-> FALSE, known |-> {}, asked |-> "never",
                                      box |-> b, answer |-> {}, count |-> -1 ]]
  BY DEF MapInit
<1>2. client \in [Clients -> Client]
  BY <1>1 DEF Client
<1>3. \A k \in Clients : Held(client[k])
  BY <1>1, FS_EmptySet, LimitAssumption DEF Held
<1>4. IsFiniteSet(hexGrids)
  BY FS_EmptySet DEF MapInit, Init
<1>5. LiveMapMissesNoGrid
  BY <1>1 DEF LiveMapMissesNoGrid
<1>. QED BY <1>2, <1>3, <1>4, <1>5 DEF MapInv

LEMMA NextMapInv ==
  ASSUME IInv, OutcomeInv, MapInv, TypeOK', [MapNext]_mapVars
  PROVE  MapInv'
<1>1. CASE UNCHANGED mapVars
  BY <1>1 DEF mapVars, vars, MapInv, Held, Matching, LiveMapMissesNoGrid, Complete, Told, RowOf
<1>. QED BY <1>1, BroadcastKeeps, ClientLearns DEF MapNext

(* What clients hold agrees with the table in every reachable state. *)
THEOREM MapInvariance == MapSpec => [](IInv /\ OutcomeInv /\ MapInv)
<1>1. MapInit => MapInv
  BY InitMapInv
<1>2. IInv => TypeOK
  BY DEF IInv
<1>3. IInv /\ OutcomeInv /\ MapInv /\ TypeOK' /\ [MapNext]_mapVars => MapInv'
  BY NextMapInv
<1>. QED BY <1>1, <1>2, <1>3, ServerRuns, Invariance, OutcomeInvariance, PTL DEF MapSpec

(* The types of the clients; no answer is longer than the limit. *)
THEOREM MapTypeCorrectness == MapSpec => []MapTypeOK
<1>1. MapInv => MapTypeOK
  BY DEF MapInv, Held, MapTypeOK
<1>. QED BY <1>1, MapInvariance, PTL

(* A client that connected before it asked misses no grid of its box. *)
THEOREM LiveMapIsComplete == MapSpec => []LiveMapMissesNoGrid
<1>1. MapInv => LiveMapMissesNoGrid
  BY DEF MapInv
<1>. QED BY <1>1, MapInvariance, PTL

(* Clients are told of committed grids only, and never of two that exclude each
   other. *)
THEOREM ClientsAreToldTheTruth == MapSpec => []ToldTheTruth
<1>1. MapInv => \A k \in Clients : Told(k) \subseteq hexGrids
  BY DEF MapInv, Held, Matching, Told
<1>2. Exclusive => \A g, h \in hexGrids : g.userId = h.userId \/ g.at = h.at => g = h
  BY DEF Exclusive, LiveRows
<1>3. MapInv /\ Exclusive => ToldTheTruth
  BY <1>1, <1>2 DEF ToldTheTruth
<1>. QED BY <1>3, MapInvariance, ServerRuns, OwnershipIsExclusive, PTL

(* A count that equals the size of an earlier answer proves it complete. *)
THEOREM CountsProveAnswers == MapSpec => CountProvesAnswer
<1> DEFINE Proves ==
      \A k \in Clients :
        LET c == client'[k] IN
        c.count # client[k].count /\ c.count = Cardinality(c.answer) =>
          {g \in hexGrids : InBox(c.box, g.at)} \subseteq c.answer
<1>1. ASSUME MapInv, [MapNext]_mapVars, NEW k \in Clients,
             client'[k].count # client[k].count,
             client'[k].count = Cardinality(client'[k].answer)
      PROVE  {g \in hexGrids : InBox(client'[k].box, g.at)} \subseteq client'[k].answer
  <2>1. /\ client \in [Clients -> Client] /\ client[k] \in Client /\ Held(client[k])
        /\ IsFiniteSet(hexGrids)
    BY <1>1 DEF MapInv
  <2>2. PICK j \in Clients : FindByFilter(j, client'[j].box) \/ CountByFilter(j)
    <3>1. CASE UNCHANGED mapVars
      BY <1>1, <3>1 DEF mapVars
    <3>2. ASSUME Broadcast PROVE client'[k].count = client[k].count
      BY <2>1, <3>2, BroadcastAsksNothing
    <3>3. ASSUME NEW j \in Clients, Connect(j) \/ Disconnect(j) \/ LookUp(j)
          PROVE  client'[k].count = client[k].count
      BY <2>1, <3>3, OthersAskNothing
    <3>4. ASSUME NEW j \in Clients, NEW b \in Boxes, FindByFilter(j, b)
          PROVE  client'[j].box = b
      <4>1. client[j] \in Client
        BY <2>1
      <4>. QED BY <2>1, <3>4, <4>1 DEF FindByFilter, Client
    <3>. QED BY <1>1, <3>1, <3>2, <3>3, <3>4 DEF MapNext, ClientStep
  <2>3. j = k
    BY <1>1, <2>1, <2>2 DEF FindByFilter, CountByFilter
  <2>4. CASE FindByFilter(k, client'[k].box)
    <3>1. PICK A \in SUBSET Matching(client'[k].box) : client'[k].answer = A /\ client'[k].count = -1
      BY <2>1, <2>4 DEF FindByFilter, Client
    <3>2. Cardinality(A) \in Nat
      BY <2>1, AnswersAreFinite
    <3>. QED BY <1>1, <3>1, <3>2
  <2>5. CASE CountByFilter(k)
    <3>1. /\ client'[k].answer = client[k].answer /\ client'[k].box = client[k].box
          /\ client'[k].count = Cardinality(Matching(client[k].box))
      BY <2>1, <2>5 DEF CountByFilter, Client
    <3>2. client[k].answer \in SUBSET Matching(client[k].box)
      BY <2>1 DEF Held
    <3>3. client'[k].answer = Matching(client'[k].box)
      BY <1>1, <2>1, <3>1, <3>2, AnswersAreFinite
    <3>. QED BY <3>3 DEF Matching
  <2>. QED BY <2>2, <2>3, <2>4, <2>5
<1>2. MapInv /\ [MapNext]_mapVars => [Proves]_mapVars
  BY <1>1
<1>. QED BY <1>2, MapInvariance, PTL DEF MapSpec, CountProvesAnswer

(* The limit cuts by id: what leaves an answer has made room for an earlier id. *)
LEMMA FirstRowsOfMore ==
  ASSUME NEW S, IsFiniteSet(S), NEW A \in SUBSET S, NEW B \in SUBSET S,
         Cardinality(A) <= Limit, FirstRows(B, S), NEW g \in A \ B
  PROVE  \E h \in B \ A : h.id < g.id
<1>1. Cardinality(B) = Limit /\ \A h \in B : h.id < g.id
  BY DEF FirstRows
<1>2. ASSUME B \subseteq A PROVE FALSE
  <2>1. IsFiniteSet(A) /\ Cardinality(A) \in Nat
    BY FS_Subset, FS_CardinalityType
  <2>2. Cardinality(B) <= Cardinality(A) /\ (Cardinality(A) = Cardinality(B) => A = B)
    BY <1>2, <2>1, FS_Subset
  <2>. QED BY <1>1, <2>1, <2>2, LimitAssumption
<1>. QED BY <1>1, <1>2

(* An answer that is asked for again loses grids only to grids with smaller ids. *)
THEOREM RefreshesDropForEarlier == MapSpec => RefreshDropsOnlyForEarlier
<1> DEFINE Drops ==
      \A k \in Clients :
        client[k].asked # "never" /\ client'[k].box = client[k].box =>
          \A g \in client[k].answer \ client'[k].answer :
            \E h \in client'[k].answer \ client[k].answer : h.id < g.id
<1>1. ASSUME MapInv, [MapNext]_mapVars, NEW k \in Clients,
             client'[k].box = client[k].box, NEW g \in client[k].answer \ client'[k].answer
      PROVE  \E h \in client'[k].answer \ client[k].answer : h.id < g.id
  <2>1. /\ client \in [Clients -> Client] /\ client[k] \in Client /\ Held(client[k])
        /\ IsFiniteSet(hexGrids)
    BY <1>1 DEF MapInv
  <2>2. PICK j \in Clients, b \in Boxes : FindByFilter(j, b)
    <3>1. CASE UNCHANGED mapVars
      BY <1>1, <3>1 DEF mapVars
    <3>2. ASSUME Broadcast PROVE client'[k].answer = client[k].answer
      BY <2>1, <3>2, BroadcastAsksNothing
    <3>3. ASSUME NEW j \in Clients, Connect(j) \/ Disconnect(j) \/ LookUp(j)
          PROVE  client'[k].answer = client[k].answer
      BY <2>1, <3>3, OthersAskNothing
    <3>4. ASSUME NEW j \in Clients, CountByFilter(j)
          PROVE  client'[k].answer = client[k].answer
      BY <2>1, <3>4 DEF CountByFilter, Client
    <3>. QED BY <1>1, <3>1, <3>2, <3>3, <3>4 DEF MapNext, ClientStep
  <2>3. j = k
    BY <1>1, <2>1, <2>2 DEF FindByFilter
  <2>4. PICK A \in SUBSET Matching(b) :
          /\ FirstRows(A, Matching(b))
          /\ client' = [client EXCEPT
               ![k].asked = IF client[k].connected THEN "live" ELSE "before",
               ![k].box = b, ![k].answer = A, ![k].count = -1]
    BY <2>2, <2>3 DEF FindByFilter
  <2>5. client'[k].answer = A /\ client'[k].box = b
    BY <2>1, <2>4 DEF Client
  <2>6. IsFiniteSet(Matching(b)) /\ client[k].answer \in SUBSET Matching(b)
    BY <1>1, <2>1, <2>5, AnswersAreFinite DEF Held
  <2>. QED BY <1>1, <2>1, <2>4, <2>5, <2>6, FirstRowsOfMore DEF Held
<1>2. MapInv /\ [MapNext]_mapVars => [Drops]_mapVars
  BY <1>1
<1>. QED BY <1>2, MapInvariance, PTL DEF MapSpec, RefreshDropsOnlyForEarlier
=============================================================================
