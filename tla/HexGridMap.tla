---------------------------- MODULE HexGridMap ----------------------------
(* The map as its clients see it: HexGridOccupy composed with the queries of
   HexGridsController and with the gateway, which sends OCCUPIED to the sockets
   of its process.

   A query is one SELECT outside any transaction: it is the step that reads the
   committed rows, and its answer changes nothing on the server.  A socket
   delivers what is sent to it as long as it is connected; what was sent while it
   was not connected is never sent again.  Clients are not part of the
   repository: they ask what they like, when they like. *)
EXTENDS HexGridOccupy

CONSTANTS
  Clients,   \* clients of the map
  Boxes,     \* the ranges they ask for
  Limit      \* the most rows findByFilter answers, 5000 in the code

\* FindByFilterDto without its name search.
Box == [xMin : Int, xMax : Int, yMin : Int, yMax : Int, zMin : Int, zMax : Int]

ASSUME LimitAssumption == Limit \in Nat \ {0}
ASSUME BoxesAssumption == Boxes # {} /\ Boxes \subseteq Box

VARIABLE client  \* what each client has been told

mapVars == <<vars, client>>

Client ==
  [ connected : BOOLEAN,
    known     : SUBSET Row,         \* by the gateway or by a lookup, since it connected
    asked     : {"never", "before", "live"},  \* when findByFilter read: before it
                                    \* connected, or since
    box       : Boxes,              \* what it asked for,
    answer    : SUBSET Row,         \* the answer,
    count     : Nat \cup {-1} ]     \* and a later count of the same; -1: not counted

\* The types of the clients; an answer has at most Limit rows.
MapTypeOK ==
  /\ client \in [Clients -> Client]
  /\ \A k \in Clients : Cardinality(client[k].answer) <= Limit
-----------------------------------------------------------------------------
InBox(box, c) ==
  /\ c.x >= box.xMin /\ c.x <= box.xMax
  /\ c.y >= box.yMin /\ c.y <= box.yMax
  /\ c.z >= box.zMin /\ c.z <= box.zMax

\* Rows of open transactions are read too.
MutMatchingUncommitted(box) == {g \in LiveRows : InBox(box, g.at)}

\* createFilter: the committed rows in the box.
Matching(box) == {g \in hexGrids : InBox(box, g.at)}

\* The limit is not applied.
MutNoLimit(A, S) == A = S

\* The latest rows come first.
MutLatestRows(A, S) ==
  /\ A \subseteq S
  /\ Cardinality(A) <= Limit
  /\ A # S => Cardinality(A) = Limit
  /\ \A g \in A, h \in S \ A : h.id < g.id

\* ORDER BY id ASC LIMIT: A is what S is cut down to.
FirstRows(A, S) ==
  /\ A \subseteq S
  /\ Cardinality(A) <= Limit
  /\ A # S => Cardinality(A) = Limit
  /\ \A g \in A, h \in S \ A : g.id < h.id

FindOneById(i)      == {g \in hexGrids : g.id = i}
FindOneByUserId(u)  == {g \in hexGrids : g.userId = u}
\* validateCoordinateSum comes first: off the plane the answer is a 400.
FindOneByCoordinate(c) == IF SumIsZero(c) THEN {g \in hexGrids : g.at = c} ELSE {}
-----------------------------------------------------------------------------
MapInit ==
  /\ Init
  /\ \E b \in Boxes :
       client = [k \in Clients |-> [ connected |-> FALSE, known |-> {}, asked |-> "never",
                                     box |-> b, answer |-> {}, count |-> -1 ]]

Connect(k) ==
  /\ ~client[k].connected
  /\ client' = [client EXCEPT ![k].connected = TRUE]
  /\ UNCHANGED vars

Unplugged(c) ==
  [c EXCEPT !.connected = FALSE, !.known = {},
            !.asked = IF @ = "live" THEN "before" ELSE @]

Disconnect(k) ==
  /\ client[k].connected
  /\ client' = [client EXCEPT ![k] = Unplugged(@)]
  /\ UNCHANGED vars

\* POST hex-grids/by-filter reads.
FindByFilter(k, box) ==
  /\ \E A \in SUBSET Matching(box) :
       /\ FirstRows(A, Matching(box))
       /\ client' = [client EXCEPT
            ![k].asked = IF client[k].connected THEN "live" ELSE "before",
            ![k].box = box, ![k].answer = A, ![k].count = -1]
  /\ UNCHANGED vars

\* The count is cut down to the limit, too.
MutCountLimited(k) ==
  /\ client[k].asked # "never"
  /\ LET n == Cardinality(Matching(client[k].box))
     IN  client' = [client EXCEPT ![k].count = IF n <= Limit THEN n ELSE Limit]
  /\ UNCHANGED vars

\* POST hex-grids/count/by-filter with the filter of the last answer.
CountByFilter(k) ==
  /\ client[k].asked # "never"
  /\ client' = [client EXCEPT ![k].count = Cardinality(Matching(client[k].box))]
  /\ UNCHANGED vars

\* GET hex-grids/mine, /:id, location/by-coordinate and location/by-user-id.
LookUp(k) ==
  /\ client[k].connected
  /\ \E rows \in {FindOneById(g.id) : g \in hexGrids}
                 \cup {FindOneByUserId(u) : u \in Users}
                 \cup {FindOneByCoordinate(c) : c \in Coordinates} :
       client' = [client EXCEPT ![k].known = @ \cup rows]
  /\ UNCHANGED vars

\* The rows for which this step emits OCCUPIED: its listeners are called at once.
Emitted == {RowOf(r) : r \in {s \in Requests : req[s].invite = "none" /\ req'[s].invite = "event"}}

\* handleAppHexGridOccupiedEvent: server.emit to the namespace.  A crash of the
\* server closes every socket.
Broadcast ==
  client' = [k \in Clients |->
    IF crashes' # crashes
      THEN Unplugged(client[k])
      ELSE [client[k] EXCEPT !.known = @ \cup {row \in Emitted : client[k].connected}]]

ClientStep(k) ==
  \/ Connect(k) \/ Disconnect(k) \/ CountByFilter(k) \/ LookUp(k)
  \/ \E b \in Boxes : FindByFilter(k, b)

MapNext ==
  \/ Next /\ Broadcast
  \/ \E k \in Clients : ClientStep(k)

MapSpec == MapInit /\ [][MapNext]_mapVars
-----------------------------------------------------------------------------
Told(k) == client[k].known \cup client[k].answer

\* What a client can tell of its answer: it was not cut down.
Complete(k) ==
  LET n == Cardinality(client[k].answer)
  IN  n < Limit \/ client[k].count = n

\* A client that connected before it asked, and whose answer was not cut down,
\* has been told of every grid of its box whose occupant was answered 201: the
\* emit follows the commit, so each grid is in the answer or sent to the socket.
LiveMapMissesNoGrid ==
  \A k \in Clients, r \in Requests :
    /\ client[k].connected /\ client[k].asked = "live" /\ Complete(k)
    /\ req[r].answer = "created" /\ InBox(client[k].box, req[r].at)
    => RowOf(r) \in Told(k)

\* Clients are told of committed grids only, whatever is rolled back, and never
\* of two grids of one user or on one cell, whenever they asked.
ToldTheTruth ==
  \A k \in Clients :
    /\ Told(k) \subseteq hexGrids
    /\ \A g, h \in Told(k) : g.userId = h.userId \/ g.at = h.at => g = h

\* A count that finds as many grids as an earlier answer has proves that answer
\* complete up to the count, although the two are separate reads of a map that
\* grows and only one of them is limited.
CountProvesAnswer ==
  [][\A k \in Clients :
       LET c == client'[k] IN
       c.count # client[k].count /\ c.count = Cardinality(c.answer) =>
         {g \in hexGrids : InBox(c.box, g.at)} \subseteq c.answer]_mapVars

\* Ids are not committed in order, so a grid may leave an answer that is asked
\* for again; it does so only for a grid with a smaller id.
RefreshDropsOnlyForEarlier ==
  [][\A k \in Clients :
       client[k].asked # "never" /\ client'[k].box = client[k].box =>
         \A g \in client[k].answer \ client'[k].answer :
           \E h \in client'[k].answer \ client[k].answer : h.id < g.id]_mapVars
=============================================================================
