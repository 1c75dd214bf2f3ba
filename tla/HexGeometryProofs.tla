------------------------- MODULE HexGeometryProofs -------------------------
(* What the arithmetic of the coordinate checks means on the map. *)
EXTENDS HexGeometry, TLAPS

(* The three BETWEEN clauses of the adjacency query (hex-grids.service.ts:161)
   describe a box of 27 triples; on the plane it holds exactly the cell and its
   six neighbours, so the query never accepts a cell further away and never
   misses a neighbour. *)
THEOREM NearIsAdjacency ==
  ASSUME NEW c \in Coordinate, NEW d \in Coordinate, SumIsZero(c), SumIsZero(d)
  PROVE  Near(c, d) <=> d = c \/ d \in Neighbours(c)
<1>1. c.x \in Int /\ c.y \in Int /\ c.z \in Int /\ d.x \in Int /\ d.y \in Int /\ d.z \in Int
  BY DEF Coordinate
<1>2. d \in Neighbours(c) <=> \E v \in Directions : d = Moved(c, v)
  BY DEF Neighbours
<1>3. ASSUME Near(c, d), d # c PROVE d \in Neighbours(c)
  <2> DEFINE p == d.x - c.x  q == d.y - c.y  w == d.z - c.z
             v == [x |-> p, y |-> q, z |-> w]
  <2>1. p \in -1 .. 1 /\ q \in -1 .. 1 /\ w \in -1 .. 1
    <3>1. p \in -1 .. 1
      BY <1>1, <1>3 DEF Near
    <3>2. q \in -1 .. 1
      BY <1>1, <1>3 DEF Near
    <3>3. w \in -1 .. 1
      BY <1>1, <1>3 DEF Near
    <3>. QED BY <3>1, <3>2, <3>3
  <2>2. p + q + w = 0
    BY <1>1 DEF SumIsZero
  <2>3. ~(p = 0 /\ q = 0 /\ w = 0)
    BY <1>1, <1>3 DEF Coordinate
  <2>4. v \in Directions
    <3>. HIDE DEF p, q, w
    <3>. QED BY <2>2, <2>1, <2>3 DEF Directions
  <2>5. d = Moved(c, v)
    BY <1>1 DEF Moved, Coordinate
  <2>. QED BY <2>4, <2>5, <1>2
<1>4. ASSUME d \in Neighbours(c) PROVE Near(c, d)
  <2>1. PICK v \in Directions : d = Moved(c, v)
    BY <1>4, <1>2
  <2>. QED BY <2>1, <1>1 DEF Directions, Moved, Near
<1>5. d = c => Near(c, d)
  BY <1>1 DEF Near
<1>. QED BY <1>3, <1>4, <1>5

(* Adjacency is symmetric: a grid that was allowed next to another could as
   well have been its support. *)
THEOREM NearIsSymmetric ==
  ASSUME NEW c \in Coordinate, NEW d \in Coordinate
  PROVE  Near(c, d) <=> Near(d, c)
BY DEF Near, Coordinate
=============================================================================
