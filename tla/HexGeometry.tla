---------------------------- MODULE HexGeometry ----------------------------
(* The hexagonal map as hex-grids.service.ts sees it: a cell is a triple of
   cube coordinates, and every rule about cells is arithmetic on the triple. *)
EXTENDS Integers

Coordinate == [x : Int, y : Int, z : Int]

Abs(n) == IF n < 0 THEN -n ELSE n

\* x + y + z = 0: the plane of the triples that are cells of the map.
SumIsZero(c) == c.x + c.y + c.z = 0

\* Math.max(|x|, |y|, |z|) <= radius, spelled without a maximum.
InForbiddenZone(c, radius) ==
  Abs(c.x) <= radius /\ Abs(c.y) <= radius /\ Abs(c.z) <= radius

\* The box of the three BETWEEN clauses around c; c itself is in it.
Near(c, d) ==
  /\ d.x \in c.x - 1 .. c.x + 1
  /\ d.y \in c.y - 1 .. c.y + 1
  /\ d.z \in c.z - 1 .. c.z + 1

\* What the game means by adjacent: the six unit moves on the plane.
Directions ==
  { [x |-> 1, y |-> -1, z |-> 0], [x |-> -1, y |-> 1, z |-> 0],
    [x |-> 1, y |-> 0, z |-> -1], [x |-> -1, y |-> 0, z |-> 1],
    [x |-> 0, y |-> 1, z |-> -1], [x |-> 0, y |-> -1, z |-> 1] }

Moved(c, v) == [x |-> c.x + v.x, y |-> c.y + v.y, z |-> c.z + v.z]

Neighbours(c) == { Moved(c, v) : v \in Directions }

\* No path of neighbours leaves a set of cells except through a member.
ConnectedCells(S) ==
  \A A \in SUBSET S :
    A # {} /\ A # S => \E a \in A, b \in S \ A : Near(a, b)
=============================================================================
