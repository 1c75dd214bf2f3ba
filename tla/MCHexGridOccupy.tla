-------------------------- MODULE MCHexGridOccupy --------------------------
(* Small instances of HexGridOccupy.  The zone radius is 0 or 1, so that the
   ring of radius 1 is allowed or forbidden; Alone is adjacent to no cell of
   East/NorthEast. *)
EXTENDS HexGridOccupy, TLC

Cell(a, b, c) == [x |-> a, y |-> b, z |-> c]

East      == Cell(1, -1, 0)
NorthEast == Cell(1, 0, -1)
West      == Cell(-1, 1, 0)
OffPlane  == Cell(1, 0, 0)

TwoIslands == {East, NorthEast, West}
Ring       == TwoIslands \cup {OffPlane}

Open      == [radius |-> 0, upload |-> TRUE, invite |-> TRUE]
Closed    == [radius |-> 1, upload |-> FALSE, invite |-> FALSE]
OneConfig  == {Open}
TwoConfigs == {Open, Closed}

Symmetry == Permutations(Requests) \cup Permutations(Users)
=============================================================================
