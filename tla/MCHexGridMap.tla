---------------------------- MODULE MCHexGridMap ----------------------------
(* A small instance of HexGridMap: two cells, both on the map's edge of one box
   and one of them in the other. *)
EXTENDS HexGridMap

East  == [x |-> 1, y |-> -1, z |-> 0]
West  == [x |-> -1, y |-> 1, z |-> 0]
Cells == {East, West}

Everywhere == [xMin |-> -1, xMax |-> 1, yMin |-> -1, yMax |-> 1, zMin |-> 0, zMax |-> 0]
EastHalf   == [Everywhere EXCEPT !.xMin = 0]
TwoBoxes   == {Everywhere, EastHalf}

Open      == [radius |-> 0, upload |-> TRUE, invite |-> TRUE]
OneConfig == {Open}
=============================================================================
