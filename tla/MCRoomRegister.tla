--------------------------- MODULE MCRoomRegister ---------------------------
(* Small instances of RoomRegister for TLC.                                 *)
EXTENDS RoomRegister

(* "a 1" and "a.1" are one name in rooms.dat.                               *)
MCSanitized == [name \in {"", "a 1", "a.1", "b", "c"} |-> IF name = "a 1" THEN "a.1" ELSE name]

MCInitFiles ==
  {<< >>,
   << [room_id |-> 3, room_name |-> "b"], [room_id |-> 1, room_name |-> "a.1"] >>}
=============================================================================
