------------------------------ MODULE Protocol ------------------------------
(***************************************************************************)
(* What client and server share: the opcodes and who may send them, the    *)
(* payload types, and the two byte streams of a connection, taken apart    *)
(* into the pieces in which the ends write them.                           *)
(***************************************************************************)
EXTENDS Naturals, Sequences

VARIABLES
  up,      \* what the client has sent and the server has not read
  down     \* what the server has sent and the client has not read

GUEST_OPCODES == {"LOGIN", "SIGNUP", "ROOMS_LIST", "BOOKINGS_LIST_BY_ROOM_ID"}

USER_OPCODES ==
  {"ROOMS_LIST", "CREATE_BOOKING", "USERS_BOOKINGS_LIST", "BOOKINGS_LIST_BY_ROOM_ID",
   "BOOKINGS_LIST_BY_BOOKING_ID", "BOOKINGS_LIST_BY_STATUS",
   "BOOKINGS_LIST_BY_TIME_RANGE", "LOGOUT"}

SUPERUSER_OPCODES ==
  {"LOGOUT", "ROOMS_LIST", "BOOKINGS_LIST_BY_ROOM_ID", "BOOKINGS_LIST_BY_BOOKING_ID",
   "BOOKINGS_LIST_BY_STATUS", "BOOKINGS_LIST_BY_TIME_RANGE", "CREATE_ROOM",
   "APPROVE_BOOKING", "REJECT_BOOKING", "BOOKINGS_LIST_SUPERUSER",
   "BOOKINGS_LIST_BY_USERNAME", "FORCE_BOOKING_STATUS"}

is_valid_opcode_from_client(op) == op \in GUEST_OPCODES \cup USER_OPCODES \cup SUPERUSER_OPCODES

UserTypes == {"GUEST", "USER", "SUPERUSER"}

is_valid_opcode_for_user_by_type(op, user_type) ==
  CASE user_type = "GUEST"     -> op \in GUEST_OPCODES
    [] user_type = "USER"      -> op \in USER_OPCODES
    [] user_type = "SUPERUSER" -> op \in SUPERUSER_OPCODES

(* sizeof the payload types.  BookingStatus is an enum, an int.             *)
SizeOf == [nothing |-> 0, credentials |-> 64, user |-> 33, room |-> 36,
           booking |-> 64, range |-> 16, status |-> 4]

Types == DOMAIN SizeOf \ {"nothing"}

HEADER_SIZE == 8

(* A piece is a header, one struct of a payload, or what is left of a       *)
(* struct when its first bytes have been read as something else.  The size  *)
(* of a header is what it announces, that of another piece its bytes in the *)
(* stream.  A User carries its type.                                        *)
Header(op, size) == [type |-> "header", op |-> op, size |-> size, role |-> "GUEST"]
Struct(type) == [type |-> type, op |-> "UNKNOWN", size |-> SizeOf[type], role |-> "GUEST"]
UserStruct(user_type) == [Struct("user") EXCEPT !.role = user_type]
Torn(size) == [type |-> "torn", op |-> "UNKNOWN", size |-> size, role |-> "GUEST"]

Length(piece) == IF piece.type = "header" THEN HEADER_SIZE ELSE piece.size

Bytes(stream) ==
  LET sum[n \in 0 .. Len(stream)] == IF n = 0 THEN 0 ELSE sum[n - 1] + Length(stream[n])
  IN  sum[Len(stream)]

(* read_exact() takes so many bytes, wherever in a piece they begin or end. *)
Without(stream, size, rest) ==
  \E n \in 1 .. Len(stream), left \in 0 .. 63 :
    /\ left < Length(stream[n])
    /\ Bytes(SubSeq(stream, 1, n)) = size + left
    /\ rest = (IF left = 0 THEN << >> ELSE << Torn(left) >>) \o SubSeq(stream, n + 1, Len(stream))

(* A piece of that type, or as many bytes of whatever is there instead.     *)
Read(stream, type, rest) ==
  /\ stream # << >>
  /\ IF Head(stream).type = type THEN rest = Tail(stream)
     ELSE Without(stream, IF type = "header" THEN HEADER_SIZE ELSE SizeOf[type], rest)

(* What a client finds where a header is due.  A booking begins with its    *)
(* own id and that of its room: any opcode, and any size, of which those    *)
(* count that announce one or two structs.  What is left of one is text,    *)
(* times and padding: no opcode, perhaps a zero size.                       *)
RoomIds == {1, SizeOf["user"]} \cup {n * SizeOf[type] : n \in {1, 2}, type \in {"room", "booking"}}

Looks(piece) ==
  CASE piece.type = "header"  -> {piece}
    [] piece.type = "booking" -> {Header("UNKNOWN", 1), Header("ERROR", 1)}
                                   \cup {Header("OK", room_id) : room_id \in RoomIds}
    [] OTHER                  -> {Header("UNKNOWN", 0), Header("UNKNOWN", 1)}

(* What the server finds there.  Payloads it has refused are still in the   *)
(* stream.  Those of an order begin with an id: any opcode, then zeros.     *)
Commands(piece) ==
  IF piece.type = "header" THEN {piece}
  ELSE {Header("UNKNOWN", 0)} \cup
       IF piece.type \in {"room", "booking"}
       THEN {Header(op, 0) : op \in GUEST_OPCODES \cup USER_OPCODES \cup SUPERUSER_OPCODES}
       ELSE {}

(* Some of what is on its way is lost when an end or its host goes down.    *)
Cut(stream, rest) == \E n \in 0 .. Len(stream) : rest = SubSeq(stream, 1, n)
=============================================================================
