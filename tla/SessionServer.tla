--------------------------- MODULE SessionServer ---------------------------
(***************************************************************************)
(* The server's end of a connection, the process server_child: it reads a  *)
(* header, checks it against the user type, and runs the handler of the    *)
(* operation, whose outcome (see BookingStore, Accounts, RoomRegister) is  *)
(* a choice here.                                                          *)
(***************************************************************************)
EXTENDS Protocol

CONSTANTS
  MaxRecords,    \* bound: records in a list
  MaxSurplus     \* bound: records sent beyond those announced

VARIABLES
  server,    \* where the process is, its operation, the size announced to it, records to send
  srole,     \* the type of the user it acts for
  surplus    \* records it has sent beyond those it had announced (history)

serverVars == <<server, srole, surplus>>

ServerEnds == {"closed", "short", "invalid", "killed"}
AtServer == {"header", "handler", "act", "send", "second", "details"} \cup ServerEnds

Idle == [at |-> "header", op |-> "none", size |-> 0, left |-> 0, did |-> "nothing"]

ServerInit ==
  /\ server = Idle
  /\ srole = "GUEST"
  /\ surplus = 0

-----------------------------------------------------------------------------
(* The main loop.  A request the user type may not send is answered ERROR,  *)
(* and whatever payload came with it is left in the stream, to be read as   *)
(* headers.                                                                 *)
ReadRequest ==
  /\ server.at = "header"
  /\ Read(up, "header", up')
  /\ \E h \in Commands(Head(up)) :
       IF is_valid_opcode_for_user_by_type(h.op, srole)
       THEN /\ server' = [at |-> "handler", op |-> h.op, size |-> h.size, left |-> 0,
                          did |-> "nothing"]
            /\ UNCHANGED down
       ELSE /\ server' = [Idle EXCEPT !.did = "ERROR"]
            /\ down' = Append(down, Header("ERROR", 0))
  /\ UNCHANGED <<srole, surplus>>

(* A handler checks the size and reads its payload, if it has one.          *)
TakePayload(op, type) ==
  /\ server.at = "handler" /\ server.op = op
  /\ IF server.size # SizeOf[type]
     THEN server' = [server EXCEPT !.at = "invalid"] /\ UNCHANGED up
     ELSE /\ server' = [server EXCEPT !.at = "act"]
          /\ \/ type = "nothing" /\ UNCHANGED up
             \/ type # "nothing" /\ Read(up, type, up')
  /\ UNCHANGED <<down, srole, surplus>>

(* Its answer: a failure, or a header and the data it announces.            *)
Fail(op) ==
  /\ server.at = "act" /\ server.op = op
  /\ down' = Append(down, Header("ERROR", 0))
  /\ server' = [Idle EXCEPT !.did = "ERROR"]
  /\ UNCHANGED <<up, srole, surplus>>

Announce(op, type, n) ==
  /\ server.at = "act" /\ server.op = op
  /\ down' = Append(down, Header("OK", n * SizeOf[type]))
  /\ server' = [server EXCEPT !.at = "send", !.left = n, !.did = "OK"]
  /\ UNCHANGED <<up, surplus>>

SendStruct(op, struct) ==
  /\ server.at = "send" /\ server.op = op /\ server.left > 0
  /\ down' = Append(down, struct)
  /\ server' = [server EXCEPT !.left = @ - 1]
  /\ UNCHANGED <<up, srole, surplus>>

Finish(op, next) ==
  /\ server.at = "send" /\ server.op = op /\ server.left = 0
  /\ server' = [Idle EXCEPT !.at = next, !.did = server.did]
  /\ UNCHANGED <<up, down, srole, surplus>>

(* The file has changed since the records were counted: the process sends   *)
(* some more, or finds it has sent too few and exits.                       *)
SendSurplus(op) ==
  /\ server.at = "send" /\ server.op = op /\ server.left = 0
  /\ surplus < MaxSurplus
  /\ down' = Append(down, Struct("booking"))
  /\ surplus' = surplus + 1
  /\ UNCHANGED <<up, server, srole>>

ExitShort(op) ==
  /\ server.at = "send" /\ server.op = op /\ server.left > 0
  /\ server' = [server EXCEPT !.at = "short"]
  /\ UNCHANGED <<up, down, srole, surplus>>

Single(op, request, type) ==
  \/ TakePayload(op, request)
  \/ Fail(op)
  \/ Announce(op, type, 1) /\ UNCHANGED srole
  \/ SendStruct(op, Struct(type))
  \/ Finish(op, "header")

ListBookings(op, next) ==
  \/ Fail(op)
  \/ \E n \in 0 .. MaxRecords : Announce(op, "booking", n) /\ UNCHANGED srole
  \/ SendStruct(op, Struct("booking"))
  \/ SendSurplus(op) \/ ExitShort(op)
  \/ Finish(op, next)

Listing(op, request) == TakePayload(op, request) \/ ListBookings(op, "header")

-----------------------------------------------------------------------------
(* Accounts.                                                                *)

Entering(op, types) ==
  \/ TakePayload(op, "credentials")
  \/ Fail(op)
  \/ srole' \in types /\ Announce(op, "user", 1)
  \/ SendStruct(op, UserStruct(srole))
  \/ Finish(op, "header")

handle_login == Entering("LOGIN", {"USER", "SUPERUSER"})
handle_signup == Entering("SIGNUP", {"USER"})

handle_logout ==
  \/ TakePayload("LOGOUT", "nothing")
  \/ Announce("LOGOUT", "nothing", 0) /\ srole' = "GUEST"
  \/ Finish("LOGOUT", "header")

-----------------------------------------------------------------------------
(* Rooms.  handle_list_rooms does not look at the size.                     *)
handle_create_room == Single("CREATE_ROOM", "room", "room")

handle_list_rooms ==
  \/ /\ server.at = "handler" /\ server.op = "ROOMS_LIST"
     /\ server' = [server EXCEPT !.at = "act"]
     /\ UNCHANGED <<up, down, srole, surplus>>
  \/ Fail("ROOMS_LIST")
  \/ \E n \in 0 .. MaxRecords : Announce("ROOMS_LIST", "room", n) /\ UNCHANGED srole
  \/ SendStruct("ROOMS_LIST", Struct("room"))
  \/ Finish("ROOMS_LIST", "header")

-----------------------------------------------------------------------------
(* A booking, in two messages; a cancellation is not answered.              *)

(* Faulty variant: a cancellation is acknowledged.                          *)
AnswerSecond ==
  /\ server.at = "second"
  /\ Read(up, "header", up')
  /\ IF Head(up).op = "CANCEL"
     THEN server' = Idle /\ down' = Append(down, Header("OK", 0))
     ELSE server' = [server EXCEPT !.at = "details", !.op = "DETAILS"] /\ UNCHANGED down
  /\ UNCHANGED <<srole, surplus>>

ReadSecond ==
  /\ server.at = "second"
  /\ Read(up, "header", up')
  /\ \E h \in Commands(Head(up)) :
         server' = CASE h.op = "CANCEL" -> Idle
                     [] h.op = "CREATE_BOOKING" /\ h.size = SizeOf["booking"] ->
                          [Idle EXCEPT !.at = "details", !.op = "DETAILS"]
                     [] OTHER -> [Idle EXCEPT !.at = "invalid"]
  /\ UNCHANGED <<down, srole, surplus>>

ReadDetails ==
  /\ server.at = "details"
  /\ Read(up, "booking", up')
  /\ server' = [server EXCEPT !.at = "act"]
  /\ UNCHANGED <<down, srole, surplus>>

handle_create_booking ==
  \/ TakePayload("CREATE_BOOKING", "room") \/ ListBookings("CREATE_BOOKING", "second")
  \/ ReadSecond \/ ReadDetails
  \/ Fail("DETAILS")
  \/ Announce("DETAILS", "booking", 1) /\ UNCHANGED srole
  \/ SendStruct("DETAILS", Struct("booking"))
  \/ Finish("DETAILS", "header")

-----------------------------------------------------------------------------
(* Decisions and listings.                                                  *)
handle_approve_booking == Single("APPROVE_BOOKING", "booking", "booking")
handle_reject_booking == Single("REJECT_BOOKING", "booking", "booking")
handle_force_booking_status == Single("FORCE_BOOKING_STATUS", "booking", "booking")

handle_users_bookings_list == Listing("USERS_BOOKINGS_LIST", "nothing")
handle_bookings_list_superuser == Listing("BOOKINGS_LIST_SUPERUSER", "nothing")
handle_bookings_list_room_id == Listing("BOOKINGS_LIST_BY_ROOM_ID", "room")
handle_bookings_list_username == Listing("BOOKINGS_LIST_BY_USERNAME", "user")
handle_bookings_list_booking_id == Single("BOOKINGS_LIST_BY_BOOKING_ID", "booking", "booking")
handle_bookings_list_time_range == Listing("BOOKINGS_LIST_BY_TIME_RANGE", "range")
handle_bookings_list_status == Listing("BOOKINGS_LIST_BY_STATUS", "status")

(* The bytes the process waits for.                                         *)
Awaited ==
  CASE server.at \in {"header", "second"} -> HEADER_SIZE
    [] server.at = "details"              -> SizeOf["booking"]
    [] server.at = "handler"              -> server.size
    [] OTHER                              -> 0

ServerNext ==
  \/ ReadRequest
  \/ handle_login \/ handle_signup \/ handle_logout
  \/ handle_create_room \/ handle_list_rooms
  \/ handle_create_booking
  \/ handle_approve_booking \/ handle_reject_booking \/ handle_force_booking_status
  \/ handle_users_bookings_list \/ handle_bookings_list_superuser
  \/ handle_bookings_list_room_id \/ handle_bookings_list_username
  \/ handle_bookings_list_booking_id \/ handle_bookings_list_time_range
  \/ handle_bookings_list_status
=============================================================================
