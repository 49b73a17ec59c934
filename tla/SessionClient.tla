--------------------------- MODULE SessionClient ---------------------------
(***************************************************************************)
(* The client's end of a connection: one dialogue per operation of         *)
(* client_utils.c, each a request, a response header, and the data the     *)
(* header announces.  What the user types is a choice; input that the      *)
(* client itself turns down sends nothing and returns to the menu.         *)
(***************************************************************************)
EXTENDS Protocol

VARIABLES
  client,    \* where the client is, in which dialogue, pieces it still has to read
  crole,     \* the user type it believes it has
  astray     \* it has gone on after taking part of a record for an answer (history)

ClientEnds == {"rejected", "cut", "gone", "lost"}
AtClient == {"menu", "payload", "answer", "read", "decide"} \cup ClientEnds

ClientInit ==
  /\ client = [at |-> "menu", op |-> "none", left |-> 0, said |-> "nothing"]
  /\ crole = "GUEST"
  /\ astray = FALSE

-----------------------------------------------------------------------------
(* A request: the menu lets through what the user type may do.              *)

(* Faulty variant: the client leaves the check to the server.               *)
AnythingGoes(op) == is_valid_opcode_from_client(op)

IsOffered(op) == is_valid_opcode_for_user_by_type(op, crole)

SendHeader(op, header, type) ==
  /\ up' = Append(up, header)
  /\ client' = [at |-> IF type = "nothing" THEN "answer" ELSE "payload",
                op |-> op, left |-> 0, said |-> "nothing"]

SendPayload(op, type) ==
  /\ client.at = "payload" /\ client.op = op
  /\ up' = Append(up, Struct(type))
  /\ client' = [client EXCEPT !.at = "answer"]
  /\ UNCHANGED <<down, crole, astray>>

Request(op, type) ==
  \/ /\ client.at = "menu" /\ IsOffered(op)
     /\ SendHeader(op, Header(op, SizeOf[type]), type)
     /\ UNCHANGED <<down, crole, astray>>
  \/ type # "nothing" /\ SendPayload(op, type)

(* The tests a dialogue makes on the response header.  Forcing takes any    *)
(* ERROR for a failure; two of the listings take an empty list for one.     *)
RefusedOrEmpty(h) == h.op = "ERROR" \/ h.size = 0
RefusedAnyhow(h) == h.op = "ERROR"
Refused(h) == h.op = "ERROR" /\ h.size = 0

Fails(op, h) ==
  CASE op = "FORCE_BOOKING_STATUS" -> RefusedAnyhow(h)
    [] op \in {"BOOKINGS_LIST_BY_TIME_RANGE", "BOOKINGS_LIST_BY_STATUS"} -> RefusedOrEmpty(h)
    [] OTHER -> Refused(h)

IsOne(type, h) == h.op = "OK" /\ h.size = SizeOf[type]
IsList(type, h) == h.op = "OK" /\ h.size % SizeOf[type] = 0

Accepts(op, type, h) ==
  IF op \in {"ROOMS_LIST", "CREATE_BOOKING", "USERS_BOOKINGS_LIST", "BOOKINGS_LIST_SUPERUSER",
             "BOOKINGS_LIST_BY_ROOM_ID", "BOOKINGS_LIST_BY_USERNAME",
             "BOOKINGS_LIST_BY_TIME_RANGE", "BOOKINGS_LIST_BY_STATUS"}
  THEN IsList(type, h) ELSE IsOne(type, h)

CountOf(h, type) == h.size \div SizeOf[type]

(* A record that nobody announced may stand where the header is due.  What  *)
(* it is taken for is rejected, and the client exits; or it is a failure or *)
(* an answer like any other, and the client goes on, astray.                *)
ReadAnswer(op, type, done) ==
  /\ client.at = "answer" /\ client.op = op
  /\ Read(down, "header", down')
  /\ \E h \in Looks(Head(down)) :
       LET fails == Fails(op, h)
           accepts == Accepts(op, type, h)
           next == CASE fails             -> "menu"
                     [] ~fails /\ accepts -> IF h.size = 0 THEN done ELSE "read"
                     [] OTHER             -> "rejected"
           said == CASE next = "menu" /\ fails  -> "failed"
                     [] next = "menu" /\ ~fails -> "done"
                     [] OTHER                   -> "nothing"
       IN  /\ client' = [client EXCEPT !.at = next, !.said = said,
                            !.left = IF next = "read" THEN CountOf(h, type) ELSE 0]
           /\ astray' = (astray \/ (Head(down).type # "header" /\ next # "rejected"))
  /\ UNCHANGED up

ReadData(op, type, done) ==
  /\ client.at = "read" /\ client.op = op
  /\ Read(down, type, down')
  /\ client' = IF client.left > 1
               THEN [client EXCEPT !.left = @ - 1]
               ELSE [client EXCEPT !.left = 0, !.at = done,
                                   !.said = IF done = "menu" THEN "done" ELSE "nothing"]
  /\ UNCHANGED <<up, astray>>

(* Most dialogues: a request, and one struct or a list that comes back.     *)
Dialogue(op, request, type) ==
  \/ Request(op, request)
  \/ ReadAnswer(op, type, "menu") /\ UNCHANGED crole
  \/ ReadData(op, type, "menu") /\ UNCHANGED crole

-----------------------------------------------------------------------------
(* Accounts.  The User that comes back says what the client may do now; what *)
(* is read in its place has a zero there, GUEST.                            *)

Entering(op) ==
  \/ Request(op, "credentials")
  \/ ReadAnswer(op, "user", "menu") /\ UNCHANGED crole
  \/ ReadData(op, "user", "menu") /\ crole' = Head(down).role

handle_login == Entering("LOGIN")
handle_signup == Entering("SIGNUP")

(* Faulty variant: the client still shows the menu of the user.             *)
StaysLoggedIn ==
  \/ Request("LOGOUT", "nothing")
  \/ ReadAnswer("LOGOUT", "nothing", "menu") /\ UNCHANGED crole

handle_logout ==
  \/ Request("LOGOUT", "nothing")
  \/ /\ ReadAnswer("LOGOUT", "nothing", "menu")
     /\ crole' = IF client'.said = "done" THEN "GUEST" ELSE crole

-----------------------------------------------------------------------------
(* Rooms.                                                                   *)
handle_create_room == Dialogue("CREATE_ROOM", "room", "room")
handle_list_rooms == Dialogue("ROOMS_LIST", "nothing", "room")

-----------------------------------------------------------------------------
(* A booking: the room, whose bookings come back; then, as a message of its *)
(* own, a cancellation, which is not answered, or the details, which are.   *)

(* Faulty variants: the server is not told of a cancellation; the client    *)
(* waits for an answer to it.                                               *)
CancelSilently ==
  /\ client.at = "decide"
  /\ client' = [client EXCEPT !.at = "menu"]
  /\ UNCHANGED <<up, down, crole, astray>>
AwaitCancelled ==
  /\ client.at = "decide"
  /\ up' = Append(up, Header("CANCEL", 0))
  /\ client' = [client EXCEPT !.at = "answer"]
  /\ UNCHANGED <<down, crole, astray>>

CancelBooking ==
  /\ client.at = "decide"
  /\ up' = Append(up, Header("CANCEL", 0))
  /\ client' = [client EXCEPT !.at = "menu"]
  /\ UNCHANGED <<down, crole, astray>>

SendDetails ==
  \/ /\ client.at = "decide"
     /\ SendHeader("DETAILS", Header("CREATE_BOOKING", SizeOf["booking"]), "booking")
     /\ UNCHANGED <<down, crole, astray>>
  \/ SendPayload("DETAILS", "booking")

handle_create_booking ==
  \/ Request("CREATE_BOOKING", "room")
  \/ /\ \/ ReadAnswer("CREATE_BOOKING", "booking", "decide")
        \/ ReadData("CREATE_BOOKING", "booking", "decide")
        \/ ReadAnswer("DETAILS", "booking", "menu")
        \/ ReadData("DETAILS", "booking", "menu")
     /\ UNCHANGED crole
  \/ CancelBooking
  \/ SendDetails

-----------------------------------------------------------------------------
(* Decisions and listings.                                                  *)
handle_approve_booking == Dialogue("APPROVE_BOOKING", "booking", "booking")
handle_reject_booking == Dialogue("REJECT_BOOKING", "booking", "booking")
handle_force_booking_status == Dialogue("FORCE_BOOKING_STATUS", "booking", "booking")

handle_users_bookings_list == Dialogue("USERS_BOOKINGS_LIST", "nothing", "booking")
handle_bookings_list_superuser == Dialogue("BOOKINGS_LIST_SUPERUSER", "nothing", "booking")
handle_bookings_list_room_id == Dialogue("BOOKINGS_LIST_BY_ROOM_ID", "room", "booking")
handle_bookings_list_username == Dialogue("BOOKINGS_LIST_BY_USERNAME", "user", "booking")
handle_bookings_list_booking_id == Dialogue("BOOKINGS_LIST_BY_BOOKING_ID", "booking", "booking")
handle_bookings_list_time_range == Dialogue("BOOKINGS_LIST_BY_TIME_RANGE", "range", "booking")
handle_bookings_list_status == Dialogue("BOOKINGS_LIST_BY_STATUS", "status", "booking")

-----------------------------------------------------------------------------
(* The bytes the client waits for.                                          *)
AnswerOf(op) ==
  CASE op \in {"LOGIN", "SIGNUP"}           -> "user"
    [] op = "LOGOUT"                        -> "nothing"
    [] op \in {"CREATE_ROOM", "ROOMS_LIST"} -> "room"
    [] OTHER                                -> "booking"

Awaited == IF client.at = "answer" THEN HEADER_SIZE ELSE SizeOf[AnswerOf(client.op)]

(* What the client does by itself, and what its user decides at the menu    *)
(* and when asked to go on with a booking.                                  *)
ClientNext ==
  \/ handle_login \/ handle_signup \/ handle_logout
  \/ handle_create_room \/ handle_list_rooms
  \/ handle_create_booking
  \/ handle_approve_booking \/ handle_reject_booking \/ handle_force_booking_status
  \/ handle_users_bookings_list \/ handle_bookings_list_superuser
  \/ handle_bookings_list_room_id \/ handle_bookings_list_username
  \/ handle_bookings_list_booking_id \/ handle_bookings_list_time_range
  \/ handle_bookings_list_status

ClientWorks == client.at \in {"payload", "answer", "read"} /\ ClientNext
=============================================================================
