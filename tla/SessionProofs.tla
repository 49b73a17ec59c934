---------------------------- MODULE SessionProofs ----------------------------
(***************************************************************************)
(* One connection with lists of any length: SessionInv is inductive, so    *)
(* both ends agree on the user and on where every message begins, wherever *)
(* either end is killed, as long as the client does not go astray.         *)
(***************************************************************************)
EXTENDS SessionInvariant, TLAPS

-----------------------------------------------------------------------------
(* Streams.                                                                 *)

LEMMA TailOf ==
  ASSUME NEW S, NEW s \in Seq(S), s # << >>
  PROVE  /\ Tail(s) \in Seq(S) /\ Len(Tail(s)) = Len(s) - 1
         /\ Len(s) \in Nat \ {0} /\ Head(s) = s[1] /\ s[1] \in S
         /\ \A i \in 1 .. Len(s) - 1 : Tail(s)[i] = s[i + 1]
OBVIOUS

LEMMA AppendOf ==
  ASSUME NEW S, NEW s \in Seq(S), NEW e \in S
  PROVE  /\ Append(s, e) \in Seq(S) /\ Len(Append(s, e)) = Len(s) + 1 /\ Append(s, e) # << >>
         /\ Append(s, e)[Len(s) + 1] = e
         /\ \A i \in 1 .. Len(s) : Append(s, e)[i] = s[i]
OBVIOUS

LEMMA CutOf ==
  ASSUME NEW S, NEW s \in Seq(S), NEW rest, Cut(s, rest)
  PROVE  /\ rest \in Seq(S) /\ Len(rest) <= Len(s)
         /\ \A i \in 1 .. Len(rest) : rest[i] = s[i]
<1>1. PICK n \in 0 .. Len(s) : rest = SubSeq(s, 1, n)
  BY DEF Cut
<1>2. Len(rest) = n /\ rest \in Seq(S) /\ \A i \in 1 .. n : rest[i] = s[i]
  BY <1>1
<1> QED BY <1>1, <1>2

LEMMA AtMostOne ==
  ASSUME NEW n \in Nat, n <= 1
  PROVE  n = 0 \/ n = 1
OBVIOUS

LEMMA AtMostTwo ==
  ASSUME NEW n \in 1 .. 2, NEW m \in Nat, m <= n, m # 0
  PROVE  m \in 1 .. 2 /\ (m = 2 => n = 2)
OBVIOUS

LEMMA EmptyOf ==
  ASSUME NEW S, NEW s \in Seq(S)
  PROVE  s = << >> <=> Len(s) = 0
OBVIOUS

-----------------------------------------------------------------------------
(* Requests and answers.                                                    *)

LEMMA Sizes ==
  /\ Types = {"credentials", "user", "room", "booking", "range", "status"}
  /\ SizeOf["nothing"] = 0 /\ SizeOf["booking"] = 64 /\ SizeOf["room"] = 36 /\ SizeOf["user"] = 33
  /\ SizeOf["credentials"] = 64 /\ SizeOf["range"] = 16 /\ SizeOf["status"] = 4
BY DEF Types, SizeOf

LEMMA RequestTypes ==
  ASSUME NEW op \in Opcodes \cup {"DETAILS"}
  PROVE  /\ RequestOf(op) \in Types \cup {"nothing"}
         /\ AnswerOf(op) \in {"user", "room", "booking", "nothing"}
         /\ AnswerOf(op) = "nothing" <=> op = "LOGOUT"
         /\ AnswerOf(op) = "user" <=> op \in {"LOGIN", "SIGNUP"}
         /\ SizeOf[RequestOf(op)] \in Nat /\ SizeOf[AnswerOf(op)] \in Nat
         /\ SizeOf[RequestOf(op)] = 0 <=> RequestOf(op) = "nothing"
<1>1. RequestOf(op) \in {"credentials", "room", "user", "range", "status", "nothing", "booking"}
  BY DEF RequestOf
<1>2. AnswerOf(op) \in {"user", "room", "booking", "nothing"}
  BY DEF AnswerOf, Client!AnswerOf
<1>3. /\ AnswerOf(op) = "nothing" <=> op = "LOGOUT"
      /\ AnswerOf(op) = "user" <=> op \in {"LOGIN", "SIGNUP"}
  BY DEF AnswerOf, Client!AnswerOf
<1> QED BY <1>1, <1>2, <1>3, Sizes

LEMMA Valid ==
  ASSUME NEW op, NEW role \in UserTypes, is_valid_opcode_for_user_by_type(op, role)
  PROVE  op \in Opcodes
BY DEF is_valid_opcode_for_user_by_type, UserTypes, Opcodes

LEMMA OpcodeWords == "DETAILS" \notin Opcodes /\ "none" \notin Opcodes /\ "CANCEL" \notin Opcodes
BY DEF Opcodes, GUEST_OPCODES, USER_OPCODES, SUPERUSER_OPCODES

LEMMA Packets ==
  /\ \A op \in Words, n \in Nat : /\ Header(op, n) \in Packet /\ Header(op, n).type = "header"
                                  /\ Header(op, n).op = op /\ Header(op, n).size = n
  /\ \A type \in Types : Struct(type) \in Packet /\ Struct(type).type = type
  /\ \A role \in UserTypes : /\ UserStruct(role) \in Packet /\ UserStruct(role).type = "user"
                             /\ UserStruct(role).role = role
  /\ \A size \in Nat : Torn(size) \in Packet
<1>1. ASSUME NEW op \in Words, NEW n \in Nat
      PROVE  /\ Header(op, n) \in Packet /\ Header(op, n).type = "header"
             /\ Header(op, n).op = op /\ Header(op, n).size = n
  BY DEF Header, Packet, UserTypes
<1>2. ASSUME NEW type \in Types
      PROVE  Struct(type) \in Packet /\ Struct(type).type = type
  BY Sizes DEF Struct, Packet, UserTypes, Words
<1>3. ASSUME NEW role \in UserTypes
      PROVE  /\ UserStruct(role) \in Packet /\ UserStruct(role).type = "user"
             /\ UserStruct(role).role = role
  BY Sizes DEF UserStruct, Struct, Packet, Words
<1>4. ASSUME NEW size \in Nat
      PROVE  Torn(size) \in Packet
  BY DEF Torn, Packet, UserTypes, Words
<1> QED BY <1>1, <1>2, <1>3, <1>4

(* A piece that is what its reader takes it for leaves the rest; of another *)
(* the rest is still a stream.                                              *)
LEMMA RestOf ==
  ASSUME NEW s \in Seq(Packet), NEW n \in 1 .. Len(s), NEW left \in Nat, NEW rest,
         rest = (IF left = 0 THEN << >> ELSE << Torn(left) >>) \o SubSeq(s, n + 1, Len(s))
  PROVE  rest \in Seq(Packet)
<1>1. SubSeq(s, n + 1, Len(s)) \in Seq(Packet)
  OBVIOUS
<1>2. << Torn(left) >> \in Seq(Packet)
  BY Packets
<1> QED BY <1>1, <1>2

LEMMA ServerReads ==
  ASSUME NEW s \in Seq(Packet), NEW type, NEW rest, Server!Read(s, type, rest)
  PROVE  s # << >> /\ rest \in Seq(Packet) /\ (Head(s).type = type => rest = Tail(s))
<1>1. s # << >>
  BY DEF Server!Read
<1>2. CASE Head(s).type = type
  BY <1>1, <1>2, TailOf DEF Server!Read
<1>3. CASE Head(s).type # type
  <2>1. PICK n \in 1 .. Len(s), left \in 0 .. 63 :
          rest = (IF left = 0 THEN << >> ELSE << Server!Torn(left) >>) \o SubSeq(s, n + 1, Len(s))
    BY <1>3 DEF Server!Read, Server!Without
  <2>2. Server!Torn(left) = Torn(left)
    BY DEF Server!Torn, Torn
  <2>3. rest = (IF left = 0 THEN << >> ELSE << Torn(left) >>) \o SubSeq(s, n + 1, Len(s))
    BY <2>1, <2>2
  <2>4. left \in Nat
    OBVIOUS
  <2>5. rest \in Seq(Packet)
    BY <2>3, <2>4, RestOf
  <2> QED BY <1>1, <1>3, <2>5
<1> QED BY <1>2, <1>3

LEMMA ClientReads ==
  ASSUME NEW s \in Seq(Packet), NEW type, NEW rest, Client!Read(s, type, rest)
  PROVE  s # << >> /\ rest \in Seq(Packet) /\ (Head(s).type = type => rest = Tail(s))
<1>1. s # << >>
  BY DEF Client!Read
<1>2. CASE Head(s).type = type
  BY <1>1, <1>2, TailOf DEF Client!Read
<1>3. CASE Head(s).type # type
  <2>1. PICK n \in 1 .. Len(s), left \in 0 .. 63 :
          rest = (IF left = 0 THEN << >> ELSE << Client!Torn(left) >>) \o SubSeq(s, n + 1, Len(s))
    BY <1>3 DEF Client!Read, Client!Without
  <2>2. Client!Torn(left) = Torn(left)
    BY DEF Client!Torn, Torn
  <2>3. rest = (IF left = 0 THEN << >> ELSE << Torn(left) >>) \o SubSeq(s, n + 1, Len(s))
    BY <2>1, <2>2
  <2>4. left \in Nat
    OBVIOUS
  <2>5. rest \in Seq(Packet)
    BY <2>3, <2>4, RestOf
  <2> QED BY <1>1, <1>3, <2>5
<1> QED BY <1>2, <1>3

(* A header is read as what it is, anything else as some header.            *)
LEMMA CommandsOf ==
  ASSUME NEW piece \in Packet, NEW h \in Server!Commands(piece)
  PROVE  h \in Packet /\ (piece.type = "header" => h = piece)
<1>1. \A op \in Words : Server!Header(op, 0) \in Packet
  BY DEF Server!Header, Packet, UserTypes
<1>2. Server!GUEST_OPCODES \cup Server!USER_OPCODES \cup Server!SUPERUSER_OPCODES \cup {"UNKNOWN"} \subseteq Words
  BY DEF Server!GUEST_OPCODES, Server!USER_OPCODES, Server!SUPERUSER_OPCODES, Words, Opcodes,
         GUEST_OPCODES, USER_OPCODES, SUPERUSER_OPCODES
<1>3. CASE piece.type = "header"
  BY <1>3 DEF Server!Commands
<1>4. CASE piece.type # "header"
  <2>1. \E op \in Words : h = Server!Header(op, 0)
    BY <1>2, <1>4 DEF Server!Commands
  <2> QED BY <1>1, <1>4, <2>1
<1> QED BY <1>3, <1>4

LEMMA LooksOf ==
  ASSUME NEW piece \in Packet, NEW h \in Client!Looks(piece)
  PROVE  h \in Packet /\ (piece.type = "header" => h = piece)
<1>1. \A op \in Words, n \in Nat : Client!Header(op, n) \in Packet
  BY DEF Client!Header, Packet, UserTypes
<1>2. Client!RoomIds \subseteq Nat
  BY DEF Client!RoomIds, Client!SizeOf
<1>3. {"UNKNOWN", "ERROR", "OK"} \subseteq Words
  BY DEF Words
<1>4. CASE piece.type = "header"
  BY <1>4 DEF Client!Looks
<1>5. CASE piece.type = "booking"
  <2>1. h \in {Client!Header("UNKNOWN", 1), Client!Header("ERROR", 1)}
               \cup {Client!Header("OK", room_id) : room_id \in Client!RoomIds}
    BY <1>5 DEF Client!Looks
  <2>2. \E op \in Words, n \in Nat : h = Client!Header(op, n)
    BY <1>2, <1>3, <2>1
  <2> QED BY <1>1, <1>5, <2>2
<1>6. CASE piece.type \notin {"header", "booking"}
  <2>1. h \in {Client!Header("UNKNOWN", 0), Client!Header("UNKNOWN", 1)}
    BY <1>6 DEF Client!Looks
  <2> QED BY <1>1, <1>3, <1>6, <2>1
<1> QED BY <1>4, <1>5, <1>6

-----------------------------------------------------------------------------
(* The server's handlers are alike: each takes a payload, answers a failure *)
(* or a number of structs, and sends them.                                  *)

Grants(op) ==
  \E n \in 0 .. MaxRecords :
    /\ Announced(op, n) /\ Server!Announce(op, AnswerOf(op), n)
    /\ srole' \in UserTypes
    /\ op \notin RolesChange => srole' = srole
    /\ op = "LOGOUT" => srole' = "GUEST"

Sends(op) ==
  \E struct \in Packet :
    /\ struct.type = AnswerOf(op)
    /\ struct.type = "user" => struct.role = srole
    /\ Server!SendStruct(op, struct)

Serves(op) ==
  \/ op # "DETAILS" /\ Server!TakePayload(op, RequestOf(op))
  \/ op # "LOGOUT" /\ Server!Fail(op)
  \/ Grants(op)
  \/ Sends(op)
  \/ AnswerOf(op) = "booking" /\ (Server!SendSurplus(op) \/ Server!ExitShort(op))
  \/ Server!Finish(op, After(op))

(* handle_list_rooms does not look at the size.                             *)
TakesRooms ==
  /\ server.at = "handler" /\ server.op = "ROOMS_LIST"
  /\ server' = [server EXCEPT !.at = "act"]
  /\ UNCHANGED <<up, down, srole, surplus>>

(* Both ends speak of the same things.                                      *)
LEMMA ServerSpeaks ==
  /\ Server!SizeOf = SizeOf
  /\ \A type : Server!Struct(type) = Struct(type)
  /\ \A role : Server!UserStruct(role) = UserStruct(role)
  /\ \A op, n : Server!Header(op, n) = Header(op, n)
  /\ \A op, role : Server!is_valid_opcode_for_user_by_type(op, role)
                     = is_valid_opcode_for_user_by_type(op, role)
BY DEF Server!SizeOf, SizeOf, Server!Struct, Struct, Server!UserStruct, UserStruct, Server!Header, Header, Server!is_valid_opcode_for_user_by_type,
       is_valid_opcode_for_user_by_type, Server!GUEST_OPCODES, GUEST_OPCODES, Server!USER_OPCODES,
       USER_OPCODES, Server!SUPERUSER_OPCODES, SUPERUSER_OPCODES

LEMMA ClientSpeaks ==
  /\ Client!SizeOf = SizeOf
  /\ \A type : Client!Struct(type) = Struct(type)
  /\ \A op, n : Client!Header(op, n) = Header(op, n)
  /\ \A op, role : Client!is_valid_opcode_for_user_by_type(op, role)
                     = is_valid_opcode_for_user_by_type(op, role)
BY DEF Client!SizeOf, SizeOf, Client!Struct, Struct, Client!Header, Header,
       Client!is_valid_opcode_for_user_by_type, is_valid_opcode_for_user_by_type,
       Client!GUEST_OPCODES, GUEST_OPCODES, Client!USER_OPCODES, USER_OPCODES,
       Client!SUPERUSER_OPCODES, SUPERUSER_OPCODES

LEMMA OneOf ==
  ASSUME NEW op \in Opcodes \cup {"DETAILS"}, Shapes, op \notin Lists, op # "LOGOUT",
         AnswerOf(op) \in {"room", "booking"},
         \/ Server!Fail(op)
         \/ Server!Announce(op, AnswerOf(op), 1) /\ UNCHANGED srole
         \/ Server!SendStruct(op, Struct(AnswerOf(op)))
         \/ Server!Finish(op, "header")
  PROVE  Serves(op)
<1>1. After(op) = "header"
  BY DEF After, Lists
<1>2. 1 \in 0 .. MaxRecords
  BY SessionAssumption
<1>3. Struct(AnswerOf(op)) \in Packet /\ Struct(AnswerOf(op)).type = AnswerOf(op)
  BY Packets, Sizes
<1>4. Server!Announce(op, AnswerOf(op), 1) /\ UNCHANGED srole => Grants(op)
  BY <1>2 DEF Grants, Announced, Shapes, RolesChange
<1>5. Server!SendStruct(op, Struct(AnswerOf(op))) => Sends(op)
  BY <1>3 DEF Sends
<1> QED BY <1>1, <1>4, <1>5 DEF Serves

LEMMA ManyOf ==
  ASSUME NEW op \in Opcodes, Shapes, op \in Lists, AnswerOf(op) = "booking",
         Server!ListBookings(op, After(op))
  PROVE  Serves(op)
<1>1. op # "LOGOUT" /\ op \notin RolesChange
  BY DEF Lists, RolesChange
<1>2. Struct("booking") \in Packet /\ Struct("booking").type = "booking"
  BY Packets, Sizes
<1>3. (\E n \in 0 .. MaxRecords : Server!Announce(op, "booking", n) /\ UNCHANGED srole) => Grants(op)
  BY <1>1 DEF Grants, Announced, Shapes
<1>4. Server!SendStruct(op, Struct("booking")) => Sends(op)
  BY <1>2 DEF Sends
<1> QED BY <1>1, <1>3, <1>4, ServerSpeaks DEF Serves, Server!ListBookings

LEMMA EnteringOf ==
  ASSUME NEW op \in {"LOGIN", "SIGNUP"}, NEW types, types \subseteq UserTypes, Shapes,
         Server!Entering(op, types)
  PROVE  Serves(op)
<1>1. op \notin Lists /\ op # "LOGOUT" /\ op # "DETAILS" /\ op \in RolesChange /\ After(op) = "header"
  BY DEF Lists, RolesChange, After
<1>2. RequestOf(op) = "credentials" /\ AnswerOf(op) = "user"
  BY DEF RequestOf, AnswerOf, Client!AnswerOf
<1>3. UserStruct(srole) \in Packet /\ UserStruct(srole).type = "user" /\ UserStruct(srole).role = srole
  BY Packets DEF Shapes
<1>4. srole' \in types /\ Server!Announce(op, "user", 1) => Grants(op)
  BY <1>1, <1>2, SessionAssumption DEF Grants, Announced
<1>5. Server!SendStruct(op, UserStruct(srole)) => Sends(op)
  BY <1>2, <1>3 DEF Sends
<1> QED BY <1>1, <1>2, <1>4, <1>5, ServerSpeaks DEF Serves, Server!Entering

LEMMA SingleOf ==
  ASSUME NEW op \in Opcodes, Shapes, op \notin Lists, op # "LOGOUT", op # "DETAILS",
         AnswerOf(op) \in {"room", "booking"}, Server!Single(op, RequestOf(op), AnswerOf(op))
  PROVE  Serves(op)
<1>1. CASE Server!TakePayload(op, RequestOf(op))
  BY <1>1 DEF Serves
<1>2. CASE ~Server!TakePayload(op, RequestOf(op))
  BY <1>2, OneOf, ServerSpeaks DEF Server!Single
<1> QED BY <1>1, <1>2

LEMMA ListingOf ==
  ASSUME NEW op \in Opcodes, Shapes, op \in Lists, op # "DETAILS", op # "CREATE_BOOKING",
         AnswerOf(op) = "booking", Server!Listing(op, RequestOf(op))
  PROVE  Serves(op)
<1>1. After(op) = "header"
  BY DEF After
<1> QED BY <1>1, ManyOf DEF Server!Listing, Serves

LEMMA LogoutOf ==
  ASSUME Shapes, Server!handle_logout
  PROVE  Serves("LOGOUT")
<1>1. /\ RequestOf("LOGOUT") = "nothing" /\ AnswerOf("LOGOUT") = "nothing" /\ After("LOGOUT") = "header"
      /\ "LOGOUT" \notin Lists /\ "LOGOUT" \in RolesChange
  BY DEF RequestOf, AnswerOf, Client!AnswerOf, After, Lists, RolesChange
<1>2. Server!Announce("LOGOUT", "nothing", 0) /\ srole' = "GUEST" => Grants("LOGOUT")
  BY <1>1, SessionAssumption DEF Grants, Announced, UserTypes
<1> QED BY <1>1, <1>2 DEF Serves, Server!handle_logout

LEMMA RoomsOf ==
  ASSUME Shapes, Server!handle_list_rooms
  PROVE  Serves("ROOMS_LIST") \/ TakesRooms
<1>1. /\ RequestOf("ROOMS_LIST") = "nothing" /\ AnswerOf("ROOMS_LIST") = "room"
      /\ After("ROOMS_LIST") = "header" /\ "ROOMS_LIST" \in Lists /\ "ROOMS_LIST" \notin RolesChange
  BY DEF RequestOf, AnswerOf, Client!AnswerOf, After, Lists, RolesChange
<1>2. Struct("room") \in Packet /\ Struct("room").type = "room"
  BY Packets, Sizes
<1>4. CASE \E n \in 0 .. MaxRecords : Server!Announce("ROOMS_LIST", "room", n) /\ UNCHANGED srole
  BY <1>1, <1>4 DEF Grants, Announced, Serves, Shapes
<1>5. CASE Server!Fail("ROOMS_LIST") \/ Server!Finish("ROOMS_LIST", "header")
  BY <1>1, <1>5 DEF Serves
<1>6. CASE Server!SendStruct("ROOMS_LIST", Struct("room"))
  BY <1>1, <1>2, <1>6 DEF Sends, Serves
<1> QED BY <1>4, <1>5, <1>6, ServerSpeaks DEF Server!handle_list_rooms, TakesRooms

LEMMA RoomsTaken ==
  ASSUME InStep, TakesRooms
  PROVE  Serves("ROOMS_LIST")
<1>1. RequestOf("ROOMS_LIST") = "nothing"
  BY DEF RequestOf
<1>2. server.size = SizeOf["nothing"]
  BY <1>1 DEF TakesRooms, InStep, UpInv, ServerIsUp, Server!ServerEnds
<1>3. Server!TakePayload("ROOMS_LIST", "nothing")
  BY <1>2, ServerSpeaks DEF TakesRooms, Server!TakePayload
<1> QED BY <1>1, <1>3 DEF Serves

LEMMA BookingOf ==
  ASSUME Shapes, Server!handle_create_booking
  PROVE  Serves("CREATE_BOOKING") \/ Serves("DETAILS") \/ Server!ReadSecond \/ Server!ReadDetails
<1>1. /\ RequestOf("CREATE_BOOKING") = "room" /\ AnswerOf("CREATE_BOOKING") = "booking"
      /\ After("CREATE_BOOKING") = "second" /\ "CREATE_BOOKING" \in Lists
      /\ "CREATE_BOOKING" \in Opcodes /\ AnswerOf("DETAILS") = "booking" /\ "DETAILS" \notin Lists
  BY DEF RequestOf, AnswerOf, Client!AnswerOf, After, Lists, Opcodes, USER_OPCODES
<1>2. CASE Server!TakePayload("CREATE_BOOKING", "room")
  BY <1>1, <1>2 DEF Serves
<1>3. CASE Server!ListBookings("CREATE_BOOKING", "second")
  BY <1>1, <1>3, ManyOf
<1>4. CASE \/ Server!Fail("DETAILS")
           \/ Server!Announce("DETAILS", "booking", 1) /\ UNCHANGED srole
           \/ Server!SendStruct("DETAILS", Struct("booking"))
           \/ Server!Finish("DETAILS", "header")
  BY <1>1, <1>4, OneOf
<1> QED BY <1>2, <1>3, <1>4, ServerSpeaks DEF Server!handle_create_booking

LEMMA ServerOps ==
  ASSUME Shapes, Server!ServerNext
  PROVE  \/ Server!ReadRequest \/ Server!ReadSecond \/ Server!ReadDetails \/ TakesRooms
         \/ \E op \in Opcodes \cup {"DETAILS"} : Serves(op)
<1> DEFINE singles == {"CREATE_ROOM", "APPROVE_BOOKING", "REJECT_BOOKING", "FORCE_BOOKING_STATUS",
                       "BOOKINGS_LIST_BY_BOOKING_ID"}
           listings == {"USERS_BOOKINGS_LIST", "BOOKINGS_LIST_SUPERUSER", "BOOKINGS_LIST_BY_ROOM_ID",
                        "BOOKINGS_LIST_BY_USERNAME", "BOOKINGS_LIST_BY_TIME_RANGE",
                        "BOOKINGS_LIST_BY_STATUS"}
<1>1. /\ singles \cup listings \cup {"LOGIN", "SIGNUP", "LOGOUT", "ROOMS_LIST", "CREATE_BOOKING"} \subseteq Opcodes
      /\ \A op \in singles : op \notin Lists /\ op # "LOGOUT" /\ op # "DETAILS"
      /\ \A op \in listings : op \in Lists /\ op # "CREATE_BOOKING" /\ op # "DETAILS"
  BY DEF Opcodes, GUEST_OPCODES, USER_OPCODES, SUPERUSER_OPCODES, Lists
<1>2. \A op \in (singles \cup listings) \ {"CREATE_ROOM"} : AnswerOf(op) = "booking"
  BY DEF AnswerOf, Client!AnswerOf
<1>3. AnswerOf("CREATE_ROOM") = "room" /\ RequestOf("CREATE_ROOM") = "room"
  BY DEF AnswerOf, Client!AnswerOf, RequestOf
<1>4. /\ \A op \in {"APPROVE_BOOKING", "REJECT_BOOKING", "FORCE_BOOKING_STATUS",
                    "BOOKINGS_LIST_BY_BOOKING_ID"} : RequestOf(op) = "booking"
      /\ \A op \in {"USERS_BOOKINGS_LIST", "BOOKINGS_LIST_SUPERUSER"} : RequestOf(op) = "nothing"
      /\ RequestOf("BOOKINGS_LIST_BY_ROOM_ID") = "room"
      /\ RequestOf("BOOKINGS_LIST_BY_USERNAME") = "user"
      /\ RequestOf("BOOKINGS_LIST_BY_TIME_RANGE") = "range"
      /\ RequestOf("BOOKINGS_LIST_BY_STATUS") = "status"
  BY DEF RequestOf
<1>5. \/ Server!ReadRequest
      \/ Server!handle_login \/ Server!handle_signup \/ Server!handle_logout
      \/ Server!handle_list_rooms \/ Server!handle_create_booking
      \/ \E op \in singles : Server!Single(op, RequestOf(op), AnswerOf(op))
      \/ \E op \in listings : Server!Listing(op, RequestOf(op))
  BY <1>2, <1>3, <1>4
     DEF Server!ServerNext, Server!handle_create_room, Server!handle_approve_booking,
         Server!handle_reject_booking, Server!handle_force_booking_status,
         Server!handle_users_bookings_list, Server!handle_bookings_list_superuser,
         Server!handle_bookings_list_room_id, Server!handle_bookings_list_username,
         Server!handle_bookings_list_booking_id, Server!handle_bookings_list_time_range,
         Server!handle_bookings_list_status
<1>6. CASE Server!handle_login
  BY <1>1, <1>6, EnteringOf DEF Server!handle_login, UserTypes
<1>7. CASE Server!handle_signup
  BY <1>1, <1>7, EnteringOf DEF Server!handle_signup, UserTypes
<1>8. CASE Server!handle_logout \/ Server!handle_list_rooms \/ Server!handle_create_booking
  BY <1>1, <1>8, LogoutOf, RoomsOf, BookingOf
<1>9. CASE \E op \in singles : Server!Single(op, RequestOf(op), AnswerOf(op))
  BY <1>1, <1>2, <1>3, <1>9, SingleOf
<1>10. CASE \E op \in listings : Server!Listing(op, RequestOf(op))
  BY <1>1, <1>2, <1>10, ListingOf
<1> QED BY <1>5, <1>6, <1>7, <1>8, <1>9, <1>10

-----------------------------------------------------------------------------
(* The steps of the server.                                                 *)

LEMMA SessionParts ==
  ASSUME InStep
  PROVE  /\ up \in Seq(Packet) /\ Len(up) \in Nat /\ down \in Seq(Packet) /\ Len(down) \in Nat
         /\ up = << >> <=> Len(up) = 0
         /\ down = << >> <=> Len(down) = 0
         /\ client.at \in Client!AtClient /\ server.at \in Server!AtServer
         /\ server.left \in Nat /\ client.left \in Nat /\ surplus \in Nat
         /\ crole \in UserTypes /\ srole \in UserTypes
         /\ server.at \in {"header", "handler", "act", "send", "second", "details"} => ServerIsUp
         /\ client.at \in {"menu", "payload", "answer", "read", "decide"} => ClientIsUp
         /\ ClientIsUp => client.at \in {"menu", "payload", "answer", "read", "decide"}
         /\ ServerIsUp => server.at \in {"header", "handler", "act", "send", "second", "details"}
<1>1. Shapes
  BY DEF InStep
<1> QED BY <1>1, EmptyOf, SessionAssumption
        DEF Shapes, ServerIsUp, ClientIsUp, Server!ServerEnds, Client!ClientEnds,
            Server!AtServer, Client!AtClient

(* A step of the server changes nothing but what a client that is up finds. *)
LEMMA ServerStepOf ==
  ASSUME InStep, UNCHANGED clientVars, Shapes', server'.at # "invalid", surplus' >= surplus,
         ServerIsUp' => UpInv',
         ClientIsUp => DownInv',
         ClientIsUp /\ ServerIsUp' => BothInv'
  PROVE  InStep'
<1>1. surplus \in Nat /\ surplus' \in Nat
  BY SessionAssumption DEF InStep, Shapes
<1>2. ClientIsUp' <=> ClientIsUp
  BY DEF ClientIsUp, clientVars
<1>3. client'.at = "rejected" => surplus' > 0
  BY <1>1 DEF InStep, clientVars
<1> QED BY <1>2, <1>3 DEF InStep

LEMMA SameDown ==
  ASSUME DownInv, UNCHANGED <<client, down, surplus>>
  PROVE  DownInv'
BY DEF DownInv, Stale, Failure, Answers

(* The server has read a piece.                                             *)
LEMMA Taken ==
  ASSUME Shapes, up # << >>, up' = Tail(up)
  PROVE  /\ up' \in Seq(Packet) /\ Len(up') = Len(up) - 1 /\ Head(up) = up[1] /\ Len(up) \in Nat
         /\ Len(up) >= 1
         /\ \A i \in 1 .. Len(up) - 1 : up'[i] = up[i + 1]
         /\ up' = << >> <=> Len(up) = 1
<1> DEFINE after == Tail(up)
<1>1. up \in Seq(Packet)
  BY DEF Shapes
<1>2. /\ after \in Seq(Packet) /\ Len(after) = Len(up) - 1
      /\ Len(up) \in Nat \ {0} /\ Head(up) = up[1]
      /\ \A i \in 1 .. Len(up) - 1 : after[i] = up[i + 1]
  BY <1>1, TailOf
<1>3. up' = after
  OBVIOUS
<1> HIDE DEF after
<1>4. after = << >> <=> Len(after) = 0
  BY <1>2, EmptyOf
<1>5. Len(up) >= 1 /\ Len(up) \in Nat
  BY <1>2
<1>6. Len(after) = 0 <=> Len(up) = 1
  BY <1>2
<1>7. up' = << >> <=> Len(up) = 1
  BY <1>3, <1>4, <1>6
<1> QED BY <1>2, <1>3, <1>5, <1>7

Idle0 == [at |-> "header", op |-> "none", size |-> 0, left |-> 0, did |-> "nothing"]

LEMMA ReadRequestKeeps ==
  ASSUME InStep, Server!ReadRequest, UNCHANGED clientVars
  PROVE  InStep'
<1>9. /\ Shapes /\ UpInv /\ server.at = "header" /\ up \in Seq(Packet) /\ Len(up) \in Nat
      /\ Server!Read(up, "header", up')
      /\ UNCHANGED <<client, crole, srole, surplus>>
      /\ ClientIsUp => DownInv /\ BothInv
  BY SessionParts DEF InStep, Server!ReadRequest, clientVars
<1>10. up # << >> /\ Head(up) \in Packet /\ Head(up).type = "header"
  <2>1. up # << >>
    BY <1>9, ServerReads
  <2>2. Len(up) >= 1 /\ Head(up) = up[1] /\ up[1] \in Packet
    BY <1>9, <2>1, TailOf
  <2> QED BY <1>9, <2>1, <2>2 DEF UpInv, Done, RequestFrom
<1>0. /\ Shapes /\ UpInv /\ server.at = "header" /\ up # << >> /\ Len(up) \in Nat
      /\ up' = Tail(up)
      /\ UNCHANGED <<client, crole, srole, surplus>>
      /\ ClientIsUp => DownInv /\ BothInv
  BY <1>9, <1>10, ServerReads
<1>1. /\ up' \in Seq(Packet) /\ Len(up') = Len(up) - 1 /\ Head(up) = up[1] /\ Len(up) \in {1, 2}
      /\ \A i \in 1 .. Len(up) - 1 : up'[i] = up[i + 1]
      /\ up' = << >> <=> Len(up) = 1
  <2>1. RequestFrom(1)
    BY <1>0 DEF UpInv, Done
  <2>2. Len(up) <= 2
    BY <2>1 DEF RequestFrom
  <2> QED BY <1>0, <2>2, Taken
<1>2. /\ up[1].op \in Opcodes /\ is_valid_opcode_for_user_by_type(up[1].op, srole)
      /\ up[1].size = SizeOf[RequestOf(up[1].op)] /\ up[1] \in Packet
      /\ Len(up) = 2 => up[2].type = RequestOf(up[1].op) /\ up[2].type # "nothing"
  BY <1>0, <1>1 DEF UpInv, Done, RequestFrom, Shapes
<1>3. /\ server' = [at |-> "handler", op |-> up[1].op, size |-> up[1].size, left |-> 0,
                    did |-> "nothing"]
      /\ down' = down
  BY <1>1, <1>2, <1>10, CommandsOf, ServerSpeaks DEF Server!ReadRequest
<1>4. Shapes'
  BY <1>0, <1>1, <1>2, <1>3, SessionAssumption DEF Shapes, Packet, Server!AtServer
<1>5. UpInv'
  BY <1>1, <1>2, <1>3 DEF UpInv, Done
<1>6. ClientIsUp => DownInv'
  BY <1>0, <1>3, SameDown
<1>7. ClientIsUp => BothInv'
  <2> SUFFICES ASSUME ClientIsUp PROVE BothInv'
    OBVIOUS
  <2>1. client.at \notin {"menu", "decide", "read"}
    BY <1>0 DEF BothInv, MenuInv, Done, Granted
  <2>2. CASE client.at = "payload"
    BY <1>0, <1>1, <1>3, <2>2 DEF BothInv, Asked, Done
  <2>3. CASE client.at = "answer"
    <3>1. Waiting
      BY <1>0, <2>3 DEF BothInv, AnswerInv, Refused, Granted
    <3>2. Waiting'
      BY <1>0, <1>1, <1>3, <3>1 DEF Waiting, Asked, Acting, Done, Stale
    <3> QED BY <1>0, <2>3, <3>2 DEF BothInv, AnswerInv
  <2> QED BY <1>0, <2>1, <2>2, <2>3 DEF BothInv
<1> QED BY <1>0, <1>3, <1>4, <1>5, <1>6, <1>7, ServerStepOf DEF Shapes

LEMMA TakePayloadKeeps ==
  ASSUME InStep, NEW op \in Opcodes, Server!TakePayload(op, RequestOf(op)), UNCHANGED clientVars
  PROVE  InStep'
<1>0. /\ Shapes /\ UpInv /\ server.at = "handler" /\ server.op = op
      /\ up \in Seq(Packet) /\ Len(up) \in Nat /\ (up = << >> <=> Len(up) = 0)
      /\ UNCHANGED <<client, crole, srole, surplus, down>>
      /\ ClientIsUp => DownInv /\ BothInv
  BY SessionParts DEF InStep, Server!TakePayload, clientVars
<1>1. server.size = SizeOf[RequestOf(op)] /\ Len(up) <= 1 /\ server.left = 0
      /\ (Len(up) = 1 => up[1].type = RequestOf(op) /\ up[1].type # "nothing")
  BY <1>0 DEF UpInv
<1>2. /\ server' = [server EXCEPT !.at = "act"]
      /\ \/ RequestOf(op) = "nothing" /\ UNCHANGED up
         \/ up # << >> /\ Head(up).type = RequestOf(op) /\ up' = Tail(up)
  <2>1. /\ server' = [server EXCEPT !.at = "act"]
        /\ (RequestOf(op) = "nothing" /\ UNCHANGED up) \/ Server!Read(up, RequestOf(op), up')
    BY <1>0, <1>1, ServerSpeaks DEF Server!TakePayload
  <2>2. ASSUME Server!Read(up, RequestOf(op), up')
        PROVE  up # << >> /\ Head(up).type = RequestOf(op) /\ up' = Tail(up)
    <3>1. up # << >>
      BY <1>0, <2>2, ServerReads
    <3>2. Len(up) >= 1 /\ Head(up) = up[1]
      BY <1>0, <3>1, TailOf
    <3>4. Len(up) \in Nat /\ Len(up) <= 1
      BY <1>0, <1>1
    <3>5. Len(up) = 1
      BY <1>0, <3>1, <3>4, AtMostOne
    <3>3. Head(up).type = RequestOf(op)
      BY <1>1, <3>2, <3>5
    <3> QED BY <1>0, <2>2, <3>1, <3>3, ServerReads
  <2> QED BY <2>1, <2>2
<1>9. Len(up) = 0 \/ Len(up) = 1
  <2>1. Len(up) \in Nat
    BY <1>0
  <2>2. Len(up) <= 1
    BY <1>1
  <2> QED BY <2>1, <2>2, AtMostOne
<1>3. up' = << >> /\ (RequestOf(op) # "nothing" => Len(up) = 1)
  <2>1. CASE RequestOf(op) = "nothing" /\ UNCHANGED up
    <3>1. Len(up) # 1
      BY <1>1, <2>1
    <3>2. Len(up) = 0
      BY <1>9, <3>1
    <3> QED BY <1>0, <2>1, <3>2
  <2>2. CASE up # << >> /\ Head(up).type = RequestOf(op) /\ up' = Tail(up)
    <3>1. Len(up) >= 1
      BY <1>0, <2>2, Taken
    <3>2. up' = << >> <=> Len(up) = 1
      BY <1>0, <2>2, Taken
    <3>3. Len(up) = 1
      BY <1>9, <3>1
    <3> QED BY <3>2, <3>3
  <2> QED BY <1>2, <2>1, <2>2
<1>4. Shapes'
  BY <1>0, <1>2, <1>3 DEF Shapes, Server!AtServer
<1>5. /\ server'.at = "act" /\ server'.op = op /\ server'.left = 0
  BY <1>0, <1>1, <1>2 DEF Shapes
<1>6. UpInv'
  BY <1>3, <1>5 DEF UpInv, Done
<1>7. ClientIsUp => DownInv'
  BY <1>0, SameDown
<1>8. ClientIsUp => BothInv'
  <2> SUFFICES ASSUME ClientIsUp PROVE BothInv'
    OBVIOUS
  <2>1. client.at \notin {"menu", "decide", "read"}
    BY <1>0 DEF BothInv, MenuInv, Done, Granted, After
  <2>2. ASSUME client.at = "payload" PROVE FALSE
    <3>1. Asked(0) /\ RequestOf(client.op) # "nothing"
      BY <1>0, <2>2 DEF BothInv, DownInv
    <3>2. client.op = op /\ Len(up) = 0
      BY <1>0, <3>1 DEF Asked, Done
    <3> QED BY <1>0, <1>3, <3>1, <3>2
  <2>3. CASE client.at = "answer"
    <3>1. Waiting
      BY <1>0, <2>3 DEF BothInv, AnswerInv, Refused, Granted, After
    <3>2. client.op = op
      BY <1>0, <3>1 DEF Waiting, Asked, Acting, Done
    <3>3. Waiting'
      BY <1>0, <1>3, <1>5, <3>1, <3>2 DEF Waiting, Acting, Stale
    <3> QED BY <1>0, <2>3, <3>3 DEF BothInv, AnswerInv
  <2> QED BY <1>0, <2>1, <2>2, <2>3 DEF BothInv
<1> QED BY <1>0, <1>4, <1>5, <1>6, <1>7, <1>8, ServerStepOf DEF Shapes

LEMMA ReadSecondKeeps ==
  ASSUME InStep, Server!ReadSecond, UNCHANGED clientVars
  PROVE  InStep'
<1>9. /\ Shapes /\ UpInv /\ server.at = "second" /\ up \in Seq(Packet) /\ Len(up) \in Nat
      /\ Server!Read(up, "header", up') /\ UNCHANGED <<client, crole, srole, surplus, down>>
      /\ ClientIsUp => DownInv /\ BothInv
  BY SessionParts DEF InStep, Server!ReadSecond, clientVars
<1>10. up # << >> /\ Head(up) \in Packet /\ Head(up).type = "header"
  <2>1. up # << >>
    BY <1>9, ServerReads
  <2>2. Head(up) = up[1] /\ up[1] \in Packet
    BY <1>9, <2>1, TailOf
  <2> QED BY <1>9, <2>1, <2>2 DEF UpInv, Done, DetailsSent, CancelSent
<1>0. /\ Shapes /\ UpInv /\ server.at = "second" /\ up # << >> /\ Len(up) \in Nat
      /\ up' = Tail(up) /\ UNCHANGED <<client, crole, srole, surplus, down>>
      /\ ClientIsUp => DownInv /\ BothInv
  BY <1>9, <1>10, ServerReads
<1>11. LET h == Head(up)
       IN  server' = CASE h.op = "CANCEL" -> Server!Idle
                       [] h.op = "CREATE_BOOKING" /\ h.size = Server!SizeOf["booking"] ->
                            [Server!Idle EXCEPT !.at = "details", !.op = "DETAILS"]
                       [] OTHER -> [Server!Idle EXCEPT !.at = "invalid"]
  BY <1>10, CommandsOf DEF Server!ReadSecond
<1>1. /\ up' \in Seq(Packet) /\ Len(up') = Len(up) - 1 /\ Head(up) = up[1] /\ Len(up) >= 1
      /\ \A i \in 1 .. Len(up) - 1 : up'[i] = up[i + 1]
      /\ up' = << >> <=> Len(up) = 1
  BY <1>0, Taken
<1>2. CASE CancelSent
  <2>1. server' = Idle0 /\ Len(up) <= 3
    BY <1>0, <1>1, <1>2, <1>11 DEF Server!Idle, CancelSent, RequestFrom, Idle0
  <2>2. Shapes'
    BY <1>0, <1>1, <2>1, SessionAssumption DEF Shapes, Server!AtServer, Words, Idle0
  <2>3. /\ Len(up') \in Nat
        /\ Len(up') >= 1 => up'[1] = up[2]
        /\ Len(up') = 2 => up'[2] = up[3]
    BY <1>0, <1>1, <2>1
  <2>4. server'.at = "header"
    BY <2>1 DEF Idle0
  <2>5. ASSUME NEW n \in {0, 1}, Asked(n) PROVE Asked(n)'
    <3>1. client.op \in Opcodes /\ Len(up) = 2 + n /\ up[2].op = client.op
      BY <1>0, <1>2, <2>5 DEF Asked, Done, CancelSent, DetailsSent
    <3>2. Len(up') = 1 + n /\ up'[1].op = client'.op
      BY <1>0, <1>1, <2>3, <3>1
    <3> QED BY <1>0, <2>4, <3>1, <3>2 DEF Asked, Done
  <2>6. RequestFrom(1)'
    BY <1>0, <1>1, <1>2, <2>3 DEF CancelSent, RequestFrom
  <2>7. UpInv'
    BY <2>1, <2>6 DEF UpInv, Done, Idle0
  <2>8. ClientIsUp => BothInv'
    <3> SUFFICES ASSUME ClientIsUp PROVE BothInv'
      OBVIOUS
    <3>1. client.at \notin {"decide", "read"}
      BY <1>0 DEF BothInv, Granted
    <3>2. CASE client.at = "menu"
      BY <1>0, <1>1, <2>1, <3>2 DEF BothInv, MenuInv, Done, Told, Idle0
    <3>3. CASE client.at = "payload"
      <4>1. Asked(0)
        BY <1>0, <3>3 DEF BothInv
      <4>2. Asked(0)'
        BY <2>5, <4>1
      <4> QED BY <1>0, <3>3, <4>2 DEF BothInv
    <3>4. CASE client.at = "answer"
      <4>1. Waiting
        BY <1>0, <3>4 DEF BothInv, AnswerInv, Refused, Granted
      <4>2. Waiting'
        BY <1>0, <2>5, <4>1 DEF Waiting, Acting, Stale
      <4> QED BY <1>0, <3>4, <4>2 DEF BothInv, AnswerInv
    <3> QED BY <1>0, <3>1, <3>2, <3>3, <3>4 DEF BothInv
  <2> QED BY <1>0, <2>1, <2>2, <2>7, <2>8, SameDown, ServerStepOf DEF Shapes, Idle0
<1>3. CASE DetailsSent
  <2>1. server' = [Idle0 EXCEPT !.at = "details", !.op = "DETAILS"]
    <3>1. /\ Head(up).op # "CANCEL" /\ Head(up).op = "CREATE_BOOKING"
          /\ Head(up).size = Server!SizeOf["booking"]
      BY <1>1, <1>3, ServerSpeaks DEF DetailsSent
    <3> QED BY <1>11, <3>1 DEF Server!Idle, Idle0
  <2>0. server' = [at |-> "details", op |-> "DETAILS", size |-> 0, left |-> 0, did |-> "nothing"]
    BY <2>1 DEF Idle0
  <2>2. Shapes'
    BY <1>0, <1>1, <2>0, SessionAssumption DEF Shapes, Server!AtServer, Words
  <2>3. Len(up) \in {1, 2} /\ (Len(up') = 1 => up'[1] = up[2])
    BY <1>0, <1>1, <1>3 DEF DetailsSent
  <2>4. UpInv'
    BY <1>1, <1>3, <2>1, <2>3 DEF UpInv, Done, Idle0, DetailsSent
  <2>5. ClientIsUp => BothInv'
    <3> SUFFICES ASSUME ClientIsUp PROVE BothInv'
      OBVIOUS
    <3>1. client.at \notin {"menu", "decide", "read"}
      BY <1>0, <1>3 DEF BothInv, MenuInv, Granted, Done, DetailsSent, CancelSent
    <3>2. ASSUME NEW n \in {0, 1}, Asked(n) PROVE Asked(n)'
      BY <1>0, <1>1, <1>3, <2>1, <2>3, <3>2 DEF Asked, Done, CancelSent, DetailsSent, Idle0
    <3>3. CASE client.at = "payload"
      BY <1>0, <3>2, <3>3 DEF BothInv
    <3>4. CASE client.at = "answer"
      <4>1. Waiting
        BY <1>0, <3>4 DEF BothInv, AnswerInv, Refused, Granted
      <4>2. Waiting'
        BY <1>0, <3>2, <4>1 DEF Waiting, Acting, Stale
      <4> QED BY <1>0, <3>4, <4>2 DEF BothInv, AnswerInv
    <3> QED BY <1>0, <3>1, <3>3, <3>4 DEF BothInv
  <2> QED BY <1>0, <2>1, <2>2, <2>4, <2>5, SameDown, ServerStepOf DEF Shapes, Idle0
<1> QED BY <1>0, <1>2, <1>3 DEF UpInv, Done

LEMMA ReadDetailsKeeps ==
  ASSUME InStep, Server!ReadDetails, UNCHANGED clientVars
  PROVE  InStep'
<1>9. /\ Shapes /\ UpInv /\ server.at = "details" /\ up \in Seq(Packet) /\ Len(up) \in Nat
      /\ Server!Read(up, "booking", up') /\ UNCHANGED <<client, crole, srole, surplus, down>>
      /\ server' = [server EXCEPT !.at = "act"]
      /\ ClientIsUp => DownInv /\ BothInv
  BY SessionParts DEF InStep, Server!ReadDetails, clientVars
<1>10. up # << >> /\ Head(up).type = "booking"
  <2>1. up # << >>
    BY <1>9, ServerReads
  <2>2. Len(up) >= 1 /\ Head(up) = up[1]
    BY <1>9, <2>1, TailOf
  <2>3. Len(up) \in Nat /\ Len(up) <= 1 /\ (Len(up) = 1 => up[1].type = "booking")
    BY <1>9 DEF UpInv
  <2>4. Len(up) = 1
    BY <1>9, <2>1, <2>3, AtMostOne, EmptyOf
  <2> QED BY <2>1, <2>2, <2>3, <2>4
<1>0. /\ Shapes /\ UpInv /\ server.at = "details" /\ up # << >> /\ Len(up) \in Nat
      /\ up' = Tail(up) /\ UNCHANGED <<client, crole, srole, surplus, down>>
      /\ server' = [server EXCEPT !.at = "act"]
      /\ ClientIsUp => DownInv /\ BothInv
  BY <1>9, <1>10, ServerReads
<1>1. /\ up' = << >> /\ Len(up) = 1 /\ server.left = 0
      /\ server'.at = "act" /\ server'.op = "DETAILS" /\ server'.left = 0
  BY <1>0, Taken DEF UpInv, Shapes
<1>2. Shapes'
  BY <1>0, <1>1 DEF Shapes, Server!AtServer
<1>3. UpInv'
  BY <1>1 DEF UpInv, Done
<1>4. ClientIsUp => BothInv'
  <2> SUFFICES ASSUME ClientIsUp PROVE BothInv'
    OBVIOUS
  <2>1. client.at \notin {"menu", "decide", "read"}
    BY <1>0 DEF BothInv, MenuInv, Done, Granted, After
  <2>2. client.at # "payload"
    BY <1>0, <1>1 DEF BothInv, DownInv, Asked, Done
  <2>3. CASE client.at = "answer"
    <3>1. Waiting
      BY <1>0, <2>3 DEF BothInv, AnswerInv, Refused, Granted, After
    <3>2. client.op = "DETAILS"
      BY <1>0, <3>1 DEF Waiting, Asked, Acting, Done
    <3>3. Waiting'
      BY <1>0, <1>1, <3>1, <3>2 DEF Waiting, Acting, Stale
    <3> QED BY <1>0, <2>3, <3>3 DEF BothInv, AnswerInv
  <2> QED BY <1>0, <2>1, <2>2, <2>3 DEF BothInv
<1> QED BY <1>0, <1>1, <1>2, <1>3, <1>4, SameDown, ServerStepOf DEF Shapes

(* While the server acts on a request, its client waits for the answer.     *)
LEMMA ActingOf ==
  ASSUME InStep, server.at = "act"
  PROVE  /\ Shapes /\ UpInv /\ up = << >> /\ server.left = 0
         /\ ClientIsUp => /\ DownInv /\ client.at = "answer" /\ client.op = server.op
                          /\ down = << >> \/ Stale
                          /\ crole = srole
<1>1. Shapes /\ UpInv /\ (ClientIsUp => DownInv /\ BothInv)
  BY SessionParts DEF InStep
<1>2. up = << >> /\ server.left = 0
  BY <1>1 DEF UpInv
<1>3. ASSUME ClientIsUp
      PROVE  client.at = "answer" /\ client.op = server.op /\ (down = << >> \/ Stale) /\ crole = srole
  <2>1. client.at \notin {"menu", "payload", "decide", "read"}
    BY <1>1, <1>3 DEF BothInv, MenuInv, Done, Granted, After, Asked
  <2>2. client.at = "answer"
    BY <1>3, <2>1, SessionParts
  <2>3. Waiting
    BY <1>1, <1>3, <2>2 DEF BothInv, AnswerInv, Refused, Granted, After
  <2>4. client.op = server.op
    BY <2>3 DEF Waiting, Asked, Acting, Done
  <2> QED BY <2>2, <2>3, <2>4 DEF Waiting
<1> QED BY <1>1, <1>2, <1>3

LEMMA StaleStays ==
  ASSUME Shapes, Stale, NEW e \in Packet, down' = Append(down, e), surplus' \in Nat, surplus' >= surplus
  PROVE  Stale'
<1>1. down \in Seq(Packet) /\ Len(down) >= 1 /\ Len(down) \in Nat
  BY EmptyOf DEF Shapes, Stale
<1>2. down' # << >> /\ down'[1] = down[1]
  BY <1>1, AppendOf
<1>3. surplus' > 0
  BY SessionAssumption DEF Shapes, Stale
<1> QED BY <1>2, <1>3 DEF Stale

LEMMA FirstOf ==
  ASSUME NEW e \in Packet, down = << >>, down' = Append(down, e)
  PROVE  Len(down') = 1 /\ down'[1] = e /\ DOMAIN down' = {1} /\ down' # << >>
OBVIOUS

LEMMA FailKeeps ==
  ASSUME InStep, NEW op \in Opcodes \cup {"DETAILS"}, Server!Fail(op), UNCHANGED clientVars
  PROVE  InStep'
<1> DEFINE h == Header("ERROR", 0)
<1>1. h \in Packet
  BY Packets DEF Words
<1>2. /\ Shapes /\ UpInv /\ up = << >> /\ UNCHANGED <<up, client, crole, srole, surplus>>
      /\ down' = Append(down, h)
      /\ server' = [at |-> "header", op |-> "none", size |-> 0, left |-> 0, did |-> "ERROR"]
      /\ ClientIsUp => /\ DownInv /\ client.at = "answer" /\ client.op = server.op
                       /\ down = << >> \/ Stale
                       /\ crole = srole
  BY ActingOf, ServerSpeaks DEF Server!Fail, Server!Idle, clientVars
<1> HIDE DEF h
<1>3. down' \in Seq(Packet)
  BY <1>1, <1>2, AppendOf DEF Shapes
<1>4. Shapes'
  BY <1>2, <1>3, SessionAssumption DEF Shapes, Server!AtServer, Words
<1>5. UpInv'
  BY <1>2 DEF UpInv, Done, RequestFrom
<1>6. Refused'
  BY <1>2 DEF Refused
<1>7. ASSUME ClientIsUp PROVE Failure' \/ Stale'
  <2>1. CASE down = << >>
    BY <1>1, <1>2, <2>1, FirstOf DEF Failure, h
  <2>2. CASE Stale
    <3>1. surplus \in Nat
      BY SessionParts
    <3> QED BY <1>1, <1>2, <2>2, <3>1, StaleStays
  <2> QED BY <1>2, <1>7, <2>1, <2>2
<1>8. ClientIsUp => DownInv'
  BY <1>2, <1>7 DEF DownInv
<1>9. ClientIsUp => BothInv'
  BY <1>2, <1>6, <1>7 DEF BothInv, AnswerInv
<1> QED BY <1>2, <1>4, <1>5, <1>8, <1>9, ServerStepOf DEF Shapes

LEMMA GrantsKeeps ==
  ASSUME InStep, NEW op \in Opcodes \cup {"DETAILS"}, Grants(op), UNCHANGED clientVars
  PROVE  InStep'
<1>0. PICK n \in 0 .. MaxRecords :
        /\ Announced(op, n) /\ Server!Announce(op, AnswerOf(op), n)
        /\ srole' \in UserTypes
        /\ op \notin RolesChange => srole' = srole
        /\ op = "LOGOUT" => srole' = "GUEST"
  BY DEF Grants
<1> DEFINE h == Header("OK", n * SizeOf[AnswerOf(op)])
<1>1. h \in Packet /\ h.type = "header"
  <2>1. n * SizeOf[AnswerOf(op)] \in Nat
    BY RequestTypes, SessionAssumption
  <2>2. "OK" \in Words
    BY DEF Words
  <2> HIDE DEF h
  <2>3. \A m \in Nat : Header("OK", m) \in Packet /\ Header("OK", m).type = "header"
    BY <2>2, Packets
  <2>4. h = Header("OK", n * SizeOf[AnswerOf(op)])
    BY DEF h
  <2> QED BY <2>1, <2>3, <2>4
<1>2. /\ Shapes /\ UpInv /\ up = << >> /\ UNCHANGED <<up, client, crole, surplus>>
      /\ server.at = "act" /\ server.op = op
      /\ down' = Append(down, h)
      /\ server' = [server EXCEPT !.at = "send", !.left = n, !.did = "OK"]
      /\ ClientIsUp => /\ DownInv /\ client.at = "answer" /\ client.op = server.op
                       /\ down = << >> \/ Stale
                       /\ crole = srole
  BY <1>0, ActingOf, ServerSpeaks DEF Server!Announce, clientVars
<1> HIDE DEF h
<1>3. /\ server'.at = "send" /\ server'.op = op /\ server'.left = n /\ server'.did = "OK"
      /\ server' \in [at : Server!AtServer, op : Words, size : Nat, left : 0 .. MaxRecords,
                      did : {"nothing", "OK", "ERROR"}]
  BY <1>0, <1>2 DEF Shapes, Server!AtServer
<1>4. down' \in Seq(Packet)
  BY <1>1, <1>2, AppendOf DEF Shapes
<1>5. Shapes'
  BY <1>0, <1>2, <1>3, <1>4 DEF Shapes
<1>6. UpInv'
  BY <1>2, <1>3 DEF UpInv, Done, RequestFrom
<1>7. ClientIsUp => Granted'
  BY <1>2, <1>3 DEF Granted
<1>8. ASSUME ClientIsUp
      PROVE  Stale' \/ (Answers(client.op, n)' /\ Balance(n, Len(down) - 1)' /\ NewRole')
  <2>1. CASE down = << >>
    <3>1. Len(down') = 1 /\ down'[1] = h /\ DOMAIN down' = {1} /\ down' # << >>
      BY <1>1, <1>2, <2>1, FirstOf
    <3>2. Answers(client.op, n)'
      <4>1. \A i \in 2 .. Len(down') : down'[i].type = AnswerOf(op)
        BY <3>1
      <4>2. Len(down') - 1 <= n
        BY <3>1
      <4> QED BY <1>0, <1>2, <1>8, <3>1, <4>1, <4>2 DEF Answers, h, Announced
    <3>3. Balance(n, Len(down) - 1)'
      BY <1>3, <3>1 DEF Balance
    <3>4. NewRole'
      BY <1>0, <1>1, <1>2, <1>8, <3>1 DEF NewRole
    <3> QED BY <3>2, <3>3, <3>4
  <2>2. CASE Stale
    <3>1. surplus \in Nat
      BY SessionParts
    <3> QED BY <1>1, <1>2, <2>2, <3>1, StaleStays
  <2> QED BY <1>2, <1>8, <2>1, <2>2
<1>9. ClientIsUp => DownInv'
  BY <1>2, <1>8 DEF DownInv
<1>10. ClientIsUp => BothInv'
  BY <1>2, <1>7, <1>8 DEF BothInv, AnswerInv
<1> QED BY <1>2, <1>3, <1>5, <1>6, <1>9, <1>10, ServerStepOf DEF Shapes

(* A client that is up while its answer is being sent.                      *)
LEMMA SendingOf ==
  ASSUME InStep, ClientIsUp, server.at = "send", server.left > 0
  PROVE  /\ client.at \in {"answer", "read"} /\ server.op = client.op
         /\ client.at = "answer" =>
              \/ Granted /\ Stale
              \/ /\ Granted /\ NewRole
                 /\ \E n \in 0 .. MaxRecords : Answers(client.op, n) /\ Balance(n, Len(down) - 1)
         /\ client.at = "read" => Granted /\ NewRole /\ Balance(client.left, Len(down))
<1>1. Shapes /\ UpInv /\ DownInv /\ BothInv /\ server.left \in Nat
  BY SessionParts DEF InStep
<1>2. client.at \notin {"menu", "payload", "decide"}
  BY <1>1 DEF BothInv, MenuInv, Done, Asked
<1>3. client.at \in {"answer", "read"}
  BY <1>2, SessionParts
<1>4. ~Refused /\ ~Waiting
  BY <1>1 DEF Refused, Waiting, Asked, Acting, Done
<1>5. Granted
  BY <1>1, <1>3, <1>4 DEF BothInv, AnswerInv
<1>6. server.op = client.op
  BY <1>5 DEF Granted, After
<1> QED BY <1>1, <1>3, <1>4, <1>6 DEF BothInv, AnswerInv

LEMMA AppendDown ==
  ASSUME Shapes, NEW e \in Packet, down' = Append(down, e)
  PROVE  /\ down' \in Seq(Packet) /\ Len(down) \in Nat /\ Len(down') = Len(down) + 1 /\ down' # << >>
         /\ down'[Len(down')] = e
         /\ \A i \in 1 .. Len(down) : down'[i] = down[i]
         /\ DOMAIN down' = 1 .. Len(down') /\ DOMAIN down = 1 .. Len(down)
         /\ down # << >> => Len(down) >= 1
<1>1. down \in Seq(Packet)
  BY DEF Shapes
<1>2. Len(down) \in Nat /\ (down # << >> => Len(down) >= 1) /\ DOMAIN down = 1 .. Len(down)
  BY <1>1
<1>3. down' \in Seq(Packet) /\ Len(down') = Len(down) + 1 /\ down' # << >>
  BY <1>1, AppendOf
<1>4. down'[Len(down')] = e /\ \A i \in 1 .. Len(down) : down'[i] = down[i]
  BY <1>1, <1>3, AppendOf
<1>5. DOMAIN down' = 1 .. Len(down')
  BY <1>3
<1> QED BY <1>2, <1>3, <1>4, <1>5

(* An answer goes on with one more of its structs.                          *)
LEMMA AnswersGoOn ==
  ASSUME Shapes, UNCHANGED client, NEW n \in 0 .. MaxRecords, Answers(client.op, n),
         NEW e \in Packet, e.type = AnswerOf(client.op), down' = Append(down, e),
         surplus' \in Nat, surplus' >= surplus,
         surplus' = 0 => Len(down) <= n
  PROVE  Answers(client.op, n)' /\ Len(down') = Len(down) + 1 /\ Len(down) \in Nat
<1>1. /\ down # << >> /\ down[1] = Header("OK", n * SizeOf[AnswerOf(client.op)])
      /\ \A i \in 2 .. Len(down) : down[i].type = AnswerOf(client.op)
  BY DEF Answers
<1>2. /\ Len(down) \in Nat /\ Len(down') = Len(down) + 1 /\ down' # << >>
      /\ down'[Len(down')] = e
      /\ \A i \in 1 .. Len(down) : down'[i] = down[i]
      /\ Len(down) >= 1
  BY <1>1, AppendDown
<1>3. down'[1] = Header("OK", n * SizeOf[AnswerOf(client.op)])
  BY <1>1, <1>2
<1>4. \A i \in 2 .. Len(down') : down'[i].type = AnswerOf(client.op)
  <2> TAKE i \in 2 .. Len(down')
  <2>1. CASE i = Len(down')
    BY <1>2, <2>1
  <2>2. CASE i # Len(down')
    <3>1. i \in 2 .. Len(down) /\ i \in 1 .. Len(down)
      BY <1>2, <2>2
    <3> QED BY <1>1, <1>2, <3>1
  <2> QED BY <2>1, <2>2
<1>5. surplus' = 0 => Len(down') - 1 <= n
  BY <1>2
<1> QED BY <1>2, <1>3, <1>4, <1>5 DEF Answers, Announced

LEMMA DataGoesOn ==
  ASSUME Shapes, NEW e \in Packet, down' = Append(down, e), NEW type,
         e.type = type, \A i \in DOMAIN down : down[i].type = type
  PROVE  \A i \in DOMAIN down' : down'[i].type = type
<1>1. /\ Len(down) \in Nat /\ Len(down') = Len(down) + 1
      /\ down'[Len(down')] = e
      /\ \A i \in 1 .. Len(down) : down'[i] = down[i]
      /\ DOMAIN down' = 1 .. Len(down') /\ DOMAIN down = 1 .. Len(down)
  BY AppendDown
<1> TAKE i \in DOMAIN down'
<1>2. CASE i = Len(down')
  BY <1>1, <1>2
<1>3. CASE i # Len(down')
  <2>1. i \in 1 .. Len(down)
    BY <1>1, <1>3
  <2> QED BY <1>1, <2>1
<1> QED BY <1>2, <1>3

LEMMA NewRoleGoesOn ==
  ASSUME Shapes, NewRole, UNCHANGED <<client, crole, srole>>, NEW e \in Packet,
         down' = Append(down, e), e.type = "user" => e.role = srole
  PROVE  NewRole'
<1>1. /\ Len(down) \in Nat /\ Len(down') = Len(down) + 1
      /\ down'[Len(down')] = e
      /\ \A i \in 1 .. Len(down) : down'[i] = down[i]
      /\ DOMAIN down' = 1 .. Len(down') /\ DOMAIN down = 1 .. Len(down)
  BY AppendDown
<1>2. ASSUME NEW i \in DOMAIN down', down'[i].type = "user" PROVE down'[i].role = srole
  <2>1. CASE i = Len(down')
    BY <1>1, <1>2, <2>1
  <2>2. CASE i # Len(down')
    <3>1. i \in 1 .. Len(down)
      BY <1>1, <2>2
    <3> QED BY <1>1, <1>2, <3>1 DEF NewRole
  <2> QED BY <2>1, <2>2
<1> QED BY <1>2 DEF NewRole

LEMMA SendsKeeps ==
  ASSUME InStep, NEW op \in Opcodes \cup {"DETAILS"}, Sends(op), UNCHANGED clientVars
  PROVE  InStep'
<1>1. PICK e \in Packet : /\ e.type = AnswerOf(op) /\ (e.type = "user" => e.role = srole)
                          /\ Server!SendStruct(op, e)
  BY DEF Sends
<1>2. /\ Shapes /\ UpInv /\ server.at = "send" /\ server.op = op /\ server.left > 0
      /\ UNCHANGED <<up, client, crole, srole, surplus>>
      /\ down' = Append(down, e)
      /\ server' = [server EXCEPT !.left = server.left - 1]
      /\ surplus \in Nat /\ surplus' >= surplus /\ server.left \in Nat
      /\ ClientIsUp => DownInv
  BY <1>1, SessionParts DEF InStep, Server!SendStruct, clientVars
<1>3. /\ server'.at = "send" /\ server'.op = op /\ server'.left = server.left - 1
      /\ server'.did = server.did /\ server.did = "OK" /\ up' = << >> /\ up = << >>
  BY <1>2 DEF Shapes, UpInv
<1>4. server' \in [at : Server!AtServer, op : Words, size : Nat, left : 0 .. MaxRecords,
                   did : {"nothing", "OK", "ERROR"}]
  <2>1. server.left - 1 \in 0 .. MaxRecords
    BY <1>2, SessionAssumption DEF Shapes
  <2> QED BY <1>2, <2>1 DEF Shapes
<1>5. Shapes'
  BY <1>2, <1>4, AppendDown DEF Shapes
<1>6. UpInv'
  BY <1>2, <1>3 DEF UpInv, Done, RequestFrom
<1>7. ASSUME ClientIsUp PROVE DownInv' /\ BothInv'
  <2>1. /\ client.at \in {"answer", "read"} /\ server.op = client.op
        /\ client.at = "answer" =>
             \/ Granted /\ Stale
             \/ /\ Granted /\ NewRole
                /\ \E n \in 0 .. MaxRecords : Answers(client.op, n) /\ Balance(n, Len(down) - 1)
        /\ client.at = "read" => Granted /\ NewRole /\ Balance(client.left, Len(down))
    BY <1>2, <1>7, SendingOf
  <2>2. Granted'
    BY <1>2, <1>3, <2>1 DEF Granted
  <2>3. CASE client.at = "answer" /\ Stale
    <3>1. Stale'
      BY <1>2, <2>3, StaleStays
    <3> QED BY <1>2, <1>7, <2>2, <2>3, <3>1 DEF DownInv, BothInv, AnswerInv
  <2>4. CASE client.at = "answer" /\ ~Stale
    <3>1. PICK n \in 0 .. MaxRecords : Answers(client.op, n) /\ Balance(n, Len(down) - 1)
      BY <2>1, <2>4
    <3>2. NewRole'
      BY <1>1, <1>2, <2>1, <2>4, NewRoleGoesOn
    <3>3. Len(down) \in Nat /\ Len(down') = Len(down) + 1
      BY <1>2, AppendDown
    <3>4. n = Len(down) - 1 + server.left
      BY <1>2, <3>1 DEF Balance
    <3>5. Answers(client.op, n)'
      <4>1. Len(down) <= n
        BY <1>2, <3>3, <3>4
      <4> QED BY <1>1, <1>2, <2>1, <3>1, <4>1, AnswersGoOn
    <3>6. Balance(n, Len(down) - 1)'
      BY <1>2, <1>3, <3>3, <3>4 DEF Balance
    <3> QED BY <1>2, <1>7, <2>2, <2>4, <3>2, <3>5, <3>6 DEF DownInv, BothInv, AnswerInv
  <2>5. CASE client.at = "read"
    <3>1. NewRole'
      BY <1>1, <1>2, <2>1, <2>5, NewRoleGoesOn
    <3>2. \A i \in DOMAIN down' : down'[i].type = AnswerOf(client.op)
      BY <1>1, <1>2, <1>7, <2>1, <2>5, DataGoesOn DEF DownInv
    <3>3. Len(down) \in Nat /\ Len(down') = Len(down) + 1
      BY <1>2, AppendDown
    <3>4. client.left = Len(down) + server.left
      BY <1>2, <2>1, <2>5 DEF Balance
    <3>5. Len(down') <= client.left /\ Balance(client.left, Len(down))'
      BY <1>2, <1>3, <3>3, <3>4 DEF Balance
    <3> QED BY <1>2, <1>7, <2>2, <2>5, <3>1, <3>2, <3>5 DEF DownInv, BothInv
  <2> QED BY <2>1, <2>3, <2>4, <2>5
<1> QED BY <1>2, <1>3, <1>5, <1>6, <1>7, ServerStepOf DEF Shapes

LEMMA FinishKeeps ==
  ASSUME InStep, NEW op \in Opcodes \cup {"DETAILS"}, Server!Finish(op, After(op)),
         UNCHANGED clientVars
  PROVE  InStep'
<1>1. /\ Shapes /\ UpInv /\ server.at = "send" /\ server.op = op /\ server.left = 0
      /\ UNCHANGED <<up, down, client, crole, srole, surplus>>
      /\ server' = [at |-> After(op), op |-> "none", size |-> 0, left |-> 0, did |-> server.did]
      /\ ClientIsUp => DownInv /\ BothInv
  BY SessionParts DEF InStep, Server!Finish, Server!Idle, clientVars
<1>2. /\ server'.at = After(op) /\ After(op) \in {"header", "second"} /\ server'.left = 0
      /\ server'.did = server.did /\ server.did = "OK"
  BY <1>1 DEF After, UpInv
<1>3. Shapes'
  BY <1>1, <1>2, SessionAssumption DEF Shapes, Server!AtServer, Words
<1>4. \A next \in {"header", "second"} : Done(next)' <=> Done(next)
  BY <1>1, <1>2 DEF Done
<1>5. UpInv'
  BY <1>1, <1>2, <1>4 DEF UpInv, RequestFrom, DetailsSent, CancelSent
<1>6. ClientIsUp => DownInv'
  BY <1>1, SameDown
<1>7. ClientIsUp => BothInv'
  <2> SUFFICES ASSUME ClientIsUp PROVE BothInv'
    OBVIOUS
  <2>1. Granted => Granted'
    BY <1>1, <1>2 DEF Granted, After
  <2>2. \A n \in {0, 1} : Asked(n) => Asked(n)'
    BY <1>1, <1>4 DEF Asked, DetailsSent, CancelSent, RequestFrom
  <2>3. Waiting => Waiting'
    BY <1>1, <2>2 DEF Waiting, Acting, Stale
  <2>5. NewRole => NewRole'
    BY <1>1 DEF NewRole
  <2>6. MenuInv => MenuInv'
    BY <1>1, <1>2, <1>4 DEF MenuInv, Told, CancelSent, RequestFrom
  <2>7. CASE client.at = "menu"
    BY <1>1, <2>6, <2>7 DEF BothInv
  <2>8. CASE client.at = "decide"
    BY <1>1, <1>4, <2>8 DEF BothInv
  <2>9. CASE client.at = "payload"
    BY <1>1, <2>2, <2>9 DEF BothInv
  <2>10. CASE client.at = "answer"
    <3>1. ~Refused
      BY <1>1 DEF Refused
    <3>2. Stale => Stale'
      BY <1>1 DEF Stale
    <3>3. ASSUME NEW n \in 0 .. MaxRecords, Answers(client.op, n), Balance(n, Len(down) - 1)
          PROVE  Answers(client.op, n)' /\ Balance(n, Len(down) - 1)'
      <4>1. Answers(client.op, n)'
        BY <1>1, <3>3 DEF Answers, Announced
      <4>2. Balance(n, Len(down) - 1)'
        BY <1>1, <1>2, <3>3 DEF Balance
      <4> QED BY <4>1, <4>2
    <3>4. AnswerInv
      BY <1>1, <2>10 DEF BothInv
    <3>5. AnswerInv'
      BY <2>1, <2>3, <2>5, <3>1, <3>2, <3>3, <3>4 DEF AnswerInv
    <3> QED BY <1>1, <2>10, <3>5 DEF BothInv
  <2>11. CASE client.at = "read"
    <3>1. Granted /\ NewRole /\ Balance(client.left, Len(down))
      BY <1>1, <2>11 DEF BothInv
    <3>2. Balance(client.left, Len(down))'
      BY <1>1, <1>2, <3>1 DEF Balance
    <3> QED BY <1>1, <2>1, <2>5, <2>11, <3>1, <3>2 DEF BothInv
  <2> QED BY <1>1, <2>7, <2>8, <2>9, <2>10, <2>11 DEF BothInv
<1> QED BY <1>1, <1>2, <1>3, <1>5, <1>6, <1>7, ServerStepOf DEF Shapes

LEMMA SurplusKeeps ==
  ASSUME InStep, NEW op \in Opcodes \cup {"DETAILS"}, AnswerOf(op) = "booking",
         Server!SendSurplus(op), UNCHANGED clientVars
  PROVE  InStep'
<1> DEFINE e == Struct("booking")
<1>1. down' = Append(down, e)
  BY ServerSpeaks DEF Server!SendSurplus
<1>2. e \in Packet /\ e.type = "booking"
  BY Packets, Sizes
<1> HIDE DEF e
<1>3. /\ Shapes /\ UpInv /\ server.at = "send" /\ server.op = op /\ server.left = 0
      /\ UNCHANGED <<up, client, crole, server, srole>>
      /\ surplus \in 0 .. MaxSurplus /\ surplus < MaxSurplus /\ surplus' = surplus + 1
      /\ ClientIsUp => DownInv /\ BothInv
  BY SessionParts DEF InStep, Shapes, Server!SendSurplus, clientVars
<1>4. surplus' \in 0 .. MaxSurplus /\ surplus' > 0 /\ surplus' >= surplus /\ surplus' \in Nat
  BY <1>3, SessionAssumption
<1>5. Shapes'
  BY <1>1, <1>2, <1>3, <1>4, AppendDown DEF Shapes
<1>6. UpInv'
  BY <1>3 DEF UpInv, Done, RequestFrom, DetailsSent, CancelSent
<1>7. down = << >> \/ Stale => Stale'
  <2>1. CASE down = << >>
    <3>1. down' # << >> /\ down'[1] = e
      BY <1>1, <1>2, <2>1, FirstOf
    <3> QED BY <1>2, <1>4, <3>1 DEF Stale
  <2>2. CASE Stale
    BY <1>1, <1>2, <1>3, <1>4, <2>2, StaleStays
  <2> QED BY <2>1, <2>2
<1>8. ASSUME ClientIsUp PROVE DownInv' /\ BothInv'
  <2>0. DownInv /\ BothInv
    BY <1>3, <1>8
  <2>1. Granted => Granted' /\ server.op = client.op
    BY <1>3 DEF Granted, After
  <2>2. \A n \in {0, 1} : Asked(n) => Asked(n)'
    BY <1>3 DEF Asked, Done, DetailsSent, CancelSent, RequestFrom
  <2>3. MenuInv => MenuInv'
    BY <1>3 DEF MenuInv, Told, Done, CancelSent, RequestFrom
  <2>4. Granted /\ NewRole => NewRole'
    BY <1>1, <1>2, <1>3, NewRoleGoesOn
  <2>5. CASE client.at \in {"menu", "payload", "decide"}
    <3>1. Stale'
      BY <1>7, <2>0, <2>5 DEF DownInv
    <3>2. DownInv'
      BY <1>3, <2>0, <2>5, <3>1 DEF DownInv
    <3>3. BothInv'
      BY <1>3, <2>0, <2>2, <2>3, <2>5 DEF BothInv, Done
    <3> QED BY <3>2, <3>3
  <2>6. CASE client.at = "answer"
    <3>0. AnswerInv
      BY <2>0, <2>6 DEF BothInv
    <3>1. ~Refused
      BY <1>3 DEF Refused
    <3>2. CASE Waiting
      <4>1. Waiting' /\ Stale'
        BY <1>3, <1>7, <2>2, <3>2 DEF Waiting, Acting
      <4> QED BY <1>3, <2>0, <2>6, <4>1 DEF DownInv, BothInv, AnswerInv
    <3>3. CASE Granted /\ Stale
      <4>1. Granted' /\ Stale'
        BY <1>7, <2>1, <3>3
      <4> QED BY <1>3, <2>0, <2>6, <4>1 DEF DownInv, BothInv, AnswerInv
    <3>4. CASE /\ Granted /\ NewRole
               /\ \E n \in 0 .. MaxRecords : Answers(client.op, n) /\ Balance(n, Len(down) - 1)
      <4>1. PICK n \in 0 .. MaxRecords : Answers(client.op, n) /\ Balance(n, Len(down) - 1)
        BY <3>4
      <4>2. Answers(client.op, n)' /\ Len(down') = Len(down) + 1 /\ Len(down) \in Nat
        BY <1>1, <1>2, <1>3, <1>4, <2>1, <3>4, <4>1, AnswersGoOn
      <4>3. Balance(n, Len(down) - 1)'
        BY <1>3, <1>4, <4>1, <4>2 DEF Balance
      <4> QED BY <1>3, <2>0, <2>1, <2>4, <2>6, <3>4, <4>2, <4>3 DEF DownInv, BothInv, AnswerInv
    <3> QED BY <3>0, <3>1, <3>2, <3>3, <3>4 DEF AnswerInv
  <2>7. CASE client.at = "read"
    <3>1. Granted /\ NewRole /\ Balance(client.left, Len(down))
      BY <2>0, <2>7 DEF BothInv
    <3>2. \A i \in DOMAIN down' : down'[i].type = AnswerOf(client.op)
      BY <1>1, <1>2, <1>3, <2>0, <2>1, <2>7, <3>1, DataGoesOn DEF DownInv
    <3>3. Len(down) \in Nat /\ Len(down') = Len(down) + 1
      BY <1>1, <1>2, <1>3, AppendDown
    <3>4. Balance(client.left, Len(down))'
      BY <1>3, <1>4, <3>1, <3>3, SessionParts DEF Balance
    <3> QED BY <1>3, <1>4, <2>0, <2>1, <2>4, <2>7, <3>1, <3>2, <3>4 DEF DownInv, BothInv
  <2> QED BY <1>8, <2>5, <2>6, <2>7, SessionParts
<1> QED BY <1>3, <1>4, <1>5, <1>6, <1>8, ServerStepOf DEF Shapes

(* A server that is down leaves its client with what it has sent.           *)
LEMMA ServerGone ==
  ASSUME InStep, UNCHANGED <<client, crole, srole, surplus>>,
         server' \in [at : Server!ServerEnds \ {"invalid"}, op : Words, size : Nat,
                      left : 0 .. MaxRecords, did : {"nothing", "OK", "ERROR"}],
         up' \in Seq(Packet), down' \in Seq(Packet), ClientIsUp => DownInv'
  PROVE  InStep'
<1>1. server'.at \in Server!ServerEnds \ {"invalid"}
  OBVIOUS
<1>2. ~ServerIsUp' /\ (ClientIsUp' <=> ClientIsUp)
  BY <1>1 DEF ServerIsUp, ClientIsUp
<1>3. Shapes'
  BY DEF InStep, Shapes, Server!AtServer
<1> QED BY <1>1, <1>2, <1>3 DEF InStep

LEMMA ExitShortKeeps ==
  ASSUME InStep, NEW op, Server!ExitShort(op), UNCHANGED clientVars
  PROVE  InStep'
<1>1. /\ Shapes /\ UNCHANGED <<up, down, client, crole, srole, surplus>>
      /\ server' = [server EXCEPT !.at = "short"]
      /\ ClientIsUp => DownInv
  BY DEF InStep, Server!ExitShort, clientVars
<1>2. server' \in [at : Server!ServerEnds \ {"invalid"}, op : Words, size : Nat,
                   left : 0 .. MaxRecords, did : {"nothing", "OK", "ERROR"}]
  BY <1>1 DEF Shapes, Server!ServerEnds
<1> QED BY <1>1, <1>2, SameDown, ServerGone DEF Shapes

LEMMA ServerKeeps ==
  ASSUME InStep, ServerStep
  PROVE  InStep'
<1>1. Server!ServerNext /\ UNCHANGED clientVars /\ Shapes
  BY DEF ServerStep, InStep
<1>3. "ROOMS_LIST" \in Opcodes
  BY DEF Opcodes, GUEST_OPCODES
<1>2. CASE \E op \in Opcodes \cup {"DETAILS"} : Serves(op)
  <2>1. PICK op \in Opcodes \cup {"DETAILS"} : Serves(op)
    BY <1>2
  <2>2. CASE op # "DETAILS" /\ Server!TakePayload(op, RequestOf(op))
    BY <1>1, <2>1, <2>2, TakePayloadKeeps
  <2>3. CASE op # "LOGOUT" /\ Server!Fail(op)
    BY <1>1, <2>3, FailKeeps
  <2>4. CASE Grants(op) \/ Sends(op)
    BY <1>1, <2>4, GrantsKeeps, SendsKeeps
  <2>5. CASE AnswerOf(op) = "booking" /\ (Server!SendSurplus(op) \/ Server!ExitShort(op))
    BY <1>1, <2>5, SurplusKeeps, ExitShortKeeps
  <2>6. CASE Server!Finish(op, After(op))
    BY <1>1, <2>6, FinishKeeps
  <2> QED BY <2>1, <2>2, <2>3, <2>4, <2>5, <2>6 DEF Serves
<1> QED BY <1>1, <1>2, <1>3, ServerOps, RoomsTaken, ReadRequestKeeps, ReadSecondKeeps, ReadDetailsKeeps

-----------------------------------------------------------------------------
(* The client's dialogues are alike too.                                    *)

(* Where a dialogue goes when it has its answer.                            *)
Then(op) == IF op = "CREATE_BOOKING" THEN "decide" ELSE "menu"

Asks(op) ==
  /\ client.at = "menu" /\ is_valid_opcode_for_user_by_type(op, crole)
  /\ Client!SendHeader(op, Header(op, SizeOf[RequestOf(op)]), RequestOf(op))
  /\ UNCHANGED <<down, crole, astray>>

AsksDetails ==
  /\ client.at = "decide"
  /\ Client!SendHeader("DETAILS", Header("CREATE_BOOKING", SizeOf["booking"]), "booking")
  /\ UNCHANGED <<down, crole, astray>>

Hears(op) ==
  /\ Client!ReadAnswer(op, AnswerOf(op), Then(op))
  /\ crole' = IF op = "LOGOUT" /\ client'.said = "done" THEN "GUEST" ELSE crole

Reads(op) ==
  /\ op # "LOGOUT" /\ Client!ReadData(op, AnswerOf(op), Then(op))
  /\ crole' = IF op \in {"LOGIN", "SIGNUP"} THEN Head(down).role ELSE crole

Asking(op) == \/ op \in Opcodes /\ Asks(op)
              \/ RequestOf(op) # "nothing" /\ Client!SendPayload(op, RequestOf(op))

Converses(op) == Asking(op) \/ Hears(op) \/ Reads(op)

LEMMA AskingOf ==
  ASSUME NEW op \in Opcodes, Client!Request(op, RequestOf(op))
  PROVE  Asking(op)
BY ClientSpeaks DEF Client!Request, Client!IsOffered, Asking, Asks

LEMMA DialogueOf ==
  ASSUME NEW op \in Opcodes, op \notin {"LOGIN", "SIGNUP", "LOGOUT", "CREATE_BOOKING"},
         Client!Dialogue(op, RequestOf(op), AnswerOf(op))
  PROVE  Converses(op)
<1>1. Then(op) = "menu"
  BY DEF Then
<1> QED BY <1>1, AskingOf DEF Client!Dialogue, Converses, Hears, Reads

LEMMA ClientEnteringOf ==
  ASSUME NEW op \in {"LOGIN", "SIGNUP"}, Client!Entering(op)
  PROVE  Converses(op)
<1>1. op \in Opcodes /\ Then(op) = "menu" /\ op # "LOGOUT"
  BY DEF Opcodes, GUEST_OPCODES, Then
<1>2. RequestOf(op) = "credentials" /\ AnswerOf(op) = "user"
  BY DEF RequestOf, AnswerOf, Client!AnswerOf
<1> QED BY <1>1, <1>2, AskingOf DEF Client!Entering, Converses, Hears, Reads

LEMMA ClientLogoutOf ==
  ASSUME Client!handle_logout
  PROVE  Converses("LOGOUT")
<1>1. "LOGOUT" \in Opcodes /\ Then("LOGOUT") = "menu"
  BY DEF Opcodes, USER_OPCODES, Then
<1>2. RequestOf("LOGOUT") = "nothing" /\ AnswerOf("LOGOUT") = "nothing"
  BY DEF RequestOf, AnswerOf, Client!AnswerOf
<1> QED BY <1>1, <1>2, AskingOf DEF Client!handle_logout, Converses, Hears

LEMMA ClientBookingOf ==
  ASSUME Client!handle_create_booking
  PROVE  Client!CancelBooking \/ AsksDetails \/ Converses("CREATE_BOOKING") \/ Converses("DETAILS")
<1>1. /\ "CREATE_BOOKING" \in Opcodes /\ Then("CREATE_BOOKING") = "decide" /\ Then("DETAILS") = "menu"
      /\ RequestOf("CREATE_BOOKING") = "room" /\ AnswerOf("CREATE_BOOKING") = "booking"
      /\ RequestOf("DETAILS") = "booking" /\ AnswerOf("DETAILS") = "booking"
  BY DEF Opcodes, USER_OPCODES, Then, RequestOf, AnswerOf, Client!AnswerOf
<1>2. CASE Client!Request("CREATE_BOOKING", "room")
  BY <1>1, <1>2, AskingOf DEF Converses
<1>3. CASE Client!SendDetails
  BY <1>1, <1>3, ClientSpeaks DEF Client!SendDetails, AsksDetails, Converses, Asking
<1>4. CASE /\ \/ Client!ReadAnswer("CREATE_BOOKING", "booking", "decide")
              \/ Client!ReadData("CREATE_BOOKING", "booking", "decide")
              \/ Client!ReadAnswer("DETAILS", "booking", "menu")
              \/ Client!ReadData("DETAILS", "booking", "menu")
           /\ UNCHANGED crole
  BY <1>1, <1>4 DEF Converses, Hears, Reads
<1> QED BY <1>2, <1>3, <1>4 DEF Client!handle_create_booking

LEMMA ClientOps ==
  ASSUME Client!ClientNext
  PROVE  \/ Client!CancelBooking \/ AsksDetails
         \/ \E op \in Opcodes \cup {"DETAILS"} : Converses(op)
<1> DEFINE plain == {"CREATE_ROOM", "ROOMS_LIST", "APPROVE_BOOKING", "REJECT_BOOKING",
                     "FORCE_BOOKING_STATUS", "BOOKINGS_LIST_BY_BOOKING_ID",
                     "USERS_BOOKINGS_LIST", "BOOKINGS_LIST_SUPERUSER", "BOOKINGS_LIST_BY_ROOM_ID",
                     "BOOKINGS_LIST_BY_USERNAME", "BOOKINGS_LIST_BY_TIME_RANGE",
                     "BOOKINGS_LIST_BY_STATUS"}
<1>1. /\ plain \cup {"LOGIN", "SIGNUP", "LOGOUT", "CREATE_BOOKING"} \subseteq Opcodes
      /\ \A op \in plain : op \notin {"LOGIN", "SIGNUP", "LOGOUT", "CREATE_BOOKING"}
  BY DEF Opcodes, GUEST_OPCODES, USER_OPCODES, SUPERUSER_OPCODES
<1>2. /\ \A op \in plain \ {"CREATE_ROOM", "ROOMS_LIST"} : AnswerOf(op) = "booking"
      /\ \A op \in {"CREATE_ROOM", "ROOMS_LIST"} : AnswerOf(op) = "room"
  BY DEF AnswerOf, Client!AnswerOf
<1>3. /\ \A op \in {"APPROVE_BOOKING", "REJECT_BOOKING", "FORCE_BOOKING_STATUS",
                    "BOOKINGS_LIST_BY_BOOKING_ID"} : RequestOf(op) = "booking"
      /\ \A op \in {"ROOMS_LIST", "USERS_BOOKINGS_LIST", "BOOKINGS_LIST_SUPERUSER"} :
           RequestOf(op) = "nothing"
      /\ \A op \in {"CREATE_ROOM", "BOOKINGS_LIST_BY_ROOM_ID"} : RequestOf(op) = "room"
      /\ RequestOf("BOOKINGS_LIST_BY_USERNAME") = "user"
      /\ RequestOf("BOOKINGS_LIST_BY_TIME_RANGE") = "range"
      /\ RequestOf("BOOKINGS_LIST_BY_STATUS") = "status"
  BY DEF RequestOf
<1>4. \/ Client!handle_login \/ Client!handle_signup \/ Client!handle_logout
      \/ Client!handle_create_booking
      \/ \E op \in plain : Client!Dialogue(op, RequestOf(op), AnswerOf(op))
  BY <1>2, <1>3
     DEF Client!ClientNext, Client!handle_create_room, Client!handle_list_rooms,
         Client!handle_approve_booking, Client!handle_reject_booking,
         Client!handle_force_booking_status, Client!handle_users_bookings_list,
         Client!handle_bookings_list_superuser, Client!handle_bookings_list_room_id,
         Client!handle_bookings_list_username, Client!handle_bookings_list_booking_id,
         Client!handle_bookings_list_time_range, Client!handle_bookings_list_status
<1>5. CASE Client!handle_login \/ Client!handle_signup
  BY <1>1, <1>5, ClientEnteringOf DEF Client!handle_login, Client!handle_signup
<1>6. CASE Client!handle_logout
  BY <1>1, <1>6, ClientLogoutOf
<1>7. CASE Client!handle_create_booking
  BY <1>1, <1>7, ClientBookingOf
<1>8. CASE \E op \in plain : Client!Dialogue(op, RequestOf(op), AnswerOf(op))
  BY <1>1, <1>8, DialogueOf
<1> QED BY <1>4, <1>5, <1>6, <1>7, <1>8

-----------------------------------------------------------------------------
(* The steps of the client.                                                 *)

LEMMA ClientStepOf ==
  ASSUME InStep, ClientIsUp, UNCHANGED serverVars, Shapes',
         client'.at = "rejected" => surplus > 0,
         ServerIsUp => UpInv',
         ClientIsUp' => DownInv',
         ClientIsUp' /\ ServerIsUp => BothInv'
  PROVE  InStep'
<1>1. ServerIsUp' <=> ServerIsUp
  BY DEF ServerIsUp, serverVars
<1>2. /\ server'.at # "invalid"
      /\ client'.at = "rejected" => surplus' > 0
  BY DEF InStep, serverVars
<1> QED BY <1>1, <1>2 DEF InStep

LEMMA AppendUp ==
  ASSUME Shapes, NEW e \in Packet, up' = Append(up, e)
  PROVE  /\ up' \in Seq(Packet) /\ Len(up) \in Nat /\ Len(up') = Len(up) + 1 /\ up' # << >>
         /\ up'[Len(up) + 1] = e
         /\ \A i \in 1 .. Len(up) : up'[i] = up[i]
<1>1. up \in Seq(Packet)
  BY DEF Shapes
<1> QED BY <1>1, AppendOf

(* A request is added to a stream that holds at most a cancellation.        *)
LEMMA Appended ==
  ASSUME Shapes, NEW e \in Packet, up' = Append(up, e)
  PROVE  /\ up = << >> => Len(up) = 0 /\ Len(up') = 1 /\ up'[1] = e
         /\ Len(up) = 1 => Len(up') = 2 /\ up'[1] = up[1] /\ up'[2] = e
         /\ Len(up) = 2 => Len(up') = 3 /\ up'[1] = up[1] /\ up'[2] = up[2] /\ up'[3] = e
<1>1. /\ Len(up) \in Nat /\ Len(up') = Len(up) + 1
      /\ up'[Len(up) + 1] = e
      /\ \A i \in 1 .. Len(up) : up'[i] = up[i]
  BY AppendUp
<1>2. ASSUME up = << >> PROVE Len(up) = 0 /\ Len(up') = 1 /\ up'[1] = e
  <2>1. Len(up) = 0
    BY <1>2
  <2> QED BY <1>1, <2>1
<1>3. ASSUME Len(up) = 1 PROVE Len(up') = 2 /\ up'[1] = up[1] /\ up'[2] = e
  BY <1>1, <1>3
<1>4. ASSUME Len(up) = 2 PROVE Len(up') = 3 /\ up'[1] = up[1] /\ up'[2] = up[2] /\ up'[3] = e
  BY <1>1, <1>4
<1> QED BY <1>2, <1>3, <1>4

LEMMA AsksKeeps ==
  ASSUME InStep, NEW op \in Opcodes, Asks(op), UNCHANGED serverVars
  PROVE  InStep'
<1> DEFINE h == Header(op, SizeOf[RequestOf(op)])
<1>1. /\ h \in Packet /\ h.type = "header" /\ h.op = op /\ h.size = SizeOf[RequestOf(op)]
      /\ op \in Words /\ op # "DETAILS"
  BY RequestTypes, Packets, OpcodeWords DEF Words
<1>2. /\ Shapes /\ client.at = "menu" /\ ClientIsUp /\ DownInv
      /\ is_valid_opcode_for_user_by_type(op, crole)
      /\ up' = Append(up, h)
      /\ client' = [at |-> IF RequestOf(op) = "nothing" THEN "answer" ELSE "payload",
                    op |-> op, left |-> 0, said |-> "nothing"]
      /\ UNCHANGED <<down, crole, server, srole, surplus>>
      /\ ServerIsUp => UpInv /\ MenuInv
  BY SessionParts DEF InStep, BothInv, Asks, Client!SendHeader, serverVars
<1> HIDE DEF h
<1>3. /\ client'.at = IF RequestOf(op) = "nothing" THEN "answer" ELSE "payload"
      /\ client'.op = op /\ client'.said = "nothing"
      /\ client' \in [at : Client!AtClient, op : Words, left : Nat,
                      said : {"nothing", "done", "failed"}]
  BY <1>1, <1>2, SessionAssumption DEF Client!AtClient
<1>4. Shapes'
  BY <1>1, <1>2, <1>3, AppendUp DEF Shapes
<1>5. DownInv'
  BY <1>2, <1>3 DEF DownInv, Stale
<1>6. ASSUME ServerIsUp PROVE UpInv' /\ Asked(0)' /\ crole = srole
  <2>1. UpInv /\ MenuInv /\ crole = srole
    BY <1>2, <1>6 DEF MenuInv
  <2>2. CASE Done("header") /\ up = << >>
    <3>1. Len(up') = 1 /\ up'[1] = h
      BY <1>1, <1>2, <2>2, Appended
    <3>2. RequestFrom(1)'
      BY <1>1, <1>2, <2>1, <3>1 DEF RequestFrom
    <3>3. UpInv'
      BY <1>2, <2>1, <2>2, <3>2 DEF UpInv, Done
    <3>4. Asked(0)'
      BY <1>1, <1>2, <1>3, <2>2, <3>1 DEF Asked, Done
    <3> QED BY <2>1, <3>3, <3>4
  <2>3. CASE Done("second") /\ CancelSent /\ Len(up) = 1
    <3>1. Len(up') = 2 /\ up'[1] = up[1] /\ up'[2] = h
      BY <1>1, <1>2, <2>3, Appended
    <3>2. CancelSent'
      BY <1>1, <1>2, <2>1, <2>3, <3>1 DEF CancelSent, RequestFrom
    <3>3. UpInv'
      BY <1>2, <2>1, <2>3, <3>2 DEF UpInv, Done
    <3>4. Asked(0)'
      BY <1>1, <1>2, <1>3, <2>3, <3>1, <3>2 DEF Asked, Done
    <3> QED BY <2>1, <3>3, <3>4
  <2> QED BY <2>1, <2>2, <2>3 DEF MenuInv
<1>7. ServerIsUp => BothInv'
  <2> SUFFICES ASSUME ServerIsUp PROVE BothInv'
    OBVIOUS
  <2>1. CASE RequestOf(op) = "nothing"
    <3>1. Waiting'
      BY <1>2, <1>3, <1>6, <2>1 DEF Waiting, DownInv, Stale
    <3> QED BY <1>3, <2>1, <3>1 DEF BothInv, AnswerInv
  <2>2. CASE RequestOf(op) # "nothing"
    BY <1>2, <1>3, <1>6, <2>2 DEF BothInv
  <2> QED BY <2>1, <2>2
<1> QED BY <1>2, <1>3, <1>4, <1>5, <1>6, <1>7, ClientStepOf

LEMMA AsksDetailsKeeps ==
  ASSUME InStep, AsksDetails, UNCHANGED serverVars
  PROVE  InStep'
<1> DEFINE h == Header("CREATE_BOOKING", SizeOf["booking"])
<1>1. /\ h \in Packet /\ h.type = "header" /\ h.op = "CREATE_BOOKING" /\ h.size = SizeOf["booking"]
      /\ RequestOf("DETAILS") = "booking"
  <2>1. "CREATE_BOOKING" \in Words
    BY DEF Words, Opcodes, USER_OPCODES
  <2> QED BY <2>1, Sizes, Packets DEF RequestOf
<1>2. /\ Shapes /\ client.at = "decide" /\ ClientIsUp /\ DownInv
      /\ up' = Append(up, h)
      /\ client' = [at |-> "payload", op |-> "DETAILS", left |-> 0, said |-> "nothing"]
      /\ UNCHANGED <<down, crole, server, srole, surplus>>
      /\ ServerIsUp => UpInv /\ Done("second") /\ up = << >> /\ crole = srole
  BY SessionParts DEF InStep, BothInv, AsksDetails, Client!SendHeader, serverVars
<1> HIDE DEF h
<1>3. /\ client'.at = "payload" /\ client'.op = "DETAILS" /\ client'.said = "nothing"
      /\ client' \in [at : Client!AtClient, op : Words, left : Nat,
                      said : {"nothing", "done", "failed"}]
  BY <1>2, SessionAssumption DEF Client!AtClient, Words
<1>4. Shapes'
  BY <1>1, <1>2, <1>3, AppendUp DEF Shapes
<1>5. DownInv'
  BY <1>1, <1>2, <1>3 DEF DownInv, Stale
<1>6. ASSUME ServerIsUp PROVE UpInv' /\ Asked(0)'
  <2>1. Len(up') = 1 /\ up'[1] = h
    BY <1>1, <1>2, <1>6, Appended
  <2>2. DetailsSent'
    BY <1>1, <2>1 DEF DetailsSent
  <2>3. UpInv'
    BY <1>2, <1>6, <2>2 DEF UpInv, Done
  <2>4. Asked(0)'
    BY <1>2, <1>3, <1>6, <2>1, <2>2 DEF Asked, Done
  <2> QED BY <2>3, <2>4
<1>7. ServerIsUp => BothInv'
  BY <1>2, <1>3, <1>6 DEF BothInv
<1> QED BY <1>2, <1>3, <1>4, <1>5, <1>6, <1>7, ClientStepOf

LEMMA CancelKeeps ==
  ASSUME InStep, Client!CancelBooking, UNCHANGED serverVars
  PROVE  InStep'
<1> DEFINE h == Header("CANCEL", 0)
<1>1. h \in Packet /\ h.type = "header" /\ h.op = "CANCEL"
  BY Packets DEF Words
<1>2. /\ Shapes /\ client.at = "decide" /\ ClientIsUp /\ DownInv
      /\ up' = Append(up, h)
      /\ client' = [client EXCEPT !.at = "menu"]
      /\ UNCHANGED <<down, crole, server, srole, surplus>>
      /\ ServerIsUp => UpInv /\ Done("second") /\ up = << >> /\ crole = srole
  BY SessionParts, ClientSpeaks DEF InStep, BothInv, Client!CancelBooking, serverVars
<1> HIDE DEF h
<1>3. /\ client'.at = "menu" /\ client'.op = client.op /\ client'.said = client.said
      /\ client.said = "nothing"
      /\ client' \in [at : Client!AtClient, op : Words, left : Nat,
                      said : {"nothing", "done", "failed"}]
  BY <1>2 DEF Shapes, DownInv, Client!AtClient
<1>4. Shapes'
  BY <1>1, <1>2, <1>3, AppendUp DEF Shapes
<1>5. DownInv'
  BY <1>2, <1>3 DEF DownInv, Stale
<1>6. ASSUME ServerIsUp PROVE UpInv' /\ MenuInv'
  <2>1. Len(up') = 1 /\ up'[1] = h
    BY <1>1, <1>2, <1>6, Appended
  <2>2. CancelSent'
    BY <1>1, <2>1 DEF CancelSent, RequestFrom
  <2>3. UpInv'
    BY <1>2, <1>6, <2>2 DEF UpInv, Done
  <2>4. MenuInv'
    BY <1>2, <1>3, <1>6, <2>1, <2>2 DEF MenuInv, Done
  <2> QED BY <2>3, <2>4
<1>7. ServerIsUp => BothInv'
  BY <1>3, <1>6 DEF BothInv
<1> QED BY <1>2, <1>3, <1>4, <1>5, <1>6, <1>7, ClientStepOf

LEMMA SendPayloadKeeps ==
  ASSUME InStep, NEW op \in Opcodes \cup {"DETAILS"}, Client!SendPayload(op, RequestOf(op)),
         UNCHANGED serverVars
  PROVE  InStep'
<1> DEFINE e == Struct(RequestOf(op))
<1>1. /\ Shapes /\ client.at = "payload" /\ client.op = op /\ ClientIsUp /\ DownInv
      /\ up' = Append(up, e)
      /\ client' = [client EXCEPT !.at = "answer"]
      /\ UNCHANGED <<down, crole, server, srole, surplus>>
      /\ ServerIsUp => UpInv /\ Asked(0) /\ crole = srole
  BY SessionParts, ClientSpeaks DEF InStep, BothInv, Client!SendPayload, serverVars
<1>2. RequestOf(op) # "nothing"
  BY <1>1 DEF DownInv
<1>3. e \in Packet /\ e.type = RequestOf(op)
  BY <1>2, RequestTypes, Packets
<1>4. op = "DETAILS" => RequestOf(op) = "booking"
  BY DEF RequestOf
<1> HIDE DEF e
<1>5. /\ client'.at = "answer" /\ client'.op = op /\ client'.said = client.said
      /\ client' \in [at : Client!AtClient, op : Words, left : Nat,
                      said : {"nothing", "done", "failed"}]
  BY <1>1 DEF Shapes, Client!AtClient
<1>6. Shapes'
  BY <1>1, <1>3, <1>5, AppendUp DEF Shapes
<1>7. DownInv'
  BY <1>1, <1>5 DEF DownInv, Stale
<1>8. ASSUME ServerIsUp PROVE UpInv' /\ Asked(1)'
  <2>1. UpInv /\ up \in Seq(Packet)
    BY <1>1, <1>8 DEF Shapes
  <2>2. CASE op = "DETAILS" /\ Done("second") /\ DetailsSent /\ Len(up) = 1
    <3>1. Len(up') = 2 /\ up'[1] = up[1] /\ up'[2] = e
      BY <1>1, <1>3, <2>2, Appended
    <3>2. DetailsSent'
      BY <1>3, <1>4, <2>2, <3>1 DEF DetailsSent
    <3>3. UpInv'
      BY <1>1, <2>1, <2>2, <3>2 DEF UpInv, Done
    <3>4. Asked(1)'
      BY <1>1, <1>5, <2>2, <3>1, <3>2 DEF Asked, Done
    <3> QED BY <3>3, <3>4
  <2>3. CASE op \in Opcodes /\ Done("header") /\ Len(up) = 1 /\ up[1].op = op
    <3>1. Len(up') = 2 /\ up'[1] = up[1] /\ up'[2] = e
      BY <1>1, <1>3, <2>3, Appended
    <3>2. RequestFrom(1)'
      BY <1>1, <1>2, <1>3, <2>1, <2>3, <3>1 DEF UpInv, RequestFrom
    <3>3. UpInv'
      BY <1>1, <2>1, <2>3, <3>2 DEF UpInv, Done
    <3>4. Asked(1)'
      BY <1>1, <1>5, <2>3, <3>1 DEF Asked, Done
    <3> QED BY <3>3, <3>4
  <2>4. CASE op \in Opcodes /\ Done("second") /\ CancelSent /\ Len(up) = 2 /\ up[2].op = op
    <3>1. Len(up') = 3 /\ up'[1] = up[1] /\ up'[2] = up[2] /\ up'[3] = e
      BY <1>1, <1>3, <2>4, Appended
    <3>2. CancelSent'
      BY <1>1, <1>2, <1>3, <2>4, <3>1 DEF CancelSent, RequestFrom
    <3>3. UpInv'
      BY <1>1, <2>1, <2>4, <3>2 DEF UpInv, Done
    <3>4. Asked(1)'
      BY <1>1, <1>5, <2>4, <3>1, <3>2 DEF Asked, Done
    <3> QED BY <3>3, <3>4
  <2>5. CASE op \in Opcodes /\ server.at = "handler" /\ server.op = op /\ Len(up) = 0
    <3>1. Len(up') = 1 /\ up'[1] = e
      BY <1>1, <1>3, <2>1, <2>5, Appended, EmptyOf
    <3>2. UpInv'
      BY <1>1, <1>2, <1>3, <2>1, <2>5, <3>1 DEF UpInv, Done
    <3>3. Asked(1)'
      BY <1>1, <1>5, <2>5, <3>1 DEF Asked
    <3> QED BY <3>2, <3>3
  <2>6. CASE op = "DETAILS" /\ server.at = "details" /\ Len(up) = 0
    <3>1. Len(up') = 1 /\ up'[1] = e
      BY <1>1, <1>3, <2>1, <2>6, Appended, EmptyOf
    <3>2. UpInv'
      BY <1>1, <1>3, <1>4, <2>1, <2>6, <3>1 DEF UpInv, Done
    <3>3. Asked(1)'
      BY <1>1, <1>5, <2>6, <3>1 DEF Asked
    <3> QED BY <3>2, <3>3
  <2> QED BY <1>1, <1>8, <2>2, <2>3, <2>4, <2>5, <2>6 DEF Asked
<1>9. ServerIsUp => BothInv'
  <2> SUFFICES ASSUME ServerIsUp PROVE BothInv'
    OBVIOUS
  <2>1. Waiting'
    BY <1>1, <1>2, <1>5, <1>8 DEF Waiting, DownInv, Stale
  <2> QED BY <1>5, <2>1 DEF BothInv, AnswerInv
<1> QED BY <1>1, <1>5, <1>6, <1>7, <1>8, <1>9, ClientStepOf

(* The client reads a piece of an answer.                                   *)
LEMMA Heard ==
  ASSUME Shapes, down # << >>, down' = Tail(down)
  PROVE  /\ down' \in Seq(Packet) /\ Len(down') = Len(down) - 1 /\ Head(down) = down[1]
         /\ Len(down) \in Nat /\ Len(down) >= 1 /\ down[1] \in Packet
         /\ \A i \in 1 .. Len(down) - 1 : down'[i] = down[i + 1]
         /\ DOMAIN down' = 1 .. Len(down) - 1 /\ DOMAIN down = 1 .. Len(down)
         /\ down' = << >> \/ (Len(down') >= 1 /\ down'[1] = down[2])
<1> DEFINE after == Tail(down)
<1>1. down \in Seq(Packet)
  BY DEF Shapes
<1>2. /\ after \in Seq(Packet) /\ Len(after) = Len(down) - 1
      /\ Len(down) \in Nat \ {0} /\ Head(down) = down[1] /\ down[1] \in Packet
      /\ \A i \in 1 .. Len(down) - 1 : after[i] = down[i + 1]
  BY <1>1, TailOf
<1>3. down' = after
  OBVIOUS
<1>4. DOMAIN down = 1 .. Len(down)
  BY <1>1
<1> HIDE DEF after
<1>5. DOMAIN after = 1 .. Len(after)
  BY <1>2
<1>6. after = << >> <=> Len(after) = 0
  BY <1>2, EmptyOf
<1>7. after = << >> \/ (Len(after) >= 1 /\ after[1] = down[2])
  <2>1. CASE Len(after) = 0
    BY <1>6, <2>1
  <2>2. CASE Len(after) # 0
    <3>1. Len(after) >= 1 /\ Len(down) - 1 >= 1
      BY <1>2, <2>2
    <3>2. 1 \in 1 .. Len(down) - 1
      BY <1>2, <3>1
    <3> QED BY <1>2, <3>1, <3>2
  <2> QED BY <2>1, <2>2
<1>8. Len(down) \in Nat /\ Len(down) >= 1
  BY <1>2
<1> QED BY <1>2, <1>3, <1>4, <1>5, <1>7, <1>8

Emptied == {"BOOKINGS_LIST_BY_TIME_RANGE", "BOOKINGS_LIST_BY_STATUS"}

(* What the client makes of an answer it expects.                           *)
LEMMA Arithmetic ==
  ASSUME NEW n \in Nat, NEW size \in {33, 36, 64}
  PROVE  /\ n * size \in Nat /\ (n * size = 0 <=> n = 0)
         /\ (n * size) % size = 0 /\ (n * size) \div size = n
         /\ \A m \in Nat : m * size = n * size => m = n
<1>1. CASE size = 33
  BY <1>1
<1>2. CASE size = 36
  BY <1>2
<1>3. CASE size = 64
  BY <1>3
<1> QED BY <1>1, <1>2, <1>3

(* What becomes of the client at what it has read as a header.              *)
Turns(op, type, done, h, next, said) ==
  /\ Client!Fails(op, h) => next = "menu" /\ said = "failed"
  /\ ~Client!Fails(op, h) /\ Client!Accepts(op, type, h)
       => /\ next = IF h.size = 0 THEN done ELSE "read"
          /\ said = IF next = "menu" THEN "done" ELSE "nothing"
  /\ ~Client!Fails(op, h) /\ ~Client!Accepts(op, type, h) => next = "rejected" /\ said = "nothing"

LEMMA Outcome ==
  ASSUME NEW op, NEW type, NEW done, done # "rejected", Shapes, Client!ReadAnswer(op, type, done)
  PROVE  /\ client.at = "answer" /\ client.op = op /\ UNCHANGED up
         /\ down # << >> /\ down' \in Seq(Packet) /\ Head(down) = down[1] /\ down[1] \in Packet
         /\ down[1].type = "header" => down' = Tail(down)
         /\ \E h \in Packet : \E next, said :
              /\ down[1].type = "header" => h = down[1]
              /\ client' = [at |-> next, op |-> op, said |-> said,
                            left |-> IF next = "read" THEN h.size \div SizeOf[type] ELSE 0]
              /\ astray' = (astray \/ (down[1].type # "header" /\ next # "rejected"))
              /\ Turns(op, type, done, h, next, said)
<1>1. client.at = "answer" /\ client.op = op /\ UNCHANGED up /\ Client!Read(down, "header", down')
  BY DEF Client!ReadAnswer
<1>2. down \in Seq(Packet)
  BY DEF Shapes
<1>3. down # << >> /\ down' \in Seq(Packet) /\ (Head(down).type = "header" => down' = Tail(down))
  BY <1>1, <1>2, ClientReads
<1>4. Head(down) = down[1] /\ down[1] \in Packet
  BY <1>2, <1>3, TailOf
<1>5. PICK h \in Client!Looks(Head(down)) :
        LET fails == Client!Fails(op, h)
            accepts == Client!Accepts(op, type, h)
            next == CASE fails             -> "menu"
                      [] ~fails /\ accepts -> IF h.size = 0 THEN done ELSE "read"
                      [] OTHER             -> "rejected"
            said == CASE next = "menu" /\ fails  -> "failed"
                      [] next = "menu" /\ ~fails -> "done"
                      [] OTHER                   -> "nothing"
        IN  /\ client' = [client EXCEPT !.at = next, !.said = said,
                             !.left = IF next = "read" THEN Client!CountOf(h, type) ELSE 0]
            /\ astray' = (astray \/ (Head(down).type # "header" /\ next # "rejected"))
  BY DEF Client!ReadAnswer
<1>6. h \in Packet /\ (down[1].type = "header" => h = down[1])
  BY <1>4, LooksOf
<1> DEFINE fails == Client!Fails(op, h)
           accepts == Client!Accepts(op, type, h)
           next == CASE fails             -> "menu"
                     [] ~fails /\ accepts -> IF h.size = 0 THEN done ELSE "read"
                     [] OTHER             -> "rejected"
           said == CASE next = "menu" /\ fails  -> "failed"
                     [] next = "menu" /\ ~fails -> "done"
                     [] OTHER                   -> "nothing"
           left == IF next = "read" THEN Client!CountOf(h, type) ELSE 0
<1>7. /\ client' = [client EXCEPT !.at = next, !.said = said, !.left = left]
      /\ astray' = (astray \/ (Head(down).type # "header" /\ next # "rejected"))
  BY <1>5
<1>8. left = IF next = "read" THEN h.size \div SizeOf[type] ELSE 0
  BY ClientSpeaks DEF Client!CountOf
<1>9. fails \in BOOLEAN /\ accepts \in BOOLEAN
  BY DEF Client!Fails, Client!Accepts, Client!RefusedAnyhow, Client!RefusedOrEmpty, Client!Refused,
         Client!IsOne, Client!IsList
<1> HIDE DEF left, fails, accepts
<1>10. /\ fails => next = "menu"
       /\ ~fails /\ accepts => next = IF h.size = 0 THEN done ELSE "read"
       /\ ~fails /\ ~accepts => next = "rejected"
  BY <1>9
<1>11. /\ next = "menu" /\ fails => said = "failed"
       /\ ~fails => said = IF next = "menu" THEN "done" ELSE "nothing"
  <2> HIDE DEF next
  <2> QED BY <1>9
<1> HIDE DEF next, said
<1>12. client' = [at |-> next, op |-> op, said |-> said, left |-> left]
  BY <1>1, <1>7 DEF Shapes
<1>13. Turns(op, type, done, h, next, said)
  <2>1. fails = Client!Fails(op, h) /\ accepts = Client!Accepts(op, type, h)
    BY DEF fails, accepts
  <2> QED BY <1>9, <1>10, <1>11, <2>1 DEF Turns
<1> QED BY <1>1, <1>3, <1>4, <1>6, <1>7, <1>8, <1>12, <1>13

LEMMA Expected ==
  ASSUME NEW op \in Opcodes \cup {"DETAILS"}, NEW n \in 0 .. MaxRecords, Announced(op, n), NEW h,
         h = Header("OK", n * SizeOf[AnswerOf(op)])
  PROVE  /\ h.type = "header"
         /\ Client!Fails(op, h) <=> n = 0 /\ op \in Emptied
         /\ Client!Accepts(op, AnswerOf(op), h)
         /\ h.size = 0 <=> n = 0
         /\ n > 0 => h.size \div SizeOf[AnswerOf(op)] = n
         /\ n = 0 => op \in Lists \/ op = "LOGOUT"
<1> DEFINE size == SizeOf[AnswerOf(op)]
<1>1. n \in Nat
  BY SessionAssumption
<1>2. /\ AnswerOf(op) \in {"user", "room", "booking", "nothing"}
      /\ AnswerOf(op) = "nothing" <=> op = "LOGOUT"
      /\ size \in {0, 33, 36, 64}
      /\ size = 0 <=> op = "LOGOUT"
  BY RequestTypes, Sizes
<1>3. h.op = "OK" /\ h.type = "header" /\ h.size = n * size
  BY DEF Header
<1>4. op \in Lists => op # "LOGOUT"
  BY DEF Lists
<1>5. op \notin Lists => n = IF op = "LOGOUT" THEN 0 ELSE 1
  BY DEF Announced
<1> HIDE DEF size
<1>6. h.size = 0 <=> n = 0
  <2>1. CASE op = "LOGOUT"
    BY <1>1, <1>2, <1>3, <1>4, <1>5, <2>1
  <2>2. CASE op # "LOGOUT"
    BY <1>1, <1>2, <1>3, <2>2, Arithmetic
  <2> QED BY <2>1, <2>2
<1>7. n > 0 => h.size \div size = n
  <2> SUFFICES ASSUME n > 0 PROVE h.size \div size = n
    OBVIOUS
  <2>1. op # "LOGOUT"
    BY <1>1, <1>4, <1>5
  <2> QED BY <1>1, <1>2, <1>3, <2>1, Arithmetic
<1>8. Client!Fails(op, h) <=> n = 0 /\ op \in Emptied
  BY <1>3, <1>6 DEF Client!Fails, Client!RefusedAnyhow, Client!RefusedOrEmpty, Client!Refused, Emptied
<1>9. Client!Accepts(op, AnswerOf(op), h)
  <2>1. CASE op \in Lists
    <3>1. h.size % size = 0
      BY <1>1, <1>2, <1>3, <1>4, <2>1, Arithmetic
    <3> QED BY <1>3, <2>1, <3>1, ClientSpeaks DEF Client!Accepts, Client!IsList, Lists, size
  <2>2. CASE op \notin Lists
    <3>1. h.size = size
      BY <1>1, <1>2, <1>3, <1>5, <2>2
    <3> QED BY <1>3, <2>2, <3>1, ClientSpeaks DEF Client!Accepts, Client!IsOne, Lists, size
  <2> QED BY <2>1, <2>2
<1>10. n = 0 => op \in Lists \/ op = "LOGOUT"
  BY <1>5
<1> QED BY <1>3, <1>6, <1>7, <1>8, <1>9, <1>10 DEF size

LEMMA SameCount ==
  ASSUME NEW op \in Opcodes \cup {"DETAILS"}, NEW n, NEW m, Answers(op, n), Answers(op, m)
  PROVE  n = m
<1>1. n \in Nat /\ m \in Nat
  BY SessionAssumption DEF Answers
<1>2. Header("OK", n * SizeOf[AnswerOf(op)]) = Header("OK", m * SizeOf[AnswerOf(op)])
  BY DEF Answers
<1>3. n * SizeOf[AnswerOf(op)] = m * SizeOf[AnswerOf(op)]
  BY <1>2 DEF Header
<1>4. CASE op = "LOGOUT"
  <2>1. op \notin Lists
    BY <1>4 DEF Lists
  <2> QED BY <1>4, <2>1 DEF Answers, Announced
<1>5. CASE op # "LOGOUT"
  <2>1. SizeOf[AnswerOf(op)] \in {33, 36, 64}
    BY <1>5, RequestTypes, Sizes
  <2> QED BY <1>1, <1>3, <2>1, Arithmetic
<1> QED BY <1>4, <1>5

(* The answer is read, and the server is done with it.                      *)
LEMMA Balanced ==
  ASSUME Shapes, UpInv, Granted, NEW left \in Nat, NEW received \in Nat, Balance(left, received),
         left <= received
  PROVE  Done(After(client.op))
<1>1. server.left \in Nat
  BY SessionAssumption DEF Shapes
<1>2. server.left = 0
  BY <1>1 DEF Balance
<1> QED BY <1>2 DEF Granted, Done, After

(* With the whole answer read, the client is at the menu, or asks its user  *)
(* about the booking.                                                       *)
LEMMA Concluded ==
  ASSUME InStep, ClientIsUp, UNCHANGED <<up, serverVars>>,
         NEW op \in Opcodes \cup {"DETAILS"}, NEW said \in {"done", "failed"}, client.op = op,
         client' = [at |-> Then(op), op |-> op, left |-> 0,
                    said |-> IF Then(op) = "menu" THEN said ELSE "nothing"],
         down' \in Seq(Packet), down' = << >> \/ Stale', crole' \in UserTypes,
         said = "failed" => op \in Emptied,
         ServerIsUp => Granted /\ Done(After(op)) /\ crole' = srole
  PROVE  InStep'
<1>1. /\ Shapes /\ UNCHANGED <<server, srole, surplus>>
      /\ ServerIsUp => UpInv
  BY DEF InStep, serverVars
<1>2. /\ Then(op) \in {"menu", "decide"}
      /\ Then(op) = "decide" => After(op) = "second"
      /\ Then(op) = "menu" => After(op) = "header"
  BY DEF Then, After
<1>3. /\ client'.at = Then(op) /\ client'.op = op
      /\ client'.said = IF Then(op) = "menu" THEN said ELSE "nothing"
      /\ client' \in [at : Client!AtClient, op : Words, left : Nat,
                      said : {"nothing", "done", "failed"}]
  BY <1>2, SessionAssumption DEF Client!AtClient, Words
<1>4. Shapes'
  BY <1>1, <1>3 DEF Shapes
<1>5. ServerIsUp => UpInv'
  BY <1>1 DEF UpInv, Done, RequestFrom, DetailsSent, CancelSent
<1>6. DownInv'
  BY <1>2, <1>3 DEF DownInv
<1>7. ServerIsUp => BothInv'
  <2> SUFFICES ASSUME ServerIsUp PROVE BothInv'
    OBVIOUS
  <2>1. Granted /\ Done(After(op)) /\ crole' = srole
    OBVIOUS
  <2>2. Done(After(op))' /\ up' = << >> /\ server'.did = "OK" /\ crole' = srole'
    BY <1>1, <2>1 DEF Done, Granted
  <2>3. CASE Then(op) = "menu"
    <3>1. Told'
      BY <1>3, <2>2, <2>3 DEF Told, Emptied
    <3>2. MenuInv'
      BY <1>2, <2>2, <2>3, <3>1 DEF MenuInv
    <3> QED BY <1>3, <2>3, <3>2 DEF BothInv
  <2>4. CASE Then(op) = "decide"
    BY <1>2, <1>3, <2>2, <2>4 DEF BothInv
  <2> QED BY <1>2, <2>3, <2>4
<1>8. client'.at # "rejected"
  BY <1>2, <1>3
<1> QED BY <1>4, <1>5, <1>6, <1>7, <1>8, ClientStepOf

(* A record that nobody announced is rejected, or it leads the client       *)
(* astray.                                                                  *)
LEMMA HearsStale ==
  ASSUME InStep, NEW op, Hears(op), UNCHANGED serverVars, Stale, ~astray'
  PROVE  InStep'
<1>0. Then(op) # "rejected"
  BY DEF Then
<1>1. /\ Shapes /\ UNCHANGED <<server, srole, surplus, up>> /\ ClientIsUp /\ client.op = op
      /\ down' \in Seq(Packet) /\ down[1].type # "header" /\ surplus > 0
      /\ ServerIsUp => UpInv
  BY <1>0, SessionParts, Outcome DEF InStep, Hears, Stale, serverVars
<1>9. PICK h \in Packet : \E next, said :
        /\ client' = [at |-> next, op |-> op, said |-> said,
                      left |-> IF next = "read" THEN h.size \div SizeOf[AnswerOf(op)] ELSE 0]
        /\ astray' = (astray \/ (down[1].type # "header" /\ next # "rejected"))
        /\ Turns(op, AnswerOf(op), Then(op), h, next, said)
  BY <1>0, <1>1, Outcome DEF Hears
<1>2. PICK next, said :
        /\ client' = [at |-> next, op |-> op, said |-> said,
                      left |-> IF next = "read" THEN h.size \div SizeOf[AnswerOf(op)] ELSE 0]
        /\ astray' = (astray \/ (down[1].type # "header" /\ next # "rejected"))
        /\ Turns(op, AnswerOf(op), Then(op), h, next, said)
  BY <1>9
<1>3. next = "rejected" /\ said = "nothing"
  BY <1>0, <1>1, <1>2 DEF Turns
<1>4. /\ client'.at = next /\ client'.said = "nothing"
      /\ client' \in [at : Client!AtClient, op : Words, left : Nat,
                      said : {"nothing", "done", "failed"}]
  BY <1>1, <1>2, <1>3 DEF Shapes, Client!AtClient, Client!ClientEnds
<1>5. crole' \in UserTypes
  BY <1>1 DEF Hears, UserTypes, Shapes
<1>6. Shapes'
  BY <1>1, <1>4, <1>5 DEF Shapes
<1>7. ~ClientIsUp'
  BY <1>3, <1>4 DEF ClientIsUp, Client!ClientEnds
<1>8. ServerIsUp => UpInv'
  BY <1>1 DEF UpInv, Done, RequestFrom, DetailsSent, CancelSent
<1> QED BY <1>1, <1>6, <1>7, <1>8, ClientStepOf

LEMMA HearsFailure ==
  ASSUME InStep, NEW op, Hears(op), UNCHANGED serverVars, Failure
  PROVE  InStep'
<1>0. Then(op) # "rejected"
  BY DEF Then
<1>3. down[1].type = "header" /\ down[1].op = "ERROR" /\ down[1].size = 0
  BY DEF Failure, Header
<1>1. /\ Shapes /\ UNCHANGED <<server, srole, surplus, up>> /\ ClientIsUp
      /\ client.at = "answer" /\ client.op = op
      /\ down # << >> /\ down' = Tail(down)
      /\ Len(down) = 1 /\ down[1] = Header("ERROR", 0)
      /\ ServerIsUp => UpInv /\ AnswerInv
  BY <1>0, <1>3, SessionParts, Outcome DEF InStep, BothInv, Hears, Failure, serverVars
<1>2. PICK next, said :
        /\ client' = [at |-> next, op |-> op, said |-> said,
                      left |-> IF next = "read" THEN down[1].size \div SizeOf[AnswerOf(op)] ELSE 0]
        /\ Turns(op, AnswerOf(op), Then(op), down[1], next, said)
  BY <1>0, <1>1, <1>3, Outcome DEF Hears
<1>4. Client!Fails(op, down[1])
  BY <1>3 DEF Client!Fails, Client!RefusedAnyhow, Client!RefusedOrEmpty, Client!Refused
<1>5. next = "menu" /\ said = "failed"
  BY <1>2, <1>4 DEF Turns
<1>6. /\ client'.at = "menu" /\ client'.said = "failed" /\ client'.op = op
      /\ client' \in [at : Client!AtClient, op : Words, left : Nat,
                      said : {"nothing", "done", "failed"}]
  BY <1>1, <1>2, <1>5, SessionAssumption DEF Shapes, Client!AtClient
<1>7. crole' = crole
  BY <1>6 DEF Hears
<1>8. down' \in Seq(Packet) /\ down' = << >>
  BY <1>1, Heard
<1>9. Shapes'
  BY <1>1, <1>6, <1>7, <1>8 DEF Shapes
<1>10. ServerIsUp => UpInv'
  BY <1>1 DEF UpInv, Done, RequestFrom, DetailsSent, CancelSent
<1>11. DownInv'
  BY <1>6, <1>8 DEF DownInv
<1>12. ASSUME ServerIsUp PROVE BothInv'
  <2>1. Refused /\ crole = srole
    <3>1. ~Stale /\ down # << >>
      BY <1>1, <1>3 DEF Stale
    <3>2. \A n \in 0 .. MaxRecords : ~Answers(client.op, n)
      BY <1>1 DEF Answers, Header
    <3> QED BY <1>1, <1>12, <3>1, <3>2 DEF AnswerInv, Waiting
  <2>2. Done("header")' /\ up' = << >> /\ Told'
    BY <1>1, <1>6, <2>1 DEF Refused, Done, Told
  <2>3. MenuInv'
    BY <1>1, <1>7, <2>1, <2>2 DEF MenuInv
  <2> QED BY <1>6, <2>3 DEF BothInv
<1> QED BY <1>1, <1>6, <1>9, <1>10, <1>11, <1>12, ClientStepOf

LEMMA RestIsData ==
  ASSUME Shapes, down # << >>, down' = Tail(down), NEW type,
         \A i \in 2 .. Len(down) : down[i].type = type
  PROVE  \A i \in DOMAIN down' : down'[i].type = type
<1>1. /\ Len(down) \in Nat /\ DOMAIN down' = 1 .. Len(down) - 1
      /\ \A i \in 1 .. Len(down) - 1 : down'[i] = down[i + 1]
  BY Heard
<1> TAKE i \in DOMAIN down'
<1>2. i + 1 \in 2 .. Len(down) /\ i \in 1 .. Len(down) - 1
  BY <1>1
<1> QED BY <1>1, <1>2

LEMMA RestOfRole ==
  ASSUME Shapes, down # << >>, down' = Tail(down), NewRole, UNCHANGED srole,
         client'.op = client.op, UNCHANGED crole
  PROVE  NewRole'
<1>1. /\ Len(down) \in Nat /\ DOMAIN down' = 1 .. Len(down) - 1 /\ DOMAIN down = 1 .. Len(down)
      /\ \A i \in 1 .. Len(down) - 1 : down'[i] = down[i + 1]
  BY Heard
<1>2. ASSUME NEW i \in DOMAIN down', down'[i].type = "user" PROVE down'[i].role = srole
  <2>1. i + 1 \in DOMAIN down /\ i \in 1 .. Len(down) - 1
    BY <1>1
  <2> QED BY <1>1, <1>2, <2>1 DEF NewRole
<1> QED BY <1>2 DEF NewRole

LEMMA HearsAnswer ==
  ASSUME InStep, NEW op, Hears(op), UNCHANGED serverVars,
         NEW n \in 0 .. MaxRecords, Answers(op, n)
  PROVE  InStep'
<1>0. Then(op) # "rejected"
  BY DEF Then
<1>1. /\ Shapes /\ UNCHANGED <<server, srole, surplus, up>> /\ ClientIsUp
      /\ client.at = "answer" /\ client.op = op /\ op \in Opcodes \cup {"DETAILS"}
      /\ down # << >> /\ down' = Tail(down) /\ n \in Nat
      /\ ServerIsUp => UpInv /\ AnswerInv
  <2>1. down[1].type = "header"
    BY DEF Answers, Header
  <2> QED BY <1>0, <2>1, SessionParts, SessionAssumption, Outcome
          DEF InStep, BothInv, DownInv, Hears, serverVars
<1>2. PICK next, said :
        /\ client' = [at |-> next, op |-> op, said |-> said,
                      left |-> IF next = "read" THEN down[1].size \div SizeOf[AnswerOf(op)] ELSE 0]
        /\ Turns(op, AnswerOf(op), Then(op), down[1], next, said)
  <2>1. down[1].type = "header"
    BY DEF Answers, Header
  <2> QED BY <1>0, <1>1, <2>1, Outcome DEF Hears
<1>3. /\ Announced(op, n) /\ down[1] = Header("OK", n * SizeOf[AnswerOf(op)])
      /\ \A i \in 2 .. Len(down) : down[i].type = AnswerOf(op)
      /\ surplus = 0 => Len(down) - 1 <= n
  BY DEF Answers
<1>4. /\ down[1].type = "header"
      /\ Client!Fails(op, down[1]) <=> n = 0 /\ op \in Emptied
      /\ Client!Accepts(op, AnswerOf(op), down[1])
      /\ down[1].size = 0 <=> n = 0
      /\ n > 0 => down[1].size \div SizeOf[AnswerOf(op)] = n
      /\ n = 0 => op \in Lists \/ op = "LOGOUT"
  BY <1>1, <1>3, Expected
<1>5. /\ down' \in Seq(Packet) /\ Len(down') = Len(down) - 1 /\ Len(down) \in Nat /\ Len(down) >= 1
      /\ DOMAIN down' = 1 .. Len(down) - 1
      /\ down' = << >> \/ (Len(down') >= 1 /\ down'[1] = down[2])
  BY <1>1, Heard
<1>6. \A i \in DOMAIN down' : down'[i].type = AnswerOf(op)
  BY <1>1, <1>3, RestIsData
<1>7. ASSUME ServerIsUp
      PROVE  Granted /\ NewRole /\ Balance(n, Len(down) - 1)
  <2>1. down[1] # Header("ERROR", 0)
    BY <1>3 DEF Header
  <2>2. ~Stale /\ ~Failure
    BY <1>4, <2>1 DEF Stale, Failure
  <2>3. PICK m \in 0 .. MaxRecords : /\ Granted /\ NewRole
                                     /\ Answers(client.op, m) /\ Balance(m, Len(down) - 1)
    BY <1>1, <1>7, <2>2 DEF AnswerInv, Waiting
  <2>4. m = n
    BY <1>1, <2>3, SameCount
  <2> QED BY <2>3, <2>4
<1>8. CASE n = 0
  <2>1. down' = << >> \/ Stale'
    <3>1. surplus \in Nat
      BY SessionParts
    <3>2. CASE down' = << >>
      BY <3>2
    <3>3. CASE down' # << >>
      <4>1. Len(down') >= 1 /\ Len(down) - 1 >= 1
        BY <1>5, <3>3
      <4>2. surplus > 0
        BY <1>3, <1>5, <1>8, <3>1, <4>1
      <4>3. 1 \in DOMAIN down'
        BY <1>5, <4>1
      <4>4. down'[1].type # "header"
        BY <1>1, <1>6, <4>3, RequestTypes
      <4> QED BY <1>1, <3>3, <4>2, <4>4 DEF Stale
    <3> QED BY <3>2, <3>3
  <2>2. ASSUME ServerIsUp PROVE Granted /\ NewRole /\ Done(After(op))
    <3>1. Granted /\ NewRole /\ Balance(n, Len(down) - 1)
      BY <1>7, <2>2
    <3>2. Len(down) - 1 \in Nat /\ n <= Len(down) - 1
      BY <1>5, <1>8
    <3> QED BY <1>1, <2>2, <3>1, <3>2, Balanced
  <2>3. op \notin {"LOGIN", "SIGNUP"}
    BY <1>4, <1>8 DEF Lists
  <2>4. CASE op \in Emptied
    <3>1. next = "menu" /\ said = "failed" /\ Then(op) = "menu" /\ op \notin RolesChange
      BY <1>2, <1>4, <1>8, <2>4 DEF Turns, Then, Emptied, RolesChange
    <3>2. client' = [at |-> Then(op), op |-> op, left |-> 0,
                     said |-> IF Then(op) = "menu" THEN "failed" ELSE "nothing"]
      BY <1>2, <3>1
    <3>3. crole' = crole
      BY <2>4 DEF Hears, Emptied
    <3>4. ServerIsUp => Granted /\ Done(After(op)) /\ crole' = srole
      BY <1>1, <2>2, <3>1, <3>3 DEF NewRole
    <3>5. crole' \in UserTypes
      BY <1>1, <3>3 DEF Shapes
    <3> QED BY <1>1, <1>5, <2>1, <2>4, <3>2, <3>4, <3>5, Concluded
  <2>5. CASE op \notin Emptied
    <3>1. next = Then(op) /\ said = IF Then(op) = "menu" THEN "done" ELSE "nothing"
      BY <1>2, <1>4, <1>8, <2>5 DEF Turns
    <3>2. Then(op) # "read"
      BY DEF Then
    <3>3. client' = [at |-> Then(op), op |-> op, left |-> 0,
                     said |-> IF Then(op) = "menu" THEN "done" ELSE "nothing"]
      BY <1>2, <3>1, <3>2
    <3>4. op = "LOGOUT" => client'.said = "done"
      BY <3>3 DEF Then
    <3>5. crole' = IF op = "LOGOUT" THEN "GUEST" ELSE crole
      BY <3>4 DEF Hears
    <3>6. ServerIsUp => Granted /\ Done(After(op)) /\ crole' = srole
      BY <1>1, <2>2, <2>3, <3>5 DEF NewRole, RolesChange
    <3>7. crole' \in UserTypes
      BY <1>1, <3>5 DEF Shapes, UserTypes
    <3> QED BY <1>1, <1>5, <2>1, <3>3, <3>6, <3>7, Concluded
  <2> QED BY <2>4, <2>5
<1>9. CASE n # 0
  <2>1. next = "read" /\ said = "nothing" /\ n > 0
    BY <1>1, <1>2, <1>4, <1>9 DEF Turns
  <2>2. client' = [at |-> "read", op |-> op, said |-> "nothing", left |-> n]
    BY <1>2, <1>4, <2>1
  <2>3. crole' = crole
    BY <2>2 DEF Hears
  <2>4. /\ client'.at = "read" /\ client'.op = op /\ client'.said = "nothing" /\ client'.left = n
        /\ client' \in [at : Client!AtClient, op : Words, left : Nat,
                        said : {"nothing", "done", "failed"}]
    BY <1>1, <2>2 DEF Client!AtClient, Words
  <2>5. Shapes'
    BY <1>1, <1>5, <2>3, <2>4 DEF Shapes
  <2>6. DownInv'
    BY <1>1, <1>3, <1>5, <1>6, <1>9, <2>4 DEF DownInv
  <2>7. ServerIsUp => UpInv'
    BY <1>1 DEF UpInv, Done, RequestFrom, DetailsSent, CancelSent
  <2>8. ASSUME ServerIsUp PROVE BothInv'
    <3>1. Granted /\ NewRole /\ Balance(n, Len(down) - 1)
      BY <1>7, <2>8
    <3>2. Granted'
      BY <1>1, <2>4, <3>1 DEF Granted
    <3>3. NewRole'
      BY <1>1, <2>3, <2>4, <3>1, RestOfRole
    <3>4. Balance(client.left, Len(down))'
      BY <1>1, <1>5, <2>4, <3>1 DEF Balance
    <3> QED BY <2>4, <3>2, <3>3, <3>4 DEF BothInv
  <2> QED BY <1>1, <2>4, <2>5, <2>6, <2>7, <2>8, ClientStepOf
<1> QED BY <1>8, <1>9

(* Of what a client finds for an answer only a record that nobody announced *)
(* is not a header.                                                         *)
LEMMA HeardOf ==
  ASSUME InStep, NEW op, Hears(op)
  PROVE  /\ client.op = op
         /\ Stale \/ Failure \/ \E n \in 0 .. MaxRecords : Answers(op, n)
<1>0. Then(op) # "rejected"
  BY DEF Then
<1>1. client.at = "answer" /\ client.op = op /\ down # << >>
  BY <1>0, Outcome DEF InStep, Hears
<1> QED BY <1>1, SessionParts DEF InStep, DownInv

LEMMA HearsKeeps ==
  ASSUME InStep, NEW op, Hears(op), UNCHANGED serverVars, ~astray'
  PROVE  InStep'
BY HeardOf, HearsStale, HearsFailure, HearsAnswer

LEMMA ReadsKeeps ==
  ASSUME InStep, NEW op \in Opcodes \cup {"DETAILS"}, Reads(op), UNCHANGED serverVars
  PROVE  InStep'
<1>9. /\ client.at = "read" /\ client.op = op /\ ClientIsUp /\ DownInv /\ down \in Seq(Packet)
      /\ Client!Read(down, AnswerOf(op), down')
  BY SessionParts DEF InStep, Reads, Client!ReadData
<1>10. down # << >> /\ down' = Tail(down) /\ Head(down).type = AnswerOf(op)
  <2>1. down # << >>
    BY <1>9, ClientReads
  <2>2. Head(down) = down[1] /\ 1 \in DOMAIN down
    BY <1>9, <2>1, TailOf
  <2>3. Head(down).type = AnswerOf(op)
    BY <1>9, <2>2 DEF DownInv
  <2> QED BY <1>9, <2>1, <2>3, ClientReads
<1>1. /\ Shapes /\ UNCHANGED <<server, srole, surplus, up>> /\ ClientIsUp
      /\ client.at = "read" /\ client.op = op /\ op # "LOGOUT"
      /\ down # << >> /\ down' = Tail(down) /\ Head(down).type = AnswerOf(op)
      /\ client.left \in Nat /\ client.left # 0
      /\ \A i \in DOMAIN down : down[i].type = AnswerOf(op)
      /\ surplus = 0 => Len(down) <= client.left
      /\ client.said = "nothing"
      /\ crole' = IF op \in {"LOGIN", "SIGNUP"} THEN Head(down).role ELSE crole
      /\ ServerIsUp => UpInv /\ Granted /\ NewRole /\ Balance(client.left, Len(down))
  BY <1>10, SessionParts DEF InStep, BothInv, DownInv, Reads, Client!ReadData, serverVars
<1>2. /\ down' \in Seq(Packet) /\ Len(down') = Len(down) - 1 /\ Len(down) \in Nat /\ Len(down) >= 1
      /\ DOMAIN down' = 1 .. Len(down) - 1 /\ DOMAIN down = 1 .. Len(down)
      /\ down' = << >> \/ (Len(down') >= 1 /\ down'[1] = down[2])
      /\ Head(down) = down[1] /\ down[1] \in Packet
  BY <1>1, Heard
<1>3. \A i \in 2 .. Len(down) : down[i].type = AnswerOf(op)
  BY <1>1, <1>2
<1>4. \A i \in DOMAIN down' : down'[i].type = AnswerOf(op)
  BY <1>1, <1>3, RestIsData
<1>5. CASE client.left > 1
  <2>1. client' = [client EXCEPT !.left = client.left - 1]
    BY <1>5 DEF Reads, Client!ReadData
  <2>2. client.left - 1 \in Nat /\ client.left - 1 # 0
    BY <1>1, <1>5, SessionAssumption DEF Shapes
  <2>3. /\ client'.at = "read" /\ client'.op = op /\ client'.said = "nothing"
        /\ client'.left = client.left - 1
        /\ client' \in [at : Client!AtClient, op : Words, left : Nat,
                        said : {"nothing", "done", "failed"}]
    BY <1>1, <2>1, <2>2 DEF Shapes
  <2>4. op \notin {"LOGIN", "SIGNUP"} => crole' = crole
    BY <1>1
  <2>5. crole' \in UserTypes
    BY <1>1, <1>2 DEF Shapes, Packet
  <2>6. Shapes'
    BY <1>1, <1>2, <2>3, <2>5 DEF Shapes
  <2>7. DownInv'
    <3>1. surplus = 0 => Len(down') <= client.left - 1
      BY <1>1, <1>2
    <3> QED BY <1>1, <1>4, <2>2, <2>3, <3>1 DEF DownInv
  <2>8. ServerIsUp => UpInv'
    BY <1>1 DEF UpInv, Done, RequestFrom, DetailsSent, CancelSent
  <2>9. ASSUME ServerIsUp PROVE BothInv'
    <3>1. Granted'
      BY <1>1, <2>3, <2>9 DEF Granted
    <3>2. NewRole'
      <4>1. ASSUME NEW i \in DOMAIN down', down'[i].type = "user" PROVE down'[i].role = srole
        <5>1. down'[i] = down[i + 1] /\ i + 1 \in DOMAIN down
          BY <1>1, <1>2, Heard
        <5> QED BY <1>1, <2>9, <4>1, <5>1 DEF NewRole
      <4> QED BY <1>1, <2>3, <2>4, <2>9, <4>1 DEF NewRole, RolesChange
    <3>3. Balance(client.left, Len(down))'
      <4>1. Balance(client.left, Len(down)) /\ server.left \in Nat
        BY <1>1, <2>9, SessionParts
      <4> QED BY <1>1, <1>2, <2>3, <4>1 DEF Balance
    <3> QED BY <2>3, <3>1, <3>2, <3>3 DEF BothInv
  <2> QED BY <1>1, <2>3, <2>6, <2>7, <2>8, <2>9, ClientStepOf
<1>6. CASE ~(client.left > 1)
  <2>0. client.left = 1
    BY <1>1, <1>6
  <2>1. client' = [at |-> Then(op), op |-> op, left |-> 0,
                   said |-> IF Then(op) = "menu" THEN "done" ELSE "nothing"]
    BY <1>1, <1>6 DEF Reads, Client!ReadData, Shapes
  <2>2. down' = << >> \/ Stale'
    <3>1. surplus \in Nat
      BY SessionParts
    <3>2. CASE down' = << >>
      BY <3>2
    <3>3. CASE down' # << >>
      <4>1. Len(down') >= 1 /\ Len(down) >= 2
        BY <1>2, <3>3
      <4>2. surplus > 0
        BY <1>1, <1>2, <2>0, <3>1, <4>1
      <4>3. 1 \in DOMAIN down'
        BY <1>2, <4>1
      <4>4. down'[1].type # "header"
        BY <1>4, <4>3, RequestTypes
      <4> QED BY <1>1, <3>3, <4>2, <4>4 DEF Stale
    <3> QED BY <3>2, <3>3
  <2>3. ASSUME ServerIsUp PROVE Granted /\ Done(After(op)) /\ crole' = srole
    <3>1. Granted /\ NewRole /\ Balance(client.left, Len(down)) /\ UpInv
      BY <1>1, <2>3
    <3>2. Done(After(op))
      BY <1>1, <1>2, <2>0, <3>1, Balanced
    <3>3. CASE op \in {"LOGIN", "SIGNUP"}
      <4>1. down[1].type = "user" /\ 1 \in DOMAIN down
        BY <1>1, <1>2, <3>3, RequestTypes
      <4>2. down[1].role = srole
        BY <3>1, <4>1 DEF NewRole
      <4> QED BY <1>1, <1>2, <3>1, <3>2, <3>3, <4>2
    <3>4. CASE op \notin {"LOGIN", "SIGNUP"}
      <4>1. crole = srole
        BY <1>1, <3>1, <3>4 DEF NewRole, RolesChange
      <4> QED BY <1>1, <3>1, <3>2, <3>4, <4>1
    <3> QED BY <3>3, <3>4
  <2>4. crole' \in UserTypes
    BY <1>1, <1>2 DEF Shapes, Packet
  <2> QED BY <1>1, <1>2, <2>1, <2>2, <2>3, <2>4, Concluded
<1> QED BY <1>5, <1>6

LEMMA ClientKeeps ==
  ASSUME InStep, ClientStep, ~astray'
  PROVE  InStep'
<1>1. Client!ClientNext /\ UNCHANGED serverVars
  BY DEF ClientStep
<1>2. CASE \E op \in Opcodes \cup {"DETAILS"} : Converses(op)
  <2>1. PICK op \in Opcodes \cup {"DETAILS"} : Converses(op)
    BY <1>2
  <2>2. CASE Asking(op)
    BY <1>1, <2>2, AsksKeeps, SendPayloadKeeps DEF Asking
  <2>3. CASE Hears(op)
    BY <1>1, <2>3, HearsKeeps
  <2>4. CASE Reads(op)
    BY <1>1, <2>4, ReadsKeeps
  <2> QED BY <2>1, <2>2, <2>3, <2>4 DEF Converses
<1> QED BY <1>1, <1>2, ClientOps, AsksDetailsKeeps, CancelKeeps

-----------------------------------------------------------------------------
(* The ends of a connection.                                                *)

(* What is left of a request is a request, too.                             *)
LEMMA CutRequest ==
  ASSUME UpInv, up \in Seq(Packet), Cut(up, up'), UNCHANGED <<server, srole>>
  PROVE  UpInv'
<1>1. /\ up' \in Seq(Packet) /\ Len(up') \in Nat /\ Len(up) \in Nat /\ Len(up') <= Len(up)
      /\ \A i \in 1 .. Len(up') : up'[i] = up[i]
  BY CutOf
<1>2. up' = << >> <=> Len(up') = 0
  BY <1>1, EmptyOf
<1>3. \A k \in {1, 2} : RequestFrom(k) => RequestFrom(k)'
  <2> SUFFICES ASSUME NEW k \in {1, 2}, RequestFrom(k) PROVE RequestFrom(k)'
    OBVIOUS
  <2>1. Len(up') <= k + 1
    BY <1>1 DEF RequestFrom
  <2>2. Len(up') >= k => up'[k] = up[k] /\ Len(up) >= k
    BY <1>1
  <2>3. Len(up') = k + 1 => up'[k] = up[k] /\ up'[k + 1] = up[k + 1] /\ Len(up) = k + 1
    BY <1>1 DEF RequestFrom
  <2> QED BY <2>1, <2>2, <2>3 DEF RequestFrom
<1>4. DetailsSent => up' = << >> \/ DetailsSent'
  <2> SUFFICES ASSUME DetailsSent, Len(up') # 0 PROVE DetailsSent'
    BY <1>2
  <2>1. Len(up) \in 1 .. 2
    BY DEF DetailsSent
  <2>2. Len(up') \in 1 .. 2 /\ (Len(up') = 2 => Len(up) = 2)
    BY <1>1, <2>1, AtMostTwo
  <2>3. up'[1] = up[1] /\ (Len(up') = 2 => up'[2] = up[2])
    BY <1>1, <2>2
  <2> QED BY <2>2, <2>3 DEF DetailsSent
<1>5. CancelSent => up' = << >> \/ CancelSent'
  <2> SUFFICES ASSUME CancelSent, Len(up') # 0 PROVE CancelSent'
    BY <1>2
  <2>1. Len(up') >= 1 /\ up'[1] = up[1]
    BY <1>1
  <2> QED BY <1>3, <2>1 DEF CancelSent
<1>6. up = << >> => up' = << >>
  <2> SUFFICES ASSUME up = << >> PROVE up' = << >>
    OBVIOUS
  <2>1. Len(up) = 0
    OBVIOUS
  <2> QED BY <1>1, <1>2, <2>1
<1>7. /\ Len(up) <= 1 => Len(up') <= 1
      /\ Len(up') = 1 /\ Len(up) <= 1 => Len(up) = 1 /\ up'[1] = up[1]
  BY <1>1
<1>8. /\ Done("header") => RequestFrom(1)'
      /\ Done("second") => up' = << >> \/ DetailsSent' \/ CancelSent'
      /\ Done("header")' = Done("header") /\ Done("second")' = Done("second")
  BY <1>3, <1>4, <1>5, <1>6 DEF UpInv, Done
<1> QED BY <1>6, <1>7, <1>8 DEF UpInv

(* What is left of an answer is the beginning of one.                       *)
LEMMA CutAnswer ==
  ASSUME Shapes, DownInv, Cut(down, down'), UNCHANGED <<client, surplus>>
  PROVE  DownInv'
<1>1. /\ down' \in Seq(Packet) /\ Len(down') \in Nat /\ Len(down) \in Nat /\ Len(down') <= Len(down)
      /\ \A i \in 1 .. Len(down') : down'[i] = down[i]
      /\ DOMAIN down' = 1 .. Len(down') /\ DOMAIN down = 1 .. Len(down)
  <2>1. down \in Seq(Packet)
    BY DEF Shapes
  <2>2. /\ down' \in Seq(Packet) /\ Len(down') <= Len(down)
        /\ \A i \in 1 .. Len(down') : down'[i] = down[i]
    BY <2>1, CutOf
  <2> QED BY <2>1, <2>2
<1>2. down' = << >> <=> Len(down') = 0
  BY <1>1, EmptyOf
<1>3. down = << >> => down' = << >>
  <2> SUFFICES ASSUME down = << >> PROVE down' = << >>
    OBVIOUS
  <2>1. Len(down) = 0
    OBVIOUS
  <2> QED BY <1>1, <1>2, <2>1
<1>4. down' # << >> => Len(down') >= 1 /\ down'[1] = down[1] /\ down # << >>
  BY <1>1, <1>2, <1>3
<1>5. Stale => down' = << >> \/ Stale'
  BY <1>4 DEF Stale
<1>6. Failure => down' = << >> \/ Failure'
  BY <1>1, <1>4 DEF Failure
<1>7. ASSUME NEW n \in 0 .. MaxRecords, Answers(client.op, n), down' # << >>
      PROVE  Answers(client.op, n)'
  <2>1. \A i \in 2 .. Len(down') : down'[i].type = AnswerOf(client.op)
    BY <1>1, <1>7 DEF Answers
  <2>2. surplus = 0 => Len(down') - 1 <= n
    BY <1>1, <1>7, SessionAssumption DEF Answers
  <2> QED BY <1>4, <1>7, <2>1, <2>2 DEF Answers, Announced
<1>8. client.at = "read" =>
        /\ \A i \in DOMAIN down' : down'[i].type = AnswerOf(client.op)
        /\ surplus = 0 => Len(down') <= client.left
  <2> SUFFICES ASSUME client.at = "read"
               PROVE  /\ \A i \in DOMAIN down' : down'[i].type = AnswerOf(client.op)
                      /\ surplus = 0 => Len(down') <= client.left
    OBVIOUS
  <2>1. \A i \in DOMAIN down' : down'[i].type = AnswerOf(client.op)
    BY <1>1 DEF DownInv
  <2>2. client.left \in Nat
    BY SessionAssumption DEF Shapes
  <2>3. surplus = 0 => Len(down') <= client.left
    BY <1>1, <2>2 DEF DownInv
  <2> QED BY <2>1, <2>3
<1>9. client.at = "answer" =>
        down' = << >> \/ Stale' \/ Failure' \/ \E n \in 0 .. MaxRecords : Answers(client.op, n)'
  BY <1>3, <1>5, <1>6, <1>7 DEF DownInv
<1>10. client.at \in {"menu", "payload", "decide"} => down' = << >> \/ Stale'
  BY <1>3, <1>5 DEF DownInv
<1> QED BY <1>8, <1>9, <1>10 DEF DownInv

(* A client that is down leaves the server with what it has sent.           *)
LEMMA ClientGone ==
  ASSUME InStep, UNCHANGED <<down, crole, serverVars>>,
         NEW at \in {"gone", "lost", "cut"}, client' = [client EXCEPT !.at = at],
         up' = up \/ Cut(up, up')
  PROVE  InStep'
<1>1. Shapes /\ (ServerIsUp => UpInv) /\ UNCHANGED <<server, srole, surplus>>
  BY DEF InStep, serverVars
<1>2. /\ client'.at = at
      /\ client' \in [at : Client!AtClient, op : Words, left : Nat,
                      said : {"nothing", "done", "failed"}]
  BY <1>1 DEF Shapes, Client!AtClient, Client!ClientEnds
<1>3. up' \in Seq(Packet)
  BY <1>1, CutOf DEF Shapes
<1>4. Shapes'
  BY <1>1, <1>2, <1>3 DEF Shapes
<1>5. ServerIsUp => UpInv'
  <2>1. CASE up' = up
    BY <1>1, <2>1 DEF UpInv, Done, RequestFrom, DetailsSent, CancelSent
  <2>2. CASE Cut(up, up')
    BY <1>1, <2>2, CutRequest DEF Shapes
  <2> QED BY <2>1, <2>2
<1>6. ~ClientIsUp' /\ (ServerIsUp' <=> ServerIsUp)
  BY <1>1, <1>2 DEF ClientIsUp, ServerIsUp, Client!ClientEnds
<1>7. server'.at # "invalid" /\ client'.at # "rejected"
  BY <1>1, <1>2 DEF InStep
<1> QED BY <1>4, <1>5, <1>6, <1>7 DEF InStep

LEMMA FaultsKeep ==
  ASSUME InStep, Faults
  PROVE  InStep'
<1>1. CASE Leave
  BY <1>1, ClientGone DEF Leave
<1>2. CASE KillClient
  BY <1>2, ClientGone DEF KillClient
<1>3. CASE LoseHost
  BY <1>3, ClientGone DEF LoseHost
<1>4. CASE KillServer
  <2>1. /\ Shapes /\ UNCHANGED <<up, client, crole, srole, surplus>> /\ Cut(down, down')
        /\ server' = [server EXCEPT !.at = "killed"]
        /\ ClientIsUp => DownInv
    BY <1>4 DEF InStep, KillServer, clientVars
  <2>2. server' \in [at : Server!ServerEnds \ {"invalid"}, op : Words, size : Nat,
                     left : 0 .. MaxRecords, did : {"nothing", "OK", "ERROR"}]
    BY <2>1 DEF Shapes, Server!ServerEnds
  <2>3. up' \in Seq(Packet) /\ down' \in Seq(Packet)
    BY <2>1, CutOf DEF Shapes
  <2>4. ClientIsUp => DownInv'
    BY <2>1, CutAnswer
  <2> QED BY <2>1, <2>2, <2>3, <2>4, ServerGone
<1> QED BY <1>1, <1>2, <1>3, <1>4 DEF Faults

LEMMA EndingsKeep ==
  ASSUME InStep, Endings
  PROVE  InStep'
<1>1. CASE ClientReadsEnd
  BY <1>1, ClientGone DEF ClientReadsEnd
<1>2. CASE ServerStops
  <2>1. /\ Shapes /\ UNCHANGED <<up, down, client, crole, srole, surplus>>
        /\ server' = [server EXCEPT !.at = IF server.at = "header" /\ up = << >>
                                          THEN "closed" ELSE "short"]
        /\ ClientIsUp => DownInv
    BY <1>2 DEF InStep, ServerStops, clientVars
  <2>2. server' \in [at : Server!ServerEnds \ {"invalid"}, op : Words, size : Nat,
                     left : 0 .. MaxRecords, did : {"nothing", "OK", "ERROR"}]
    BY <2>1 DEF Shapes, Server!ServerEnds
  <2>3. up' \in Seq(Packet) /\ down' \in Seq(Packet)
    BY <2>1 DEF Shapes
  <2>4. ClientIsUp => DownInv'
    BY <2>1, SameDown
  <2> QED BY <2>1, <2>2, <2>3, <2>4, ServerGone
<1> QED BY <1>1, <1>2 DEF Endings, ServerReadsEnd, KeepAlive

(* A connection begins.                                                     *)
LEMMA Begun == Init => InStep
<1> SUFFICES ASSUME Init PROVE InStep
  OBVIOUS
<1>1. /\ up = << >> /\ down = << >> /\ crole = "GUEST" /\ srole = "GUEST" /\ surplus = 0
      /\ client = [at |-> "menu", op |-> "none", left |-> 0, said |-> "nothing"]
      /\ server = [at |-> "header", op |-> "none", size |-> 0, left |-> 0, did |-> "nothing"]
  BY DEF Init, Client!ClientInit, Server!ServerInit, Server!Idle
<1>2. up \in Seq(Packet) /\ down \in Seq(Packet) /\ Len(up) = 0
  BY <1>1
<1>3. /\ client \in [at : Client!AtClient, op : Words, left : Nat,
                     said : {"nothing", "done", "failed"}]
      /\ server \in [at : Server!AtServer, op : Words, size : Nat, left : 0 .. MaxRecords,
                     did : {"nothing", "OK", "ERROR"}]
  BY <1>1, SessionAssumption DEF Client!AtClient, Server!AtServer, Words
<1>4. Shapes
  BY <1>1, <1>2, <1>3, SessionAssumption DEF Shapes, UserTypes
<1>5. client.at = "menu" /\ client.said = "nothing" /\ server.at = "header" /\ server.left = 0
  BY <1>1
<1>6. UpInv
  BY <1>2, <1>5 DEF UpInv, Done, RequestFrom
<1>7. DownInv
  BY <1>1, <1>5 DEF DownInv
<1>8. BothInv
  BY <1>1, <1>5 DEF BothInv, MenuInv, Done, Told
<1> QED BY <1>4, <1>5, <1>6, <1>7, <1>8 DEF InStep

LEMMA ReconnectKeeps == Reconnect => InStep'
<1>1. Reconnect => Init'
  BY DEF Reconnect, Init, Client!ClientInit, Server!ServerInit
<1>2. Init => InStep
  BY Begun
<1> QED BY <1>1, <1>2, PTL

LEMMA StutterKeeps ==
  ASSUME SessionInv, UNCHANGED vars
  PROVE  SessionInv'
BY DEF SessionInv, InStep, vars, Shapes, ServerIsUp, ClientIsUp, UpInv, Done, RequestFrom, DetailsSent,
       CancelSent, DownInv, Stale, Failure, Answers, Announced, BothInv, MenuInv, Told, Asked, Waiting,
       Acting, AnswerInv, Refused, Granted, NewRole, Balance

-----------------------------------------------------------------------------
(* The client astray.  Streams, ends and roles keep their shapes whatever   *)
(* it reads.                                                                *)

LEMMA ServerShapes ==
  ASSUME Shapes, ServerStep
  PROVE  Shapes' /\ surplus' >= surplus
<1>1. /\ Server!ServerNext /\ UNCHANGED <<client, crole>> /\ surplus \in Nat
      /\ up \in Seq(Packet) /\ down \in Seq(Packet) /\ srole \in UserTypes
  BY SessionAssumption DEF ServerStep, Shapes, clientVars
<1> DEFINE Servers == [at : Server!AtServer, op : Words, size : Nat, left : 0 .. MaxRecords,
                       did : {"nothing", "OK", "ERROR"}]
<1>2. server \in Servers /\ 0 \in 0 .. MaxRecords /\ Opcodes \cup {"DETAILS", "none"} \subseteq Words
  BY SessionAssumption DEF Shapes, Words
<1>3. ASSUME server' \in Servers, up' \in Seq(Packet), down' \in Seq(Packet), srole' \in UserTypes,
             UNCHANGED surplus
      PROVE  Shapes' /\ surplus' >= surplus
  BY <1>1, <1>3 DEF Shapes
<1>4. \A at \in Server!AtServer : [server EXCEPT !.at = at] \in Servers
  BY <1>2
<1>5. \A h \in Packet : Append(down, h) \in Seq(Packet)
  BY <1>1, AppendOf
<1>6. CASE Server!ReadRequest
  <2>1. up' \in Seq(Packet) /\ up # << >> /\ Head(up) \in Packet
    BY <1>1, <1>6, ServerReads, TailOf DEF Server!ReadRequest
  <2>2. PICK h \in Server!Commands(Head(up)) :
          IF Server!is_valid_opcode_for_user_by_type(h.op, srole)
          THEN /\ server' = [at |-> "handler", op |-> h.op, size |-> h.size, left |-> 0,
                             did |-> "nothing"]
               /\ UNCHANGED down
          ELSE /\ server' = [Server!Idle EXCEPT !.did = "ERROR"]
               /\ down' = Append(down, Server!Header("ERROR", 0))
    BY <1>6 DEF Server!ReadRequest
  <2>3. h.op \in Words /\ h.size \in Nat
    BY <2>1, CommandsOf DEF Packet
  <2>4. Header("ERROR", 0) \in Packet
    BY Packets DEF Words
  <2>5. server' \in Servers
    BY <1>2, <2>2, <2>3 DEF Server!Idle, Server!AtServer
  <2>6. down' \in Seq(Packet)
    BY <1>1, <1>5, <2>2, <2>4, ServerSpeaks
  <2> QED BY <1>1, <1>3, <1>6, <2>1, <2>5, <2>6 DEF Server!ReadRequest
<1>7. CASE Server!ReadSecond
  <2>1. up' \in Seq(Packet)
    BY <1>1, <1>7, ServerReads DEF Server!ReadSecond
  <2>2. server' \in {Server!Idle, [Server!Idle EXCEPT !.at = "details", !.op = "DETAILS"],
                     [Server!Idle EXCEPT !.at = "invalid"]}
    BY <1>7 DEF Server!ReadSecond
  <2>3. server' \in Servers
    <3>1. {"header", "details", "invalid"} \subseteq Server!AtServer /\ {"none", "DETAILS"} \subseteq Words
      BY <1>2 DEF Server!AtServer, Server!ServerEnds
    <3>2. CASE server' = Server!Idle
      BY <1>2, <3>1, <3>2 DEF Server!Idle
    <3>3. CASE server' = [Server!Idle EXCEPT !.at = "details", !.op = "DETAILS"]
      BY <1>2, <3>1, <3>3 DEF Server!Idle
    <3>4. CASE server' = [Server!Idle EXCEPT !.at = "invalid"]
      BY <1>2, <3>1, <3>4 DEF Server!Idle
    <3> QED BY <2>2, <3>2, <3>3, <3>4
  <2> QED BY <1>1, <1>3, <1>7, <2>1, <2>3 DEF Server!ReadSecond
<1>8. CASE Server!ReadDetails
  <2>1. up' \in Seq(Packet)
    BY <1>1, <1>8, ServerReads DEF Server!ReadDetails
  <2> QED BY <1>1, <1>3, <1>4, <1>8, <2>1 DEF Server!ReadDetails, Server!AtServer
<1>9. CASE TakesRooms
  BY <1>1, <1>3, <1>4, <1>9 DEF TakesRooms, Server!AtServer
<1>10. ASSUME NEW op \in Opcodes \cup {"DETAILS"}, Serves(op) PROVE Shapes' /\ surplus' >= surplus
  <2>1. CASE Server!TakePayload(op, RequestOf(op))
    <3>1. up' \in Seq(Packet)
      BY <1>1, <2>1, ServerReads DEF Server!TakePayload
    <3>2. server' \in Servers
      BY <1>4, <2>1 DEF Server!TakePayload, Server!AtServer, Server!ServerEnds
    <3> QED BY <1>1, <1>3, <2>1, <3>1, <3>2 DEF Server!TakePayload
  <2>2. CASE Server!Fail(op)
    <3>1. Header("ERROR", 0) \in Packet
      BY Packets DEF Words
    <3>2. down' \in Seq(Packet)
      BY <1>5, <2>2, <3>1, ServerSpeaks DEF Server!Fail
    <3>3. server' \in Servers
      BY <1>2, <2>2 DEF Server!Fail, Server!Idle, Server!AtServer
    <3> QED BY <1>1, <1>3, <2>2, <3>2, <3>3 DEF Server!Fail
  <2>3. CASE Grants(op)
    <3>1. PICK n \in 0 .. MaxRecords : Server!Announce(op, AnswerOf(op), n) /\ srole' \in UserTypes
      BY <2>3 DEF Grants
    <3>2. Header("OK", n * SizeOf[AnswerOf(op)]) \in Packet
      <4>1. n * SizeOf[AnswerOf(op)] \in Nat
        BY RequestTypes, SessionAssumption
      <4> QED BY <4>1, Packets DEF Words
    <3>3. down' \in Seq(Packet)
      BY <1>5, <3>1, <3>2, ServerSpeaks DEF Server!Announce
    <3>4. server' \in Servers
      BY <1>2, <3>1 DEF Server!Announce, Server!AtServer
    <3> QED BY <1>1, <1>3, <3>1, <3>3, <3>4 DEF Server!Announce
  <2>4. CASE Sends(op)
    <3>1. PICK e \in Packet : Server!SendStruct(op, e)
      BY <2>4 DEF Sends
    <3>2. server.left - 1 \in 0 .. MaxRecords
      BY <1>2, <3>1, SessionAssumption DEF Server!SendStruct
    <3>3. server' \in Servers
      BY <1>2, <3>1, <3>2 DEF Server!SendStruct
    <3> QED BY <1>1, <1>3, <1>5, <3>1, <3>3 DEF Server!SendStruct
  <2>5. CASE Server!SendSurplus(op)
    <3>1. Struct("booking") \in Packet
      BY Packets, Sizes
    <3>2. surplus' \in 0 .. MaxSurplus /\ surplus' >= surplus
      BY <1>1, <2>5, SessionAssumption DEF Server!SendSurplus
    <3>3. UNCHANGED <<up, server, srole>> /\ down' \in Seq(Packet)
      BY <1>5, <2>5, <3>1, ServerSpeaks DEF Server!SendSurplus
    <3> QED BY <1>1, <3>2, <3>3 DEF Shapes
  <2>6. CASE Server!ExitShort(op)
    BY <1>1, <1>3, <1>4, <2>6 DEF Server!ExitShort, Server!AtServer, Server!ServerEnds
  <2>7. CASE Server!Finish(op, After(op))
    <3>1. server' \in Servers
      BY <1>2, <2>7 DEF Server!Finish, Server!Idle, Server!AtServer, After
    <3> QED BY <1>1, <1>3, <2>7, <3>1 DEF Server!Finish
  <2> QED BY <1>10, <2>1, <2>2, <2>3, <2>4, <2>5, <2>6, <2>7 DEF Serves
<1> QED BY <1>1, <1>6, <1>7, <1>8, <1>9, <1>10, ServerOps

LEMMA ClientShapes ==
  ASSUME Shapes, ClientStep, astray \in BOOLEAN
  PROVE  /\ Shapes' /\ UNCHANGED serverVars
         /\ astray' \in BOOLEAN /\ (astray => astray')
         /\ ~astray /\ astray' =>
              \E op \in Opcodes \cup {"DETAILS"} : Hears(op) /\ down[1].type # "header"
<1>1. /\ Client!ClientNext /\ UNCHANGED serverVars
      /\ up \in Seq(Packet) /\ down \in Seq(Packet) /\ crole \in UserTypes
  BY DEF ClientStep, Shapes
<1> DEFINE Clients == [at : Client!AtClient, op : Words, left : Nat,
                       said : {"nothing", "done", "failed"}]
<1>2. client \in Clients /\ Opcodes \cup {"DETAILS"} \subseteq Words
  BY DEF Shapes, Words
<1>3. ASSUME client' \in Clients, up' \in Seq(Packet), down' \in Seq(Packet), crole' \in UserTypes
      PROVE  Shapes'
  BY <1>1, <1>3 DEF Shapes, serverVars
<1>4. ASSUME NEW e \in Packet PROVE Append(up, e) \in Seq(Packet)
  BY <1>1, AppendOf
<1>5. CASE Client!CancelBooking
  <2>1. Header("CANCEL", 0) \in Packet
    BY Packets DEF Words
  <2>2. client' \in Clients
    BY <1>2, <1>5 DEF Client!CancelBooking, Client!AtClient
  <2> QED BY <1>1, <1>3, <1>4, <1>5, <2>1, <2>2, ClientSpeaks DEF Client!CancelBooking
<1>6. CASE AsksDetails
  <2>1. Header("CREATE_BOOKING", SizeOf["booking"]) \in Packet
    <3>1. "CREATE_BOOKING" \in Words
      BY DEF Words, Opcodes, USER_OPCODES
    <3>2. SizeOf["booking"] \in Nat
      BY Sizes
    <3> QED BY <3>1, <3>2, Packets
  <2>2. client' \in Clients
    BY <1>2, <1>6 DEF AsksDetails, Client!SendHeader, Client!AtClient
  <2> QED BY <1>1, <1>3, <1>4, <1>6, <2>1, <2>2 DEF AsksDetails, Client!SendHeader
<1>7. ASSUME NEW op \in Opcodes, Asks(op) PROVE Shapes' /\ astray' = astray
  <2>1. Header(op, SizeOf[RequestOf(op)]) \in Packet
    BY <1>2, Packets, RequestTypes
  <2>2. client' \in Clients
    BY <1>2, <1>7 DEF Asks, Client!SendHeader, Client!AtClient
  <2> QED BY <1>1, <1>3, <1>4, <1>7, <2>1, <2>2 DEF Asks, Client!SendHeader
<1>8. ASSUME NEW op \in Opcodes \cup {"DETAILS"}, RequestOf(op) # "nothing",
             Client!SendPayload(op, RequestOf(op))
      PROVE  Shapes' /\ astray' = astray
  <2>1. Struct(RequestOf(op)) \in Packet
    BY <1>8, Packets, RequestTypes
  <2>2. client' \in Clients
    BY <1>2, <1>8 DEF Client!SendPayload, Client!AtClient
  <2> QED BY <1>1, <1>3, <1>4, <1>8, <2>1, <2>2, ClientSpeaks DEF Client!SendPayload
<1>9. ASSUME NEW op \in Opcodes \cup {"DETAILS"}, Hears(op)
      PROVE  /\ Shapes' /\ astray' \in BOOLEAN /\ (astray => astray')
             /\ ~astray /\ astray' => down[1].type # "header"
  <2>0. Then(op) \in {"menu", "decide"}
    BY DEF Then
  <2>1. /\ client.op = op /\ UNCHANGED up /\ down' \in Seq(Packet)
        /\ \E h \in Packet : \E next, said :
             /\ client' = [at |-> next, op |-> op, said |-> said,
                           left |-> IF next = "read" THEN h.size \div SizeOf[AnswerOf(op)] ELSE 0]
             /\ astray' = (astray \/ (down[1].type # "header" /\ next # "rejected"))
             /\ Turns(op, AnswerOf(op), Then(op), h, next, said)
    BY <1>9, <2>0, Outcome DEF Hears
  <2>7. PICK h \in Packet : \E next, said :
          /\ client' = [at |-> next, op |-> op, said |-> said,
                        left |-> IF next = "read" THEN h.size \div SizeOf[AnswerOf(op)] ELSE 0]
          /\ astray' = (astray \/ (down[1].type # "header" /\ next # "rejected"))
          /\ Turns(op, AnswerOf(op), Then(op), h, next, said)
    BY <2>1
  <2>2. PICK next, said :
          /\ client' = [at |-> next, op |-> op, said |-> said,
                        left |-> IF next = "read" THEN h.size \div SizeOf[AnswerOf(op)] ELSE 0]
          /\ astray' = (astray \/ (down[1].type # "header" /\ next # "rejected"))
          /\ Turns(op, AnswerOf(op), Then(op), h, next, said)
    BY <2>7
  <2>3. /\ next \in {"menu", "decide", "read", "rejected"} /\ said \in {"nothing", "done", "failed"}
        /\ next = "read" => Client!Accepts(op, AnswerOf(op), h) /\ h.size # 0
    BY <2>0, <2>2 DEF Turns
  <2>4. next = "read" => h.size \div SizeOf[AnswerOf(op)] \in Nat
    <3> SUFFICES ASSUME next = "read" PROVE h.size \div SizeOf[AnswerOf(op)] \in Nat
      OBVIOUS
    <3>1. h.size \in Nat
      BY DEF Packet
    <3>2. op # "LOGOUT"
      <4>1. ASSUME op = "LOGOUT" PROVE h.size = 0
        <5>1. AnswerOf(op) = "nothing"
          BY <4>1, RequestTypes
        <5> QED BY <2>3, <4>1, <5>1, Sizes, ClientSpeaks DEF Client!Accepts, Client!IsOne
      <4> QED BY <2>3, <4>1
    <3>3. SizeOf[AnswerOf(op)] \in {33, 36, 64}
      BY <3>2, RequestTypes, Sizes
    <3>4. CASE SizeOf[AnswerOf(op)] = 33
      BY <3>1, <3>4
    <3>5. CASE SizeOf[AnswerOf(op)] = 36
      BY <3>1, <3>5
    <3>6. CASE SizeOf[AnswerOf(op)] = 64
      BY <3>1, <3>6
    <3> QED BY <3>3, <3>4, <3>5, <3>6
  <2>5. client' \in Clients
    <3>1. next \in Client!AtClient
      BY <2>3 DEF Client!AtClient, Client!ClientEnds
    <3> QED BY <1>2, <2>2, <2>3, <2>4, <3>1
  <2>6. crole' \in UserTypes
    BY <1>1, <1>9 DEF Hears, UserTypes
  <2> QED BY <1>1, <1>3, <2>1, <2>2, <2>5, <2>6
<1>10. ASSUME NEW op \in Opcodes \cup {"DETAILS"}, Reads(op) PROVE Shapes' /\ astray' = astray
  <2>1. Client!ReadData(op, AnswerOf(op), Then(op)) /\ Then(op) \in {"menu", "decide"}
    BY <1>10 DEF Reads, Then
  <2>2. down # << >> /\ down' \in Seq(Packet)
    BY <1>1, <2>1, ClientReads DEF Client!ReadData
  <2>3. Head(down).role \in UserTypes
    <3>1. Head(down) \in Packet
      BY <1>1, <2>2, TailOf
    <3> QED BY <3>1 DEF Packet
  <2>4. client' \in Clients
    <3>1. CASE client.left > 1
      <4>1. client.left - 1 \in Nat
        BY <1>2, <3>1
      <4> QED BY <1>2, <2>1, <3>1, <4>1 DEF Client!ReadData
    <3>2. CASE ~(client.left > 1)
      BY <1>2, <2>1, <3>2 DEF Client!ReadData, Client!AtClient
    <3> QED BY <3>1, <3>2
  <2> QED BY <1>1, <1>3, <1>10, <2>1, <2>2, <2>3, <2>4 DEF Reads, Client!ReadData
<1>11. CASE Client!CancelBooking \/ AsksDetails
  BY <1>1, <1>5, <1>6, <1>11 DEF Client!CancelBooking, AsksDetails
<1>12. CASE \E op \in Opcodes \cup {"DETAILS"} : Converses(op)
  <2>1. PICK op \in Opcodes \cup {"DETAILS"} : Converses(op)
    BY <1>12
  <2>2. CASE Asking(op) \/ Reads(op)
    <3>1. Shapes' /\ astray' = astray
      BY <1>7, <1>8, <1>10, <2>2 DEF Asking
    <3> QED BY <1>1, <3>1
  <2>3. CASE Hears(op)
    BY <1>1, <1>9, <2>3
  <2> QED BY <2>1, <2>2, <2>3 DEF Converses
<1> QED BY <1>1, <1>11, <1>12, ClientOps

LEMMA EndsShapes ==
  ASSUME Shapes, Faults \/ Endings
  PROVE  Shapes' /\ UNCHANGED <<astray, surplus>>
<1>1. /\ up \in Seq(Packet) /\ down \in Seq(Packet)
      /\ \A at \in Client!AtClient :
           [client EXCEPT !.at = at] \in [at : Client!AtClient, op : Words, left : Nat,
                                          said : {"nothing", "done", "failed"}]
      /\ \A at \in Server!AtServer :
           [server EXCEPT !.at = at] \in [at : Server!AtServer, op : Words, size : Nat,
                                          left : 0 .. MaxRecords, did : {"nothing", "OK", "ERROR"}]
  BY DEF Shapes
<1>2. {"gone", "lost", "cut"} \subseteq Client!AtClient /\ {"killed", "closed", "short"} \subseteq Server!AtServer
  BY DEF Client!AtClient, Client!ClientEnds, Server!AtServer, Server!ServerEnds
<1>3. CASE Leave
  BY <1>1, <1>2, <1>3 DEF Leave, Shapes, serverVars
<1>4. CASE KillClient
  BY <1>1, <1>2, <1>4, CutOf DEF KillClient, Shapes, serverVars
<1>5. CASE LoseHost
  BY <1>1, <1>2, <1>5, CutOf DEF LoseHost, Shapes, serverVars
<1>6. CASE KillServer
  BY <1>1, <1>2, <1>6, CutOf DEF KillServer, Shapes, clientVars
<1>7. CASE ClientReadsEnd
  BY <1>1, <1>2, <1>7 DEF ClientReadsEnd, Shapes, serverVars
<1>8. CASE ServerStops
  BY <1>1, <1>2, <1>8 DEF ServerStops, Shapes, clientVars
<1> QED BY <1>3, <1>4, <1>5, <1>6, <1>7, <1>8 DEF Faults, Endings, ServerReadsEnd, KeepAlive

(* Only a record that nobody announced leads a client astray.               *)
LEMMA GoesAstray ==
  ASSUME InStep, ClientStep, astray = FALSE
  PROVE  astray' \in BOOLEAN /\ (astray' => Shapes' /\ surplus' > 0)
<1>1. /\ Shapes' /\ UNCHANGED serverVars /\ astray' \in BOOLEAN
      /\ astray' => \E op \in Opcodes \cup {"DETAILS"} : Hears(op) /\ down[1].type # "header"
  BY ClientShapes DEF InStep
<1>2. ASSUME NEW op \in Opcodes \cup {"DETAILS"}, Hears(op), down[1].type # "header"
      PROVE  surplus > 0
  <2>1. ~Failure /\ \A n \in 0 .. MaxRecords : ~Answers(op, n)
    BY <1>2 DEF Failure, Answers, Header
  <2>2. Stale
    BY <1>2, <2>1, HeardOf
  <2> QED BY <2>2 DEF Stale
<1> QED BY <1>1, <1>2 DEF serverVars

-----------------------------------------------------------------------------
(* The two ends of a connection keep step, however it is cut: what is on    *)
(* its way is what the other end is about to read (server.c and             *)
(* client_utils.c, both ends of every dialogue), until a client takes part  *)
(* of a record that nobody announced for an answer.                         *)
THEOREM KeepsStep == Spec => []SessionInv
<1>1. Init => SessionInv
  <2>1. Init => astray = FALSE
    BY DEF Init, Client!ClientInit
  <2> QED BY <2>1, Begun DEF SessionInv
<1>2. SessionInv /\ [Next]_vars => SessionInv'
  <2> SUFFICES ASSUME SessionInv, [Next]_vars PROVE SessionInv'
    OBVIOUS
  <2>1. CASE Reconnect
    <3>1. astray' = FALSE
      BY <2>1 DEF Reconnect
    <3> QED BY <2>1, <3>1, ReconnectKeeps DEF SessionInv
  <2>2. CASE UNCHANGED vars
    BY <2>2, StutterKeeps
  <2>3. CASE astray /\ ClientStep
    <3>1. Shapes /\ surplus > 0 /\ astray \in BOOLEAN
      BY <2>3 DEF SessionInv
    <3> QED BY <2>3, <3>1, ClientShapes DEF SessionInv, serverVars
  <2>4. CASE astray /\ (ServerStep \/ Faults \/ Endings)
    <3>1. Shapes /\ surplus > 0 /\ surplus \in Nat /\ astray \in BOOLEAN
      BY <2>4, SessionAssumption DEF SessionInv, Shapes
    <3>2. Shapes' /\ surplus' >= surplus /\ astray' = astray
      <4>1. CASE ServerStep
        BY <3>1, <4>1, ServerShapes DEF ServerStep, clientVars
      <4>2. CASE Faults \/ Endings
        BY <3>1, <4>2, EndsShapes
      <4> QED BY <2>4, <4>1, <4>2
    <3>3. surplus' \in Nat
      BY <3>2, SessionAssumption DEF Shapes
    <3> QED BY <2>4, <3>1, <3>2, <3>3 DEF SessionInv
  <2>5. CASE ~astray /\ ClientStep
    <3>1. InStep /\ astray = FALSE
      BY <2>5 DEF SessionInv
    <3> QED BY <2>5, <3>1, GoesAstray, ClientKeeps DEF SessionInv
  <2>6. CASE ~astray /\ (ServerStep \/ Faults \/ Endings)
    <3>1. InStep /\ Shapes /\ astray = FALSE
      BY <2>6 DEF SessionInv, InStep
    <3>2. astray' = FALSE
      BY <2>6, <3>1, EndsShapes DEF ServerStep, clientVars
    <3> QED BY <2>6, <3>1, <3>2, ServerKeeps, FaultsKeep, EndingsKeep DEF SessionInv
  <2> QED BY <2>1, <2>2, <2>3, <2>4, <2>5, <2>6 DEF Next
<1> QED BY <1>1, <1>2, PTL DEF Spec

(* Streams, ends and roles keep their types, whatever the client reads.     *)
THEOREM TypeCorrect == Spec => []SessionTypeOK
<1>1. SessionInv => SessionTypeOK
  <2> SUFFICES ASSUME SessionInv PROVE SessionTypeOK
    OBVIOUS
  <2>1. Shapes /\ astray \in BOOLEAN
    BY DEF SessionInv, InStep
  <2> QED BY <2>1 DEF Shapes, SessionTypeOK
<1> QED BY <1>1, KeepsStep, PTL

(* Whenever the client waits for its user, and is not astray, both ends     *)
(* take that user for the same: the type set by handle_login, handle_signup *)
(* and handle_logout is the one the answer has brought to the client.       *)
THEOREM EndsAgree == Spec => []Agreement
<1>1. SessionInv => Agreement
  <2> SUFFICES ASSUME SessionInv, client.at \in {"menu", "decide"}, ServerIsUp, ~astray
               PROVE  crole = srole
    BY DEF Agreement
  <2>1. BothInv
    BY SessionParts DEF SessionInv, InStep
  <2> QED BY <2>1 DEF BothInv, MenuInv
<1> QED BY <1>1, KeepsStep, PTL

(* The check of server.c on the opcode never turns down a request of a      *)
(* client that is not astray: what the menu offers is what the server's     *)
(* user type allows.                                                        *)
THEOREM ClientNeverRefused == Spec => []NeverRefused
<1>1. SessionInv => NeverRefused
  <2> SUFFICES ASSUME SessionInv, server.at = "header", up # << >>, ~astray
               PROVE  /\ Head(up).type = "header"
                      /\ is_valid_opcode_for_user_by_type(Head(up).op, srole)
    BY DEF NeverRefused
  <2>1. UpInv /\ up \in Seq(Packet) /\ Len(up) \in Nat /\ (up = << >> <=> Len(up) = 0)
    BY SessionParts DEF SessionInv, InStep
  <2>2. RequestFrom(1) /\ Len(up) >= 1 /\ Head(up) = up[1]
    BY <2>1, TailOf DEF UpInv, Done
  <2> QED BY <2>2 DEF RequestFrom
<1> QED BY <1>1, KeepsStep, PTL

(* Whatever the server is about to read is what a client that is not astray *)
(* has sent for that place, also after a cancellation                       *)
(* (handle_create_booking).                                                 *)
THEOREM ServerKeepsPlace == Spec => []RequestsAligned
<1>1. SessionInv => RequestsAligned
  <2> SUFFICES ASSUME SessionInv, ~astray
               PROVE  /\ server.at # "invalid"
                      /\ up # << >> =>
                           /\ server.at \in {"header", "second"} => Head(up).type = "header"
                           /\ server.at = "second" => Head(up).op \in {"CANCEL", "CREATE_BOOKING"}
                           /\ server.at = "handler" => SizeOf[Head(up).type] = server.size
                           /\ server.at = "details" => Head(up).type = "booking"
    BY DEF RequestsAligned
  <2>0. InStep
    BY DEF SessionInv
  <2> SUFFICES ASSUME up # << >>
               PROVE  /\ server.at \in {"header", "second"} => Head(up).type = "header"
                      /\ server.at = "second" => Head(up).op \in {"CANCEL", "CREATE_BOOKING"}
                      /\ server.at = "handler" => SizeOf[Head(up).type] = server.size
                      /\ server.at = "details" => Head(up).type = "booking"
    BY <2>0 DEF InStep
  <2>1. up \in Seq(Packet) /\ Len(up) \in Nat
    BY <2>0, SessionParts
  <2>2. Len(up) >= 1 /\ Head(up) = up[1]
    BY <2>1, TailOf
  <2>3. server.at \in {"header", "second", "handler", "details"} => UpInv
    BY <2>0, SessionParts DEF InStep
  <2>4. CASE server.at = "header"
    BY <2>2, <2>3, <2>4 DEF UpInv, Done, RequestFrom
  <2>5. CASE server.at = "second"
    BY <2>2, <2>3, <2>5 DEF UpInv, Done, DetailsSent, CancelSent
  <2>6. CASE server.at \in {"handler", "details"}
    <3>1. Len(up) <= 1
      BY <2>3, <2>6 DEF UpInv
    <3>2. Len(up) = 1
      BY <2>1, <2>2, <3>1, AtMostOne
    <3> QED BY <2>2, <2>3, <2>6, <3>2 DEF UpInv
  <2> QED BY <2>4, <2>5, <2>6
<1> QED BY <1>1, KeepsStep, PTL

(* Until a list carries more records than announced, the client reads every *)
(* answer to its end and finds none it does not expect (the checks on the   *)
(* response header in client_utils.c never fail).                           *)
THEOREM ClientKeepsPlace == Spec => []AnswersAligned
<1>1. SessionInv => AnswersAligned
  <2> SUFFICES ASSUME SessionInv, surplus = 0
               PROVE  /\ client.at # "rejected" /\ ~astray
                      /\ client.at \in {"menu", "payload", "decide"} => down = << >>
    BY DEF AnswersAligned
  <2>1. ~astray /\ InStep
    BY DEF SessionInv
  <2>2. client.at # "rejected"
    BY <2>1 DEF InStep
  <2>3. client.at \in {"menu", "payload", "decide"} => down = << >>
    BY <2>1, SessionParts DEF InStep, DownInv, Stale
  <2> QED BY <2>1, <2>2, <2>3
<1> QED BY <1>1, KeepsStep, PTL

(* What the client reports to its user is what the server has answered, but *)
(* for the two listings that call an empty list a failure, until it takes   *)
(* part of a record that nobody announced for an answer.  Then it may       *)
(* report anything: for booking 201, say, that an order has failed which    *)
(* was carried out (client_utils.c:947).                                    *)
THEOREM ClientTellsTheTruth == Spec => []ReportsAreTrue
<1>1. SessionInv => ReportsAreTrue
  <2> SUFFICES ASSUME SessionInv, client.at = "menu", ServerIsUp, ~astray
               PROVE  /\ client.said = "done" => server.did = "OK"
                      /\ client.said = "failed" =>
                           \/ server.did = "ERROR"
                           \/ client.op \in {"BOOKINGS_LIST_BY_TIME_RANGE", "BOOKINGS_LIST_BY_STATUS"}
    BY DEF ReportsAreTrue
  <2>1. MenuInv
    BY SessionParts DEF SessionInv, InStep, BothInv
  <2> QED BY <2>1 DEF MenuInv, Told
<1> QED BY <1>1, KeepsStep, PTL

=============================================================================
