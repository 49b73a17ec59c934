-------------------------- MODULE SessionInvariant --------------------------
(***************************************************************************)
(* Why the two ends of a connection keep step: what is on its way to the   *)
(* server while it waits for this or that, what is on its way to a client  *)
(* that waits for an answer, and what each end knows of the other while    *)
(* both are up.                                                            *)
(***************************************************************************)
EXTENDS Session

(* What goes with each request, and what comes back.                        *)
RequestOf(op) ==
  CASE op \in {"LOGIN", "SIGNUP"} -> "credentials"
    [] op \in {"CREATE_ROOM", "CREATE_BOOKING", "BOOKINGS_LIST_BY_ROOM_ID"} -> "room"
    [] op = "BOOKINGS_LIST_BY_USERNAME" -> "user"
    [] op = "BOOKINGS_LIST_BY_TIME_RANGE" -> "range"
    [] op = "BOOKINGS_LIST_BY_STATUS" -> "status"
    [] op \in {"ROOMS_LIST", "LOGOUT", "USERS_BOOKINGS_LIST", "BOOKINGS_LIST_SUPERUSER"} -> "nothing"
    [] OTHER -> "booking"

AnswerOf(op) == Client!AnswerOf(op)

Lists == {"ROOMS_LIST", "CREATE_BOOKING", "USERS_BOOKINGS_LIST", "BOOKINGS_LIST_SUPERUSER",
          "BOOKINGS_LIST_BY_ROOM_ID", "BOOKINGS_LIST_BY_USERNAME",
          "BOOKINGS_LIST_BY_TIME_RANGE", "BOOKINGS_LIST_BY_STATUS"}

(* How many structs an answer may announce.                                 *)
Announced(op, n) ==
  IF op \in Lists THEN n \in 0 .. MaxRecords ELSE n = IF op = "LOGOUT" THEN 0 ELSE 1

Shapes ==
  /\ up \in Seq(Packet) /\ down \in Seq(Packet)
  /\ client \in [at : Client!AtClient, op : Words, left : Nat,
                 said : {"nothing", "done", "failed"}]
  /\ server \in [at : Server!AtServer, op : Words, size : Nat, left : 0 .. MaxRecords,
                 did : {"nothing", "OK", "ERROR"}]
  /\ crole \in UserTypes /\ srole \in UserTypes
  /\ surplus \in 0 .. MaxSurplus

-----------------------------------------------------------------------------
(* What the server finds in its stream, whatever has become of the client.  *)

(* From position k on: nothing, or a request the user type may send, its    *)
(* payload perhaps still missing.                                           *)
RequestFrom(k) ==
  /\ Len(up) <= k + 1
  /\ Len(up) >= k =>
       /\ up[k].type = "header" /\ up[k].op \in Opcodes
       /\ is_valid_opcode_for_user_by_type(up[k].op, srole)
       /\ up[k].size = SizeOf[RequestOf(up[k].op)]
  /\ Len(up) = k + 1 =>
       up[k + 1].type = RequestOf(up[k].op) /\ up[k + 1].type # "nothing"

DetailsSent ==
  /\ Len(up) \in 1 .. 2
  /\ up[1].type = "header" /\ up[1].op = "CREATE_BOOKING" /\ up[1].size = SizeOf["booking"]
  /\ Len(up) = 2 => up[2].type = "booking"

CancelSent ==
  /\ Len(up) >= 1 /\ up[1].type = "header" /\ up[1].op = "CANCEL"
  /\ RequestFrom(2)

After(op) == IF op = "CREATE_BOOKING" THEN "second" ELSE "header"

(* It is done with a message, or has nothing left to do for it.             *)
Done(next) ==
  \/ server.at = next
  \/ server.at = "send" /\ server.left = 0 /\ next = After(server.op)

UpInv ==
  /\ server.at \in {"handler", "act", "send"} => server.op \in Opcodes \cup {"DETAILS"}
  /\ server.at = "handler" =>
       /\ server.op \in Opcodes /\ server.size = SizeOf[RequestOf(server.op)]
       /\ Len(up) <= 1
       /\ Len(up) = 1 => up[1].type = RequestOf(server.op) /\ up[1].type # "nothing"
  /\ server.at = "details" =>
       /\ server.op = "DETAILS" /\ Len(up) <= 1
       /\ Len(up) = 1 => up[1].type = "booking"
  /\ server.at = "act" \/ (server.at = "send" /\ server.left > 0) => up = << >>
  /\ Done("header") => RequestFrom(1)
  /\ Done("second") => up = << >> \/ DetailsSent \/ CancelSent
  /\ server.at # "send" => server.left = 0
  /\ server.at = "send" => server.did = "OK"

-----------------------------------------------------------------------------
(* What a client that is up finds in its stream, whatever has become of the *)
(* server.                                                                  *)

(* Records of an earlier list that nobody announced.                        *)
Stale == down # << >> /\ down[1].type # "header" /\ surplus > 0

Failure == Len(down) = 1 /\ down[1] = Header("ERROR", 0)

Answers(op, n) ==
  /\ n \in 0 .. MaxRecords /\ Announced(op, n)
  /\ down # << >> /\ down[1] = Header("OK", n * SizeOf[AnswerOf(op)])
  /\ \A i \in 2 .. Len(down) : down[i].type = AnswerOf(op)
  /\ surplus = 0 => Len(down) - 1 <= n

DownInv ==
  /\ client.at \in {"menu", "payload", "decide"} => down = << >> \/ Stale
  /\ client.at \in {"payload", "answer", "read"} => client.op \in Opcodes \cup {"DETAILS"}
  /\ client.at = "payload" => RequestOf(client.op) # "nothing"
  /\ client.at = "answer" =>
       down = << >> \/ Stale \/ Failure \/ \E n \in 0 .. MaxRecords : Answers(client.op, n)
  /\ client.at = "read" =>
       /\ client.left # 0
       /\ \A i \in DOMAIN down : down[i].type = AnswerOf(client.op)
       /\ surplus = 0 => Len(down) <= client.left
  /\ client.at \notin {"menu"} => client.said = "nothing"

-----------------------------------------------------------------------------
(* Both are up.                                                             *)

(* The server has seen the request, of so many pieces beyond the header, or *)
(* will find it where it looks for one.                                     *)
Asked(payloads) ==
  \/ client.op = "DETAILS" /\ Done("second") /\ DetailsSent /\ Len(up) = 1 + payloads
  \/ /\ client.op \in Opcodes
     /\ \/ Done("header") /\ Len(up) = 1 + payloads /\ up[1].op = client.op
        \/ Done("second") /\ CancelSent /\ Len(up) = 2 + payloads /\ up[2].op = client.op
  \/ client.op \in Opcodes /\ server.at = "handler" /\ server.op = client.op /\ Len(up) = payloads
  \/ client.op = "DETAILS" /\ server.at = "details" /\ Len(up) = payloads

Acting == server.at = "act" /\ server.op = client.op

(* The request is answered, or being answered.                              *)
Granted ==
  /\ up = << >> /\ server.did = "OK"
  /\ \/ server.at = "send" /\ server.op = client.op
     \/ server.at = After(client.op)
Refused == up = << >> /\ server.did = "ERROR" /\ server.at = "header"

(* So much of what was announced is still to be read.                       *)
Balance(left, received) ==
  /\ left <= received + server.left
  /\ server.left > 0 \/ surplus = 0 => left = received + server.left

Told ==
  /\ client.said = "done" => server.did = "OK"
  /\ client.said = "failed" =>
       \/ server.did = "ERROR"
       \/ client.op \in {"BOOKINGS_LIST_BY_TIME_RANGE", "BOOKINGS_LIST_BY_STATUS"}

RolesChange == {"LOGIN", "SIGNUP", "LOGOUT"}

(* Who the user is may have changed, and the answer says so.                *)
NewRole ==
  /\ client.op \notin RolesChange => crole = srole
  /\ client.op = "LOGOUT" => srole = "GUEST"
  /\ \A i \in DOMAIN down : down[i].type = "user" => down[i].role = srole

MenuInv ==
  /\ \/ Done("header") /\ up = << >> /\ Told
     \/ Done("second") /\ CancelSent /\ Len(up) = 1 /\ client.said = "nothing"
  /\ crole = srole

Waiting ==
  /\ Asked(IF RequestOf(client.op) = "nothing" THEN 0 ELSE 1) \/ Acting
  /\ down = << >> \/ Stale
  /\ crole = srole

AnswerInv ==
  \/ Waiting
  \/ Refused /\ Stale
  \/ Granted /\ Stale
  \/ Refused /\ Failure /\ crole = srole
  \/ /\ Granted /\ NewRole
     /\ \E n \in 0 .. MaxRecords : Answers(client.op, n) /\ Balance(n, Len(down) - 1)

BothInv ==
  /\ client.at = "menu" => MenuInv
  /\ client.at = "decide" => Done("second") /\ up = << >> /\ crole = srole
  /\ client.at = "payload" => Asked(0) /\ crole = srole
  /\ client.at = "answer" => AnswerInv
  /\ client.at = "read" => Granted /\ NewRole /\ Balance(client.left, Len(down))

InStep ==
  /\ Shapes
  /\ server.at # "invalid"
  /\ client.at = "rejected" => surplus > 0
  /\ ServerIsUp => UpInv
  /\ ClientIsUp => DownInv
  /\ ClientIsUp /\ ServerIsUp => BothInv

(* The two ends keep step, until a record nobody announced leads the client *)
(* astray.                                                                  *)
SessionInv == astray \in BOOLEAN /\ IF astray THEN Shapes /\ surplus > 0 ELSE InStep

=============================================================================
