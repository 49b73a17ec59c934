------------------------------ MODULE Session ------------------------------
(***************************************************************************)
(* One connection: a client (SessionClient), the process that serves it    *)
(* (SessionServer) and the two streams between them.  Either end may be    *)
(* killed at any point, the client's host may vanish without a word, and   *)
(* the user connects again after that.                                     *)
(***************************************************************************)
EXTENDS Protocol

CONSTANTS
  MaxRecords,    \* bound: records in a list
  MaxSurplus,    \* bound: records sent beyond those announced
  MaxUnread      \* bound: pieces unread when the user of a client astray asks for more

ASSUME SessionAssumption ==
  MaxRecords \in Nat \ {0} /\ MaxSurplus \in Nat /\ MaxUnread \in Nat

VARIABLES client, crole, astray, server, srole, surplus

clientVars == <<client, crole, astray>>
serverVars == <<server, srole, surplus>>
vars == <<up, down, client, crole, astray, server, srole, surplus>>

Client == INSTANCE SessionClient
Server == INSTANCE SessionServer

Init ==
  /\ up = << >> /\ down = << >>
  /\ Client!ClientInit
  /\ Server!ServerInit

ClientIsUp == client.at \notin Client!ClientEnds
ServerIsUp == server.at \notin Server!ServerEnds

-----------------------------------------------------------------------------
(* The ends of a connection.                                                *)

(* The user types -1.                                                       *)
Leave ==
  /\ client.at = "menu"
  /\ client' = [client EXCEPT !.at = "gone"]
  /\ UNCHANGED <<up, down, crole, astray, serverVars>>

KillClient ==
  /\ ClientIsUp
  /\ client' = [client EXCEPT !.at = "gone"]
  /\ Cut(up, up')
  /\ UNCHANGED <<down, crole, astray, serverVars>>

(* The client's host vanishes: nothing tells the server.                    *)
LoseHost ==
  /\ ClientIsUp
  /\ client' = [client EXCEPT !.at = "lost"]
  /\ Cut(up, up')
  /\ UNCHANGED <<down, crole, astray, serverVars>>

KillServer ==
  /\ ServerIsUp
  /\ server' = [server EXCEPT !.at = "killed"]
  /\ Cut(down, down')
  /\ UNCHANGED <<up, clientVars, srole, surplus>>

(* The stream ends before the client has read what it waits for.            *)
ClientReadsEnd ==
  /\ client.at \in {"answer", "read"} /\ Bytes(down) < Client!Awaited /\ ~ServerIsUp
  /\ client' = [client EXCEPT !.at = "cut"]
  /\ UNCHANGED <<up, down, crole, astray, serverVars>>

ServerIsReading == Bytes(up) < Server!Awaited

ServerStops ==
  /\ ServerIsReading
  /\ server' = [server EXCEPT !.at = IF server.at = "header" /\ up = << >> THEN "closed" ELSE "short"]
  /\ UNCHANGED <<up, down, clientVars, srole, surplus>>

(* Faulty variant: the option SO_KEEPALIVE is not set.                      *)
NoKeepAlive == client.at = "lost" /\ FALSE /\ UNCHANGED vars

ServerReadsEnd ==
  client.at \in Client!ClientEnds \ {"lost"} /\ ServerStops

(* Probes that nobody answers end the connection (server.c:65-78).          *)
KeepAlive == client.at = "lost" /\ ServerStops

(* The user starts the client again; the main process forks a new child.    *)
Reconnect ==
  /\ ~ClientIsUp /\ ~ServerIsUp
  /\ up' = << >> /\ down' = << >>
  /\ client' = [at |-> "menu", op |-> "none", left |-> 0, said |-> "nothing"]
  /\ crole' = "GUEST" /\ astray' = FALSE
  /\ server' = Server!Idle /\ srole' = "GUEST" /\ surplus' = 0

(* Bound: with a client astray the user asks for more once the server waits *)
(* for it and few pieces are unread.                                        *)
AsksInTime ==
  client.at = "menu" /\ astray =>
    up = << >> /\ Len(down) <= MaxUnread /\ (ServerIsUp => ServerIsReading)

ClientStep ==
  /\ Client!ClientNext /\ AsksInTime
  /\ UNCHANGED serverVars
ClientWorks == Client!ClientWorks /\ UNCHANGED serverVars
ServerStep == Server!ServerNext /\ UNCHANGED clientVars

Faults == Leave \/ KillClient \/ LoseHost \/ KillServer
Endings == ClientReadsEnd \/ ServerReadsEnd \/ KeepAlive

Next == ClientStep \/ ServerStep \/ Faults \/ Endings \/ Reconnect

Spec == Init /\ [][Next]_vars

(* Both processes run, the kernel delivers what was sent, ends of streams   *)
(* included, and probes a silent peer.  The user need not type anything.    *)
LiveSpec ==
  /\ Spec
  /\ WF_vars(ClientWorks) /\ WF_vars(ServerStep)
  /\ WF_vars(ClientReadsEnd) /\ WF_vars(ServerReadsEnd) /\ WF_vars(KeepAlive)

-----------------------------------------------------------------------------
(* Properties.                                                              *)

(* "DETAILS" is the second message of a booking; it travels as another      *)
(* CREATE_BOOKING.                                                          *)
Opcodes == GUEST_OPCODES \cup USER_OPCODES \cup SUPERUSER_OPCODES
Words == Opcodes \cup {"none", "UNKNOWN", "OK", "ERROR", "CANCEL", "DETAILS"}
Packet == [type : Types \cup {"header", "torn"}, op : Words, size : Nat, role : UserTypes]

SessionTypeOK ==
  /\ up \in Seq(Packet) /\ down \in Seq(Packet)
  /\ client.at \in Client!AtClient /\ client.left \in Nat /\ astray \in BOOLEAN
  /\ server.at \in Server!AtServer /\ server.size \in Nat /\ server.left \in 0 .. MaxRecords
  /\ crole \in UserTypes /\ srole \in UserTypes
  /\ surplus \in 0 .. MaxSurplus

(* The two ends agree on who the user is whenever the client waits for its  *)
(* user, also after a log-in or log-out was cut short and tried again.      *)
(* (This, and the next two, until the client goes astray: it has then taken *)
(* part of a record for an answer, and may take anything for the next.)     *)
Agreement ==
  client.at \in {"menu", "decide"} /\ ServerIsUp /\ ~astray => crole = srole

(* "The client is smart enough to check if you have the right permissions   *)
(* for a command before even sending it" (README.md:96): the server never   *)
(* has to refuse a request for its opcode.                                  *)
NeverRefused ==
  server.at = "header" /\ up # << >> /\ ~astray
    => Head(up).type = "header" /\ is_valid_opcode_for_user_by_type(Head(up).op, srole)

(* What the server reads next is what the client has sent next: headers are *)
(* read as headers, each payload by the handler it is meant for, whatever   *)
(* follows a cancellation or a refusal.                                     *)
RequestsAligned ==
  ~astray =>
    /\ server.at # "invalid"
    /\ up # << >> =>
         /\ server.at \in {"header", "second"} => Head(up).type = "header"
         /\ server.at = "second" => Head(up).op \in {"CANCEL", "CREATE_BOOKING"}
         /\ server.at = "handler" => SizeOf[Head(up).type] = server.size
         /\ server.at = "details" => Head(up).type = "booking"

(* Unless the server has sent records it had not announced, nothing of an   *)
(* answer is left over when the client goes on to something else, and it    *)
(* never finds an answer it did not expect.                                 *)
AnswersAligned ==
  surplus = 0 =>
    /\ client.at # "rejected" /\ ~astray
    /\ client.at \in {"menu", "payload", "decide"} => down = << >>

(* What the client tells its user is what the server has answered, "done"   *)
(* for OK and "failed" for ERROR, until it takes part of a record that was  *)
(* not announced for an answer: booking 201, say, for an ERROR to an order  *)
(* that was carried out (client_utils.c:947).  Records read as no answer at *)
(* all make it exit and tell nothing.  Two listings call an empty list a    *)
(* failure (client_utils.c:840, 887).                                       *)
ReportsAreTrue ==
  client.at = "menu" /\ ServerIsUp /\ ~astray =>
    /\ client.said = "done" => server.did = "OK"
    /\ client.said = "failed" =>
         \/ server.did = "ERROR"
         \/ client.op \in {"BOOKINGS_LIST_BY_TIME_RANGE", "BOOKINGS_LIST_BY_STATUS"}

(* Every request comes to an end at the client: an answer, or the end of    *)
(* the connection.  A client astray may wait for data that nobody sends.    *)
Pending == client.at \in {"payload", "answer", "read"}
RequestsEnd == Pending ~> ~Pending \/ astray

(* No server process stays behind when its client has gone, however that    *)
(* happened.                                                                *)
ProcessesEnd == ~ClientIsUp ~> ~ServerIsUp
=============================================================================
