--------------------------- MODULE BookingListing ---------------------------
(***************************************************************************)
(* The listings of bookings.dat, beside the operations that change it.  A  *)
(* process that lists counts the matching records under a read lock, gives *)
(* the lock back, announces so many records in the header, and sends them  *)
(* from a second scan under a second read lock, which it holds while       *)
(* send() waits for room in the socket.  The client reads the header, then *)
(* the announced number of records, then takes what follows for the next   *)
(* header.  Creating a booking begins with such a listing of the room.     *)
(* A single booking that is looked up by its id is read and sent at once.  *)
(***************************************************************************)
EXTENDS BookingStore, FiniteSets

CONSTANTS
  Stars,     \* the username of a masked record, "***": too short to be anyone's
  Queries,   \* what each client asks to list
  SockCap    \* bound: messages that fit in a socket

Kinds == {"mine", "pick", "room", "all", "username", "status", "range", "id"}

(* "names" are the usernames that contain the text the superuser typed.     *)
Query == [kind : Kinds, room : Nat, id : Nat, names : SUBSET Usernames,
          status : BookingStatus, from : Nat, to : Nat]

ASSUME ListingAssumption ==
  /\ Stars \notin Usernames \cup {NoName}
  /\ Queries \in [Procs -> SUBSET Query]
  /\ SockCap \in Nat \ {0}

NoQuery == [kind |-> "none"]

VARIABLES
  list,      \* the listing each process is at: its step, query, count announced, records
             \* sent, and the booking a lookup by id found
  wire,      \* messages from each process to its client
  client     \* what each client waits for: a header, or so many records

listVars == <<list, wire, client>>
allVars == <<vars, listVars>>

NoList == [step |-> "none", query |-> NoQuery, counted |-> 0, at |-> 1, sent |-> << >>,
           found |-> ZeroBooking]

ListInit ==
  /\ Init
  /\ list = [c \in Procs |-> NoList]
  /\ wire = [c \in Procs |-> << >>]
  /\ client = [c \in Procs |-> [waits |-> "nothing", left |-> 0]]

-----------------------------------------------------------------------------
(* The booking filters, one per kind of listing, and who may ask for it.    *)

IsSuperuser(c) == RoleOf[c] = "SUPERUSER"

MayAsk(c, kind) ==
  \/ kind = "room"
  \/ kind \in {"status", "range", "id"} /\ RoleOf[c] # "GUEST"
  \/ kind \in {"mine", "pick"} /\ RoleOf[c] = "USER"
  \/ kind \in {"all", "username"} /\ IsSuperuser(c)

FromCurrentTime(b) == ~is_booking_in_past(b, now)

match_by_any(c, q, b) == TRUE
match_by_username_from_current_time_substring(c, q, b) ==
  FromCurrentTime(b) /\ b.username \in q.names
match_by_username_from_current_time_exact(c, q, b) ==
  FromCurrentTime(b) /\ b.username = UserOf[c]
match_by_booking_id(q, b) == b.booking_id = q.id
match_by_room_id_from_current_time(c, q, b) ==
  FromCurrentTime(b) /\ b.room_id = q.room
match_by_room_id_from_current_time_not_rejected(c, q, b) ==
  FromCurrentTime(b) /\ b.status # REJECTED /\ b.room_id = q.room
match_by_status_from_current_time_superuser(c, q, b) ==
  FromCurrentTime(b) /\ b.status = q.status
match_by_status_from_current_time_user(c, q, b) ==
  FromCurrentTime(b) /\ b.username = UserOf[c] /\ b.status = q.status
match_by_time_range_superuser(c, q, b) ==
  is_in_same_time_slot(b.start_time, b.end_time, q.from, q.to)
match_by_time_range_user(c, q, b) ==
  match_by_time_range_superuser(c, q, b) /\ b.username = UserOf[c]

Matches(c, q, b) ==
  CASE q.kind = "mine"     -> match_by_username_from_current_time_exact(c, q, b)
    [] q.kind = "pick"     -> match_by_room_id_from_current_time_not_rejected(c, q, b)
    [] q.kind = "room"     -> match_by_room_id_from_current_time(c, q, b)
    [] q.kind = "all"      -> match_by_any(c, q, b)
    [] q.kind = "username" -> match_by_username_from_current_time_substring(c, q, b)
    [] q.kind = "status"   -> IF IsSuperuser(c)
                              THEN match_by_status_from_current_time_superuser(c, q, b)
                              ELSE match_by_status_from_current_time_user(c, q, b)
    [] q.kind = "range"    -> IF IsSuperuser(c) THEN match_by_time_range_superuser(c, q, b)
                              ELSE match_by_time_range_user(c, q, b)

(* Faulty variant: only the listing that begins a booking is masked.        *)
MasksPickOnly(c, q) == q.kind = "pick" /\ RoleOf[c] = "USER"

ShouldMask(c, q) == q.kind \in {"mine", "pick"} \/ (q.kind = "room" /\ ~IsSuperuser(c))

Shown(c, q, b) ==
  IF ShouldMask(c, q) /\ b.username # UserOf[c]
  THEN [b EXCEPT !.username = Stars, !.booking_id = 0]
  ELSE b

Header(n) == [kind |-> "header", count |-> n, booking |-> ZeroBooking]
Record(b) == [kind |-> "record", count |-> 0, booking |-> b]

-----------------------------------------------------------------------------
(* The process.                                                             *)

At(c, step) == list[c].step = step
Free(c) == pc[c] = "idle" /\ At(c, "none") /\ client[c].waits = "nothing"

HasRoom(q) == q.kind \in {"pick", "room"} => q.room \in Rooms

(* A room that does not exist is answered an ERROR: nothing is counted.     *)
FirstStep(q) ==
  IF q.kind = "id" THEN "lookup" ELSE IF HasRoom(q) THEN "count" ELSE "announce"

ListRequest(c) ==
  \E q \in Queries[c] :
    /\ Free(c) /\ MayAsk(c, q.kind)
    /\ list' = [list EXCEPT ![c] = [NoList EXCEPT !.step = FirstStep(q), !.query = q]]
    /\ client' = [client EXCEPT ![c] = [waits |-> "header", left |-> 0]]
    /\ UNCHANGED <<vars, wire>>

(* count_bookings_by_filter, under its own read lock.                       *)
Count(c) ==
  LET hits == {i \in DOMAIN bookings : Matches(c, list[c].query, bookings[i])}
  IN /\ At(c, "count") /\ CanLockReading(c)
     /\ list' = [list EXCEPT ![c].step = "announce", ![c].counted = Cardinality(hits)]
     /\ UNCHANGED <<vars, wire, client>>

Send(c, message) ==
  /\ Len(wire[c]) < SockCap
  /\ wire' = [wire EXCEPT ![c] = Append(@, message)]

(* An ERROR, a header without data, ends a request; else data follows.      *)
Announce(c) ==
  /\ At(c, "announce")
  /\ Send(c, Header(list[c].counted))
  /\ LET q == list[c].query
         lookup == q.kind = "id"
         fails == ~HasRoom(q) \/ (lookup /\ list[c].counted = 0)
     IN  list' = [list EXCEPT ![c] = IF fails THEN NoList
                                     ELSE [@ EXCEPT !.step = IF lookup THEN "found" ELSE "open"]]
  /\ UNCHANGED <<vars, client>>

(* The records still to be sent.                                            *)
NextMatches(c) ==
  {i \in DOMAIN bookings : i >= list[c].at /\ Matches(c, list[c].query, bookings[i])}

(* Faulty variants: the scan goes on without the lock; the process returns  *)
(* without giving its lock back.                                            *)
OpenUnlocked(c) ==
  /\ At(c, "open") /\ CanLockReading(c)
  /\ list' = [list EXCEPT ![c].step = "stream"]
  /\ UNCHANGED <<vars, wire, client>>
ListUnlockForgotten(c) ==
  /\ At(c, "stream") /\ NextMatches(c) = {}
  /\ list' = [list EXCEPT ![c].step = "sent"]
  /\ UNCHANGED <<vars, wire, client>>

(* send_bookings_by_filter: the lock, one send() per matching record, the   *)
(* unlock.                                                                  *)
LockReading(c) ==
  /\ At(c, "open") /\ CanLockReading(c)
  /\ lock' = [lock EXCEPT ![c] = "read"]
  /\ list' = [list EXCEPT ![c].step = "stream"]
  /\ UNCHANGED <<bookings, now, procVars, reply, crashes, wire, client>>

SendNext(c) ==
  /\ At(c, "stream")
  /\ \E i \in NextMatches(c) :
    LET shown == Shown(c, list[c].query, bookings[i])
    IN /\ \A j \in NextMatches(c) : i <= j
       /\ Send(c, Record(shown))
       /\ list' = [list EXCEPT ![c].at = i + 1,
                               ![c].sent = Append(@, [at |-> i, booking |-> shown])]
       /\ UNCHANGED <<vars, client>>

UnlockReading(c) ==
  /\ At(c, "stream") /\ NextMatches(c) = {}
  /\ lock' = [lock EXCEPT ![c] = "none"]
  /\ list' = [list EXCEPT ![c].step = "sent"]
  /\ UNCHANGED <<bookings, now, procVars, reply, crashes, wire, client>>

(* All announced records are sent: the next request, or the details of the  *)
(* booking to create.                                                       *)
FinishList(c) ==
  /\ At(c, "sent") /\ Len(list[c].sent) >= list[c].counted
  /\ list' = [list EXCEPT ![c] = IF list[c].query.kind = "pick"
                                 THEN [NoList EXCEPT !.step = "details"] ELSE NoList]
  /\ UNCHANGED <<vars, wire, client>>

(* handle_bookings_list_booking_id: the first record with that id, read     *)
(* under the lock, goes to its owner and to superusers; anyone else is      *)
(* answered an ERROR, which is a header without data as well.               *)
MayView(c, b) == b.booking_id > 0 /\ (IsSuperuser(c) \/ b.username = UserOf[c])

Lookup(c) ==
  LET i == FirstOf({j \in DOMAIN bookings : match_by_booking_id(list[c].query, bookings[j])})
  IN /\ At(c, "lookup") /\ CanLockReading(c)
     /\ \/ /\ i # 0 /\ MayView(c, bookings[i])
           /\ list' = [list EXCEPT ![c].step = "announce", ![c].counted = 1,
                                   ![c].found = bookings[i]]
        \/ /\ i # 0 => ~MayView(c, bookings[i])
           /\ list' = [list EXCEPT ![c].step = "announce"]
     /\ UNCHANGED <<vars, wire, client>>

SendFound(c) ==
  /\ At(c, "found")
  /\ Send(c, Record(list[c].found))
  /\ list' = [list EXCEPT ![c] = NoList]
  /\ UNCHANGED <<vars, client>>

(* The process ends, which releases its lock, and so does its client, which *)
(* reads the end of the stream: its user starts it anew, and it connects to *)
(* a new process.                                                           *)
NewConnection(c) ==
  /\ list' = [list EXCEPT ![c] = NoList]
  /\ wire' = [wire EXCEPT ![c] = << >>]
  /\ client' = [client EXCEPT ![c] = [waits |-> "nothing", left |-> 0]]
  /\ lock' = [lock EXCEPT ![c] = "none"]
  /\ reply' = [reply EXCEPT ![c] = NoReply]
  /\ UNCHANGED <<bookings, now, procVars, crashes>>

(* Fewer records than announced: the process exits.                         *)
ExitShort(c) ==
  /\ At(c, "sent") /\ Len(list[c].sent) < list[c].counted
  /\ NewConnection(c)

-----------------------------------------------------------------------------
(* The client.                                                              *)

Calm(n) == [waits |-> IF n = 0 THEN "nothing" ELSE "records", left |-> n]

ReadHeader(c) ==
  /\ client[c].waits = "header" /\ wire[c] # << >>
  /\ Head(wire[c]).kind = "header"
  /\ client' = [client EXCEPT ![c] = Calm(Head(wire[c]).count)]
  /\ wire' = [wire EXCEPT ![c] = Tail(@)]
  /\ UNCHANGED <<vars, list>>

ReadRecord(c) ==
  /\ client[c].waits = "records" /\ wire[c] # << >>
  /\ client' = [client EXCEPT ![c] = Calm(@.left - 1)]
  /\ wire' = [wire EXCEPT ![c] = Tail(@)]
  /\ UNCHANGED <<vars, list>>

(* The first bytes of a record are taken for a header; from then on the     *)
(* client and its process no longer agree where a message begins.           *)
Misread(c) ==
  /\ \/ client[c].waits = "header" /\ wire[c] # << >> /\ Head(wire[c]).kind = "record"
     \/ client[c].waits = "noise" /\ wire[c] # << >>
  /\ client' = [client EXCEPT ![c] = [waits |-> "noise", left |-> 0]]
  /\ wire' = [wire EXCEPT ![c] = Tail(@)]
  /\ UNCHANGED <<vars, list>>

(* It gives up.  Its process reads the end of the stream where it waits for *)
(* a request or for the details, and dies where it sends.                   *)
Restart(c) ==
  /\ client[c].waits = "noise"
  /\ list[c].step \in {"none", "details", "announce", "stream", "found"}
  /\ NewConnection(c)

(* The user who has seen the room's bookings enters the details or cancels. *)
Details(c) ==
  /\ At(c, "details") /\ client[c].waits = "nothing"
  /\ CreateRequest(c)
  /\ list' = [list EXCEPT ![c] = NoList]
  /\ UNCHANGED <<wire, client>>

Cancel(c) ==
  /\ At(c, "details") /\ client[c].waits = "nothing"
  /\ list' = [list EXCEPT ![c] = NoList]
  /\ UNCHANGED <<vars, wire, client>>

-----------------------------------------------------------------------------
StoreRequest(c) ==
  Free(c) /\ (ApproveRequest(c) \/ RejectRequest(c) \/ ForceRequest(c)) /\ UNCHANGED listVars

StoreStep(c) == (Waiting(c) \/ Working(c)) /\ UNCHANGED listVars

ListWaiting(c) == Count(c) \/ Lookup(c) \/ LockReading(c)
ListWorking(c) ==
  \/ Announce(c) \/ SendNext(c) \/ UnlockReading(c) \/ FinishList(c) \/ ExitShort(c)
  \/ SendFound(c)
ClientStep(c) == ReadHeader(c) \/ ReadRecord(c) \/ Misread(c)

ListNext ==
  \/ \E c \in Procs :
       \/ ListRequest(c) \/ Details(c) \/ Cancel(c) \/ StoreRequest(c) \/ StoreStep(c)
       \/ ListWaiting(c) \/ ListWorking(c) \/ ClientStep(c) \/ Restart(c)
  \/ Tick /\ UNCHANGED listVars

ListSpec == ListInit /\ [][ListNext]_allVars

(* The server's processes run and get their locks, as in BookingStore; the  *)
(* clients need not do anything ...                                         *)
ServerFair ==
  \A c \in Procs :
    /\ WF_allVars((Working(c) /\ UNCHANGED listVars) \/ ListWorking(c))
    /\ SF_allVars((Waiting(c) /\ UNCHANGED listVars) \/ ListWaiting(c))

StallingSpec == ListSpec /\ ServerFair

(* ... or they read what is sent to them.                                   *)
ReadingSpec == StallingSpec /\ \A c \in Procs : WF_allVars(ClientStep(c))

-----------------------------------------------------------------------------
(* Properties.                                                              *)

Steps == {"none", "count", "lookup", "announce", "open", "stream", "sent", "found", "details"}
Masked == [booking_id : {0}, room_id : Nat, username : {Stars},
           start_time : Nat, end_time : Nat, status : BookingStatus]
Message == [kind : {"header", "record"}, count : Nat, booking : Booking \cup Masked]

(* Types; and a process holds a read lock exactly while it streams, with at *)
(* most SockCap messages between it and its client.                         *)
ListTypeOK ==
  /\ TypeOK
  /\ \A c \in Procs :
       /\ list[c].step \in Steps
       /\ list[c].query \in Query \cup {NoQuery}
       /\ list[c].counted \in Nat /\ list[c].at \in Nat \ {0} /\ list[c].found \in Booking
       /\ wire[c] \in Seq(Message) /\ Len(wire[c]) <= SockCap
       /\ client[c].waits \in {"nothing", "header", "records", "noise"}
       /\ client[c].left \in Nat
       /\ lock[c] = "read" <=> At(c, "stream")

(* A listing is a picture of one moment: whatever other processes do while  *)
(* records are being sent, those already sent still are what the file says. *)
ListingIsSnapshot ==
  \A c \in Procs : At(c, "stream") =>
    \A k \in DOMAIN list[c].sent :
      LET sent == list[c].sent[k]
      IN  /\ sent.at \in DOMAIN bookings
          /\ sent.booking = Shown(c, list[c].query, bookings[sent.at])

(* Privacy: no message to someone who is not a superuser names another user *)
(* or identifies another user's booking.                                    *)
OwnBookingsOnly ==
  \A c \in Procs : ~IsSuperuser(c) =>
    \A k \in DOMAIN wire[c] :
      LET m == wire[c][k]
      IN  m.kind = "record" =>
            \/ m.booking.username = UserOf[c]
            \/ m.booking.username = Stars /\ m.booking.booking_id = 0

(* Every message is its header followed by as much data as the header says: *)
(* a client never finds a record where a message begins.                    *)
WellFramed == \A c \in Procs : client[c].waits # "noise"

(* A client has read all that was announced to it, the socket is full of    *)
(* records it does not know of, and its process has more of them: it waits  *)
(* in send(), with the read lock, for a client that waits for nothing.      *)
Overflows(c) ==
  /\ At(c, "stream") /\ NextMatches(c) # {}
  /\ client[c].waits = "nothing" /\ Len(wire[c]) = SockCap

(* Whoever asks for something, a listing or a change, is served, as long as *)
(* the others read what they asked for, unless so many records are created  *)
(* between a count and a sending that a socket does not take those in       *)
(* excess.                                                                  *)
Busy(c) == pc[c] # "idle" \/ list[c].step \notin {"none", "details"}
EverybodyServed == \A c \in Procs : Busy(c) ~> ~Busy(c) \/ \E d \in Procs : Overflows(d)

=============================================================================
