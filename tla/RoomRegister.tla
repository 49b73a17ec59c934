---------------------------- MODULE RoomRegister ----------------------------
(***************************************************************************)
(* rooms.dat under the server's child processes.  Superusers create rooms, *)
(* everybody lists them, users pick one and book it: is_room_exists is     *)
(* asked when the room is picked, and once more when the details of the    *)
(* booking arrive.  A room is never removed, and every use of the file is  *)
(* under its lock (see RecordFile).                                        *)
(***************************************************************************)
EXTENDS Naturals, Sequences, Functions, FiniteSetsExt

CONSTANTS
  Procs,        \* the child processes
  Superusers,   \* those whose client is logged in as a superuser
  TypedNames,   \* the room names superusers type
  Sanitized,    \* what sanitize_string makes of a name
  NoName,       \* the empty name
  TypedRooms,   \* the room ids users type
  InitFiles,    \* what rooms.dat may hold when the server starts
  MaxRooms      \* bound: no create request once the file has that many

Names == DOMAIN Sanitized
Room == [room_id : Nat, room_name : Names]
StoredRoom == [room_id : Nat \ {0}, room_name : Names]

(* rooms.dat may be brought from elsewhere (README.md:110), gaps and all.   *)
ASSUME RoomAssumption ==
  /\ Superusers \subseteq Procs
  /\ TypedNames \subseteq Names /\ Sanitized \in [Names -> Names] /\ NoName \in Names
  /\ TypedRooms \subseteq Nat \ {0}
  /\ MaxRooms \in Nat
  /\ InitFiles \subseteq Seq(StoredRoom)
  /\ \A file \in InitFiles : \A i, j \in DOMAIN file :
       (\/ file[i].room_id = file[j].room_id
        \/ file[i].room_name = file[j].room_name) => i = j

VARIABLES
  rooms,      \* the records of rooms.dat
  lock, buf,  \* see RecordFile
  pc,         \* what each process is doing
  arg,        \* the name of the room it is to create, the room picked
  result,     \* the Room that create_room returns
  answer,     \* the last answer its client got
  told,       \* rooms a client was told it had created (history)
  listed,     \* ids of the rooms some client has been shown (history)
  booked      \* ids of the rooms in bookings.dat

vars == <<rooms, lock, buf, pc, arg, result, answer, told, listed, booked>>

File == INSTANCE RecordFile WITH file <- rooms, Holders <- Procs

NoRoom == [room_id |-> 0, room_name |-> NoName]
NoArg == NoRoom

Init ==
  /\ rooms \in InitFiles
  /\ File!FileInit
  /\ pc = [c \in Procs |-> "idle"]
  /\ arg = [c \in Procs |-> NoArg]
  /\ result = [c \in Procs |-> NoRoom]
  /\ answer = [c \in Procs |-> "none"]
  /\ told = {}
  /\ listed = {}
  /\ booked = {}

Goto(c, next) == pc' = [pc EXCEPT ![c] = next]
Forget(c) == arg' = [arg EXCEPT ![c] = NoArg]
Says(c, what) == answer' = [answer EXCEPT ![c] = what]

IdsOf(file) == {room.room_id : room \in Range(file)}

-----------------------------------------------------------------------------
(* create_room                                                              *)

CreateRequest(c) ==
  /\ pc[c] = "idle" /\ c \in Superusers
  /\ Len(rooms) < MaxRooms
  /\ \E name \in TypedNames :
       arg' = [arg EXCEPT ![c] = [NoArg EXCEPT !.room_name = name]]
  /\ Goto(c, "create")
  /\ Says(c, "none")
  /\ UNCHANGED <<rooms, lock, buf, result, told, listed, booked>>

(* Faulty variants: the name is compared before it is sanitized; ids are    *)
(* counted from 0; the greatest id is taken to be the number of records.    *)
SameSpelling(c) == \E room \in Range(rooms) : room.room_name = arg[c].room_name
ZeroBasedRoom(c) ==
  [room_id |-> Len(rooms), room_name |-> Sanitized[arg[c].room_name]]
CountAsId(file) == Len(file)

SameName(c) == \E room \in Range(rooms) : room.room_name = Sanitized[arg[c].room_name]

GreatestRoomId(file) == Max(IdsOf(file) \cup {0})

NewRoom(c) ==
  [room_id |-> GreatestRoomId(rooms) + 1, room_name |-> Sanitized[arg[c].room_name]]

CreateScan(c) ==
  /\ pc[c] = "create"
  /\ \/ /\ SameName(c)
        /\ File!LockAndScan(c, << >>)
        /\ result' = [result EXCEPT ![c] = NoRoom]
     \/ /\ ~SameName(c)
        /\ File!LockAndScan(c, << NewRoom(c) >>)
        /\ result' = [result EXCEPT ![c] = NewRoom(c)]
  /\ Goto(c, "store")
  /\ UNCHANGED <<arg, answer, told, listed, booked>>

CreateStore(c) ==
  /\ pc[c] = "store"
  /\ File!FlushAndUnlock(c)
  /\ Goto(c, "answer")
  /\ UNCHANGED <<arg, result, answer, told, listed, booked>>

(* handle_create_room tells a success from a failure by the name that comes *)
(* back.  Faulty variant: by its being the one that was typed.              *)
KeptSpelling(c) == result[c].room_id # 0 /\ result[c].room_name = arg[c].room_name

Succeeded(c) == result[c].room_name # NoName

CreateAnswer(c) ==
  /\ pc[c] = "answer"
  /\ Says(c, IF Succeeded(c) THEN "OK" ELSE "ERROR")
  /\ told' = told \cup {room \in {result[c]} : Succeeded(c)}
  /\ Goto(c, "idle") /\ Forget(c)
  /\ UNCHANGED <<rooms, lock, buf, result, listed, booked>>

-----------------------------------------------------------------------------
(* get_rooms_list copies the file under the read lock and sends it later.   *)
ListRooms(c) ==
  /\ pc[c] = "idle"
  /\ File!LockIsFree(c)
  /\ listed' = listed \cup IdsOf(rooms)
  /\ Says(c, "none")
  /\ UNCHANGED <<rooms, lock, buf, pc, arg, result, told, booked>>

(* Faulty variant: any id will do.                                          *)
AnyRoom(id) == id > 0

(* is_room_exists, twice in the making of a booking.                        *)
is_room_exists(id) == id \in IdsOf(rooms)

PickRoom(c) ==
  /\ pc[c] = "idle" /\ c \notin Superusers
  /\ File!LockIsFree(c)
  /\ \E id \in TypedRooms :
       \/ /\ is_room_exists(id)
          /\ arg' = [arg EXCEPT ![c] = [NoArg EXCEPT !.room_id = id]]
          /\ Goto(c, "picked") /\ Says(c, "none")
       \/ /\ ~is_room_exists(id)
          /\ UNCHANGED <<arg, pc>> /\ Says(c, "ERROR")
  /\ UNCHANGED <<rooms, lock, buf, result, told, listed, booked>>

BookRoom(c) ==
  /\ pc[c] = "picked"
  /\ File!LockIsFree(c)
  /\ booked' = booked \cup {id \in {arg[c].room_id} : is_room_exists(id)}
  /\ Says(c, IF is_room_exists(arg[c].room_id) THEN "OK" ELSE "ERROR")
  /\ Goto(c, "idle") /\ Forget(c)
  /\ UNCHANGED <<rooms, lock, buf, result, told, listed>>

CancelBooking(c) ==
  /\ pc[c] = "picked"
  /\ Goto(c, "idle") /\ Forget(c)
  /\ UNCHANGED <<rooms, lock, buf, result, answer, told, listed, booked>>

(* The process is killed; its user connects again.                          *)
Crash(c) ==
  /\ pc[c] # "idle"
  /\ File!Die(c)
  /\ Goto(c, "idle") /\ Forget(c)
  /\ result' = [result EXCEPT ![c] = NoRoom]
  /\ Says(c, "none")
  /\ UNCHANGED <<told, listed, booked>>

Create(c) == CreateScan(c) \/ CreateStore(c) \/ CreateAnswer(c)

Next ==
  \E c \in Procs :
    \/ CreateRequest(c) \/ Create(c) \/ ListRooms(c)
    \/ PickRoom(c) \/ BookRoom(c) \/ CancelBooking(c) \/ Crash(c)

Spec == Init /\ [][Next]_vars

(* A request that has arrived is handled (WF); a process that waits for a   *)
(* lock that becomes free again and again gets it (SF).                     *)
LiveSpec ==
  /\ Spec
  /\ \A c \in Procs :
       WF_vars(CreateStore(c)) /\ WF_vars(CreateAnswer(c)) /\ SF_vars(CreateScan(c))

-----------------------------------------------------------------------------
(* Properties.                                                              *)

(* Types of the file, of what each process holds and of what was answered.  *)
RoomsTypeOK ==
  /\ rooms \in Seq(StoredRoom)
  /\ lock \in [Procs -> {"none", "write"}]
  /\ buf \in [Procs -> Seq(StoredRoom)]
  /\ pc \in [Procs -> {"idle", "create", "store", "answer", "picked"}]
  /\ arg \in [Procs -> Room]
  /\ result \in [Procs -> Room]
  /\ answer \in [Procs -> {"none", "OK", "ERROR"}]
  /\ told \subseteq Room
  /\ listed \subseteq Nat
  /\ booked \subseteq Nat

(* No two rooms have one id or one name, however many superusers create     *)
(* rooms at once and however they spell them, also in a file with gaps.     *)
UniqueRooms ==
  \A i, j \in DOMAIN rooms :
    (\/ rooms[i].room_id = rooms[j].room_id
     \/ rooms[i].room_name = rooms[j].room_name) => i = j

(* A room whose creation was acknowledged stays, whatever process dies.     *)
ToldRoomsStay == told \subseteq Range(rooms)

(* A room that a listing has shown, or that a booking has been made for,    *)
(* exists: a user may pick it, and the second is_room_exists agrees with    *)
(* the first.                                                               *)
KnownRoomsExist ==
  /\ listed \cup booked \subseteq IdsOf(rooms)
  /\ \A c \in Procs : pc[c] = "picked" => is_room_exists(arg[c].room_id)

(* What the client prints for an ERROR, "Create room failed."               *)
(* (client_utils.c:248), is so: the room is not in the file, unless its name *)
(* is empty, in which case the room is stored and refused all the same.     *)
RefusalsAreTrue ==
  \A c \in Procs :
    answer[c] = "ERROR" /\ result[c] \in Range(rooms) => result[c].room_name = NoName

(* Every create request is answered, or its process dies.                   *)
CreatesEnd ==
  \A c \in Procs : pc[c] \in {"create", "store", "answer"} ~> pc[c] = "idle"

(* Whatever the processes do, rooms.dat is a register of names: first come, *)
(* first served, nothing lost, nothing changed.                             *)
EntriesOf(file) == [i \in DOMAIN file |-> <<file[i].room_name, file[i]>>]

RoomNames == INSTANCE Register WITH
  entries <- EntriesOf(rooms), open <- TRUE,
  FirstEntries <- {EntriesOf(file) : file \in InitFiles}

ImplementsRegister == RoomNames!RegSpec
=============================================================================
