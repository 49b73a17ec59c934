---------------------------- MODULE BookingStore ----------------------------
(***************************************************************************)
(* bookings.dat under the server's child processes.  Every connected       *)
(* client is served by one process (server_child), which handles one       *)
(* request at a time; the processes share nothing but the files, which     *)
(* they guard with fcntl() locks.  This module has the four operations     *)
(* that change bookings.dat: create, approve, reject and force.            *)
(*                                                                         *)
(* A step is what one process does between two points at which another     *)
(* process, or its own death, can tell the difference: taking the lock, a  *)
(* scan of the file under a lock, one write(2) to the file, the unlock,    *)
(* the reply.  Records go through a stdio buffer: fwrite() fills it, and   *)
(* the record reaches the file at the next fread(), fseek() or fflush(),   *)
(* or never if the process dies first.                                     *)
(***************************************************************************)
EXTENDS BookingRecords

CONSTANTS
  Procs,          \* the child processes
  UserOf, RoleOf, \* the username and the role each process is logged in with
  Rooms,          \* the rooms of rooms.dat
  TypedRooms,     \* room ids a user may type
  Intervals,      \* <<start, end>> pairs a client may ask for
  TypedIds,       \* booking ids a superuser may type (never 0: the client refuses it)
  Ops,            \* the operations clients ask for, among Operations
  Approvable,     \* a superuser approves only bookings whose status is in Approvable
  WireForms,      \* how the client fills in the booking it wants approved
  InitFiles,      \* contents bookings.dat may have when the server starts
  StartTime,      \* the clock when it does; bookings may have ended by then
  MaxBookings,    \* bound: no create request once the file has that many records
  MaxTime,        \* bound: the clock stops there
  MaxCrashes      \* bound: how many processes may die in the middle of a request

Operations == {"create", "approve", "reject", "force"}

ASSUME StoreAssumption ==
  /\ UserOf \in [Procs -> Usernames]
  /\ RoleOf \in [Procs -> {"GUEST", "USER", "SUPERUSER"}]
  /\ Rooms \subseteq Nat /\ TypedRooms \subseteq Nat
  /\ Intervals \subseteq Nat \X Nat
  /\ TypedIds \subseteq 1 .. IdLimit - 1
  /\ Ops \subseteq Operations
  /\ Approvable \subseteq BookingStatus
  /\ WireForms \subseteq {"blank", "full"}
  /\ InitFiles \subseteq Seq(Booking)
  /\ \A file \in InitFiles : \A i, j \in DOMAIN file :
       file[i].booking_id = file[j].booking_id => i = j
  /\ StartTime \in Nat
  /\ MaxBookings \in Nat /\ MaxTime \in Nat /\ MaxCrashes \in Nat

VARIABLES
  bookings,  \* the records of bookings.dat
  now,       \* the clock
  lock,      \* fcntl lock each process holds on bookings.dat
  op,        \* operation each process is handling
  pc,        \* where in that operation it is
  arg,       \* its Booking argument (new_booking, booking_to_approve, ...)
  found,     \* a Booking it read, or the one it is going to return
  pos,       \* record it reads next in approve_booking's second loop
  wbuf,      \* the record in its stdio buffer that is not in the file yet
  reply,     \* the last answer it sent to its client
  crashes    \* how many processes have died so far

procVars == <<op, pc, arg, found, pos, wbuf>>
vars == <<bookings, now, lock, op, pc, arg, found, pos, wbuf, reply, crashes>>

(* A buffered write: none, at the end (fopen mode "ab+"), or over the      *)
(* record at position "at" (mode "rb+").                                   *)
NoWrite == [mode |-> "none", at |-> 0, rec |-> ZeroBooking]
AppendOf(rec) == [mode |-> "append", at |-> 0, rec |-> rec]

(* Faulty variant: no fseek() back over the record just read.               *)
OverwriteNext(at, rec) == [mode |-> "over", at |-> at + 1, rec |-> rec]

Overwrite(at, rec) == [mode |-> "over", at |-> at, rec |-> rec]

(* Faulty variant: create opens the file "wb+" and truncates it.            *)
TruncatingWritten(file, w) ==
  IF w.mode = "append" THEN << w.rec >>
  ELSE [i \in DOMAIN file |-> IF w.mode = "over" /\ i = w.at THEN w.rec ELSE file[i]]

Written(file, w) ==
  CASE w.mode = "none"   -> file
    [] w.mode = "append" -> Append(file, w.rec)
    [] w.mode = "over"   -> [file EXCEPT ![w.at] = w.rec]

NoReply == [op |-> "none", ok |-> FALSE, booking |-> ZeroBooking]

Init ==
  /\ bookings \in InitFiles
  /\ now = StartTime
  /\ lock = [c \in Procs |-> "none"]
  /\ op = [c \in Procs |-> "none"]
  /\ pc = [c \in Procs |-> "idle"]
  /\ arg = [c \in Procs |-> ZeroBooking]
  /\ found = [c \in Procs |-> ZeroBooking]
  /\ pos = [c \in Procs |-> 1]
  /\ wbuf = [c \in Procs |-> NoWrite]
  /\ reply = [c \in Procs |-> NoReply]
  /\ crashes = 0

-----------------------------------------------------------------------------
(* Requests.  A process takes its client's next request when it is idle.    *)

Receive(c, operation, booking, next) ==
  /\ pc[c] = "idle"
  /\ operation \in Ops
  /\ op' = [op EXCEPT ![c] = operation]
  /\ arg' = [arg EXCEPT ![c] = booking]
  /\ pc' = [pc EXCEPT ![c] = next]
  /\ reply' = [reply EXCEPT ![c] = NoReply]
  /\ UNCHANGED <<bookings, now, lock, found, pos, wbuf, crashes>>

(* The booking details arrive and the checks create_booking makes before    *)
(* it opens the file.  The server fills in the username; ids and status     *)
(* are zero in what the client sends.                                       *)
NewBooking(c, room, interval) ==
  [ZeroBooking EXCEPT !.room_id = room, !.username = UserOf[c],
                      !.start_time = interval[1], !.end_time = interval[2]]

CreateRequest(c) ==
  \E room \in TypedRooms, interval \in Intervals :
    /\ RoleOf[c] = "USER"
    /\ Len(bookings) < MaxBookings
    /\ Receive(c, "create", NewBooking(c, room, interval),
               IF /\ room \in Rooms
                  /\ is_booking_respects_time_requirements(NewBooking(c, room, interval), now)
               THEN "lock" ELSE "reply")

(* The superuser types an id; the shipped client sends a Booking that is    *)
(* zero but for the id ("blank").  A client that sends back the record it   *)
(* listed is "full": the conflict test of approve_booking is meant for it.  *)
IdOnly(id) == [ZeroBooking EXCEPT !.booking_id = id]

Wires(id) ==
  {IdOnly(id) : form \in WireForms \cap {"blank"}}
    \cup {b \in Range(bookings) : b.booking_id = id /\ "full" \in WireForms}

ApproveRequest(c) ==
  \E id \in TypedIds : \E booking \in Wires(id) :
    /\ RoleOf[c] = "SUPERUSER"
    /\ \A b \in Range(bookings) : b.booking_id = id => b.status \in Approvable
    /\ Receive(c, "approve", booking, "find")

RejectRequest(c) ==
  \E id \in TypedIds :
    /\ RoleOf[c] = "SUPERUSER"
    /\ Receive(c, "reject", IdOnly(id), "lock")

ForceRequest(c) ==
  \E id \in TypedIds, status \in BookingStatus :
    /\ RoleOf[c] = "SUPERUSER"
    /\ Receive(c, "force", WithStatus(IdOnly(id), status), "lock")

-----------------------------------------------------------------------------
(* The file lock of fcntl(F_SETLKW): many readers or one writer.  A         *)
(* read-locked scan that nothing can interrupt visibly is one step.         *)

(* Faulty variant: a write lock that excludes nobody.                       *)
WritesAtWill(c) == c \in Procs

CanLockReading(c) == \A d \in Procs \ {c} : lock[d] # "write"
CanLockWriting(c) == \A d \in Procs \ {c} : lock[d] = "none"

(* The record that match_by_booking_id finds first.                         *)
Named(id) == FirstOf({i \in DOMAIN bookings : bookings[i].booking_id = id})

(* approve_booking, first part: find the booking under a read lock, give    *)
(* the lock back, and look at the clock.                                    *)
FindBooking(c) ==
  LET i == Named(arg[c].booking_id)
  IN /\ pc[c] = "find"
     /\ CanLockReading(c)
     /\ \/ /\ i # 0
           /\ ~is_booking_in_past(bookings[i], now)
           /\ found' = [found EXCEPT ![c] = bookings[i]]
           /\ pc' = [pc EXCEPT ![c] = "lock"]
        \/ /\ i # 0 => is_booking_in_past(bookings[i], now)
           /\ pc' = [pc EXCEPT ![c] = "reply"]
           /\ UNCHANGED found
     /\ UNCHANGED <<bookings, now, lock, op, arg, pos, wbuf, reply, crashes>>

LockWriting(c) ==
  /\ pc[c] = "lock"
  /\ CanLockWriting(c)
  /\ lock' = [lock EXCEPT ![c] = "write"]
  /\ pc' = [pc EXCEPT ![c] = "scan"]
  /\ UNCHANGED <<bookings, now, op, arg, found, pos, wbuf, reply, crashes>>

-----------------------------------------------------------------------------
(* Under the write lock.  Each operation scans the file; what it writes     *)
(* goes to the stdio buffer, what it will return to "found".                *)

Scanned(c, w, result, next) ==
  /\ wbuf' = [wbuf EXCEPT ![c] = w]
  /\ found' = [found EXCEPT ![c] = result]
  /\ pc' = [pc EXCEPT ![c] = next]

CreateScan(c) ==
  LET created == [WithStatus(arg[c], PENDING) EXCEPT !.booking_id = NextId(bookings)]
      conflict == \E i \in DOMAIN bookings : is_booking_conflict(bookings[i], arg[c])
  IN /\ pc[c] = "scan" /\ op[c] = "create"
     /\ \/ conflict /\ Scanned(c, NoWrite, ZeroBooking, "unlock")
        \/ ~conflict /\ Scanned(c, AppendOf(created), created, "flush")
     /\ UNCHANGED <<bookings, now, lock, op, arg, pos, reply, crashes>>

(* reject_booking changes the first pending record with that id that is     *)
(* not in the past; force_booking_status the first record with that id.     *)
UpdateStatus(c, operation, i, status) ==
  /\ pc[c] = "scan" /\ op[c] = operation
  /\ \/ /\ i # 0
        /\ LET updated == WithStatus(bookings[i], status)
           IN  Scanned(c, Overwrite(i, updated), updated, "flush")
     \/ /\ i = 0
        /\ Scanned(c, NoWrite, ZeroBooking, "unlock")
  /\ UNCHANGED <<bookings, now, lock, op, arg, pos, reply, crashes>>

(* Faulty variant: rejects whatever the status of the booking.              *)
RejectAnyScan(c) ==
  UpdateStatus(c, "reject", Named(arg[c].booking_id), REJECTED)

RejectScan(c) ==
  LET rejectable == {i \in DOMAIN bookings :
                       /\ bookings[i].booking_id = arg[c].booking_id
                       /\ bookings[i].status = PENDING
                       /\ ~is_booking_in_past(bookings[i], now)}
  IN  UpdateStatus(c, "reject", FirstOf(rejectable), REJECTED)

ForceScan(c) == UpdateStatus(c, "force", Named(arg[c].booking_id), arg[c].status)

(* approve_booking, second part.  The conflict test is made on the record   *)
(* the client sent.  When a conflict is found the record just read, which   *)
(* is the conflicting one, is overwritten with the booking that was to be   *)
(* approved, rejected.                                                      *)
(* Faulty variant: no conflict test.                                        *)
NoConflictTest(c) == 0 * pos[c]

ConflictWithWire(c) ==
  FirstOf({i \in DOMAIN bookings : /\ is_booking_conflict(bookings[i], arg[c])
                                   /\ bookings[i].booking_id # arg[c].booking_id})

ApproveConflict(c) ==
  /\ pc[c] = "scan" /\ op[c] = "approve"
  /\ ConflictWithWire(c) # 0
  /\ Scanned(c, Overwrite(ConflictWithWire(c), WithStatus(found[c], REJECTED)),
             ZeroBooking, "flush")
  /\ UNCHANGED <<bookings, now, lock, op, arg, pos, reply, crashes>>

(* Faulty variant: the rewriting begins at the second record.               *)
ApproveFromSecond(c) ==
  /\ pc[c] = "scan" /\ op[c] = "approve"
  /\ ConflictWithWire(c) = 0
  /\ arg' = [arg EXCEPT ![c] = WithStatus(found[c], APPROVED)]
  /\ pos' = [pos EXCEPT ![c] = 2]
  /\ Scanned(c, NoWrite, ZeroBooking, "rewrite")
  /\ UNCHANGED <<bookings, now, lock, op, reply, crashes>>

(* No conflict: from here on "arg" is the record that was found before the  *)
(* lock was taken, approved, and the file is rewritten record by record.    *)
ApproveStart(c) ==
  /\ pc[c] = "scan" /\ op[c] = "approve"
  /\ ConflictWithWire(c) = 0
  /\ arg' = [arg EXCEPT ![c] = WithStatus(found[c], APPROVED)]
  /\ pos' = [pos EXCEPT ![c] = 1]
  /\ Scanned(c, NoWrite, ZeroBooking, "rewrite")
  /\ UNCHANGED <<bookings, now, lock, op, reply, crashes>>

(* Faulty variants: the rejected ones are those of the same user only, or   *)
(* those requested after the approved one only.                             *)
LosesToOwner(booking, target) ==
  Overlap(booking, target) /\ booking.status = PENDING /\ booking.username = target.username
LosesToEarlier(booking, target) ==
  Overlap(booking, target) /\ booking.status = PENDING /\ booking.booking_id > target.booking_id

(* A pending booking that stands in the way of the approved one is rejected.*)
Loses(booking, target) ==
  is_booking_conflict(booking, target) /\ booking.status = PENDING

(* One round of the loop: the read that starts it first puts the record     *)
(* buffered by the round before into the file.                              *)
ApproveNext(c) ==
  LET file == Written(bookings, wbuf[c])
      booking == file[pos[c]]
      target == arg[c]
      here == booking.booking_id = target.booking_id
  IN /\ pc[c] = "rewrite"
     /\ pos[c] <= Len(file)
     /\ bookings' = file
     /\ pos' = [pos EXCEPT ![c] = @ + 1]
     /\ \/ /\ here
           /\ Scanned(c, Overwrite(pos[c], target), target, "rewrite")
        \/ /\ ~here /\ Loses(booking, target)
           /\ Scanned(c, Overwrite(pos[c], WithStatus(booking, REJECTED)), found[c], "rewrite")
        \/ /\ ~here /\ ~Loses(booking, target)
           /\ Scanned(c, NoWrite, found[c], "rewrite")
     /\ UNCHANGED <<now, lock, op, arg, reply, crashes>>

(* Faulty variant: what the last round buffered never reaches the file.     *)
ApproveEndUnflushed(c) ==
  /\ pc[c] = "rewrite"
  /\ pos[c] > Len(bookings)
  /\ Scanned(c, NoWrite, found[c], "unlock")
  /\ UNCHANGED <<bookings, now, lock, op, arg, pos, reply, crashes>>

(* The read that hits the end of the file ends the loop.                    *)
ApproveEnd(c) ==
  LET file == Written(bookings, wbuf[c])
  IN /\ pc[c] = "rewrite"
     /\ pos[c] > Len(file)
     /\ bookings' = file
     /\ Scanned(c, NoWrite, found[c], "unlock")
     /\ UNCHANGED <<now, lock, op, arg, pos, reply, crashes>>

(* Faulty variants: unlocks without fflush(); returns without unlocking.    *)
FlushForgotten(c) ==
  /\ pc[c] = "flush"
  /\ wbuf' = [wbuf EXCEPT ![c] = NoWrite]
  /\ pc' = [pc EXCEPT ![c] = "unlock"]
  /\ UNCHANGED <<bookings, now, lock, op, arg, found, pos, reply, crashes>>
UnlockForgotten(c) ==
  /\ pc[c] = "unlock"
  /\ pc' = [pc EXCEPT ![c] = "reply"]
  /\ UNCHANGED <<bookings, now, lock, op, arg, found, pos, wbuf, reply, crashes>>

(* unlock_writing_for_file: fflush, then F_UNLCK.                           *)
Flush(c) ==
  /\ pc[c] = "flush"
  /\ bookings' = Written(bookings, wbuf[c])
  /\ wbuf' = [wbuf EXCEPT ![c] = NoWrite]
  /\ pc' = [pc EXCEPT ![c] = "unlock"]
  /\ UNCHANGED <<now, lock, op, arg, found, pos, reply, crashes>>

Unlock(c) ==
  /\ pc[c] = "unlock"
  /\ lock' = [lock EXCEPT ![c] = "none"]
  /\ pc' = [pc EXCEPT ![c] = "reply"]
  /\ UNCHANGED <<bookings, now, op, arg, found, pos, wbuf, reply, crashes>>

-----------------------------------------------------------------------------
(* The process forgets its locals and waits for the next request.           *)
Forget(c) ==
  /\ op' = [op EXCEPT ![c] = "none"]
  /\ pc' = [pc EXCEPT ![c] = "idle"]
  /\ arg' = [arg EXCEPT ![c] = ZeroBooking]
  /\ found' = [found EXCEPT ![c] = ZeroBooking]
  /\ pos' = [pos EXCEPT ![c] = 1]
  /\ wbuf' = [wbuf EXCEPT ![c] = NoWrite]

(* OPCODE_OK with the record, or OPCODE_ERROR when its id is not positive.  *)
Reply(c) ==
  /\ pc[c] = "reply"
  /\ reply' = [reply EXCEPT ![c] = [op |-> op[c],
                                    ok |-> found[c].booking_id > 0,
                                    booking |-> found[c]]]
  /\ Forget(c)
  /\ UNCHANGED <<bookings, now, lock, crashes>>

(* The process dies in the middle of a request (Ctrl-C on the server's      *)
(* terminal reaches every child): the kernel releases its lock, the record  *)
(* in its buffer is lost.  Its client connects again and gets a new one.    *)
Crash(c) ==
  /\ pc[c] # "idle"
  /\ crashes < MaxCrashes
  /\ crashes' = crashes + 1
  /\ lock' = [lock EXCEPT ![c] = "none"]
  /\ reply' = [reply EXCEPT ![c] = NoReply]
  /\ Forget(c)
  /\ UNCHANGED <<bookings, now>>

Tick ==
  /\ now < MaxTime
  /\ now' = now + 1
  /\ UNCHANGED <<bookings, lock, procVars, reply, crashes>>

-----------------------------------------------------------------------------
Request(c) ==
  CreateRequest(c) \/ ApproveRequest(c) \/ RejectRequest(c) \/ ForceRequest(c)

(* Steps that wait for another process, and steps that do not.              *)
Waiting(c) == FindBooking(c) \/ LockWriting(c)
Working(c) ==
  \/ CreateScan(c) \/ RejectScan(c) \/ ForceScan(c)
  \/ ApproveConflict(c) \/ ApproveStart(c) \/ ApproveNext(c) \/ ApproveEnd(c)
  \/ Flush(c) \/ Unlock(c) \/ Reply(c)

Next ==
  \/ \E c \in Procs : Request(c) \/ Waiting(c) \/ Working(c) \/ Crash(c)
  \/ Tick

Spec == Init /\ [][Next]_vars

(* The scheduler runs every process (WF); the kernel grants a lock that is  *)
(* free again and again to a process that waits for it (SF).  Clients need  *)
(* not ask for anything.                                                    *)
LiveSpec == Spec /\ \A c \in Procs : WF_vars(Working(c)) /\ SF_vars(Waiting(c))

-----------------------------------------------------------------------------
(* Properties.                                                              *)

Phases == {"idle", "find", "lock", "scan", "rewrite", "flush", "unlock", "reply"}
Write == [mode : {"none", "append", "over"}, at : Nat, rec : Booking]
Answer == [op : Operations \cup {"none"}, ok : BOOLEAN, booking : Booking]

(* Types, and the places a process can hold a lock or a buffered record at. *)
TypeOK ==
  /\ bookings \in Seq(Booking)
  /\ now \in Nat
  /\ lock \in [Procs -> {"none", "read", "write"}]
  /\ op \in [Procs -> Operations \cup {"none"}]
  /\ pc \in [Procs -> Phases]
  /\ arg \in [Procs -> Booking]
  /\ found \in [Procs -> Booking]
  /\ pos \in [Procs -> Nat \ {0}]
  /\ wbuf \in [Procs -> Write]
  /\ reply \in [Procs -> Answer]
  /\ crashes \in Nat

(* Two bookings never have the same id, however many processes create at    *)
(* once: an id is chosen and its record appended under one write lock.      *)
(* (0, the id of no booking, can be stored by a create that wraps around.)  *)
UniqueIds ==
  \A i, j \in DOMAIN bookings :
    bookings[i].booking_id = bookings[j].booking_id =>
      i = j \/ bookings[i].booking_id = 0

(* A record is never lost, moved or turned into another booking's: whatever *)
(* the processes do, and wherever one dies, only the status of a record     *)
(* that is in the file ever changes.                                        *)
RecordsKept ==
  [][/\ Len(bookings) <= Len(bookings')
     /\ \A i \in DOMAIN bookings : SameBooking(bookings[i], bookings'[i])]_bookings

(* What a client was told was done is in the file, even if processes died:  *)
(* the booking that an OK reply carries is there, whatever became of its    *)
(* status.                                                                  *)
AckedStored ==
  \A c \in Procs : reply[c].ok =>
    \E b \in Range(bookings) : SameBooking(b, reply[c].booking)

(* ... and as long as it is the only superuser, with the status it was told.*)
AckedDecision ==
  \A c \in Procs :
    /\ RoleOf[c] = "SUPERUSER"
    /\ \A d \in Procs \ {c} : RoleOf[d] # "SUPERUSER"
    /\ reply[c].ok
    => reply[c].booking \in Range(bookings)

(* No room is promised twice: two approved bookings never overlap.          *)
NoDoubleBooking ==
  \A i, j \in DOMAIN bookings :
    /\ i # j
    /\ bookings[i].status = APPROVED /\ bookings[j].status = APPROVED
    => ~Overlap(bookings[i], bookings[j])

(* ... where clients send back the whole record they listed, which makes    *)
(* the conflict test effective, approved bookings that overlap are copies   *)
(* of one booking, which a conflict branch has stored over another: however *)
(* many superusers decide at once, a slot never goes to two bookings.  (Not *)
(* where they approve rejected bookings, which conflict with nothing, nor   *)
(* where users book meanwhile and the id of a lost record is given anew.)   *)
NoRivalsApproved ==
  \A i, j \in DOMAIN bookings :
    /\ bookings[i].status = APPROVED /\ bookings[j].status = APPROVED
    /\ Overlap(bookings[i], bookings[j])
    => SameBooking(bookings[i], bookings[j])

(* An approval settles its slot: when nobody is writing, no pending booking *)
(* overlaps an approved one.                                                *)
SettledBookings ==
  (\A c \in Procs : lock[c] # "write") =>
    \A i, j \in DOMAIN bookings :
      bookings[i].status = APPROVED /\ bookings[j].status = PENDING =>
        ~Overlap(bookings[i], bookings[j])

(* A user does not hold one slot twice, even through several sessions that  *)
(* book at the same time.                                                   *)
NoSelfOverlap ==
  \A i, j \in DOMAIN bookings :
    /\ i # j
    /\ bookings[i].username = bookings[j].username
    /\ bookings[i].status # REJECTED /\ bookings[j].status # REJECTED
    => ~Overlap(bookings[i], bookings[j])

(* A decision is final (where nobody forces one): the status of a booking   *)
(* changes only from pending.                                               *)
DecisionsFinal ==
  [][\A i \in DOMAIN bookings \cap DOMAIN bookings' :
       bookings[i].status # PENDING => bookings'[i].status = bookings[i].status]_bookings

(* Every request is answered: no process is stuck behind a lock that is     *)
(* never given back.                                                        *)
EveryRequestAnswered == \A c \in Procs : pc[c] # "idle" ~> pc[c] = "idle"

-----------------------------------------------------------------------------
(* The store implements the ledger.  An operation takes place when its      *)
(* record reaches the file; an approval, which reaches it record by record, *)
(* when its rewriting begins: from then on the lock hides the difference.   *)
Approving(c) == pc[c] = "rewrite"
Target == arg[CHOOSE c \in Procs : Approving(c)]

Decided(target, b) ==
  IF b.booking_id = target.booking_id THEN target
  ELSE IF b.status = PENDING /\ Overlap(b, target) THEN WithStatus(b, REJECTED)
  ELSE b

LedgerOf ==
  IF \E c \in Procs : Approving(c)
  THEN [i \in DOMAIN bookings |-> Decided(Target, bookings[i])]
  ELSE bookings

TheLedger == INSTANCE Ledger WITH
  ledger <- LedgerOf, FirstLedgers <- InitFiles, CanForce <- "force" \in Ops

(* Every step of the processes is a step of the ledger, or none: creations, *)
(* approvals, rejections and forced statuses of concurrent processes take   *)
(* place one after the other.                                               *)
ImplementsLedger == TheLedger!LedgerSpec

=============================================================================
