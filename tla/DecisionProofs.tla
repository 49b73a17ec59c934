--------------------------- MODULE DecisionProofs ---------------------------
(***************************************************************************)
(* The store implements the ledger, and its decisions stand: WorkInv is    *)
(* inductive beside StoreInv, every step maps to a step of Ledger or to    *)
(* none, and under the discipline of DecisionInvariant no room is promised *)
(* twice, for any number of processes, rooms and bookings.                 *)
(***************************************************************************)
EXTENDS DecisionInvariant, StoreInvariantProofs

-----------------------------------------------------------------------------
(* What a step of process c leaves to the others.                           *)

MovesAlone(c) == OnlyMoves(c) /\ \A d \in Procs \ {c} : pos'[d] = pos[d]

Writes(c) == Holding(c) /\ bookings' = Written(bookings, wbuf[c])

(* Only superusers overwrite.                                               *)
LEMMA UsersAppend ==
  ASSUME StoreInv, NEW c \in Procs, WorkOf(c), RoleOf[c] # "SUPERUSER",
         NEW i \in DOMAIN bookings
  PROVE  i \in DOMAIN Written(bookings, wbuf[c]) /\ Written(bookings, wbuf[c])[i] = bookings[i]
<1>1. /\ bookings \in Seq(Booking) /\ wbuf[c].rec \in Booking
      /\ wbuf[c].mode \in {"none", "append", "over"}
  BY DEF StoreInv, TypeOK, Write
<1>2. wbuf[c].mode # "over"
  <2>1. BufferInv(c) /\ ApprovalInv(c)
    BY DEF StoreInv
  <2> QED BY <2>1 DEF BufferInv, ApprovalInv, WorkOf, RoleInv, UpdateInv
<1>3. CASE wbuf[c].mode = "none"
  BY <1>3 DEF Written
<1>4. CASE wbuf[c].mode = "append"
  <2>1. Written(bookings, wbuf[c]) = Append(bookings, wbuf[c].rec)
    BY <1>4 DEF Written
  <2> QED BY <1>1, <2>1
<1> QED BY <1>1, <1>2, <1>3, <1>4

LEMMA OthersWork ==
  ASSUME StoreInv, WorkInv, NEW c \in Procs, NEW d \in Procs \ {c}, MovesAlone(c),
         bookings' = bookings \/ Writes(c)
  PROVE  WorkOf(d)'
<1>1. /\ op'[d] = op[d] /\ pc'[d] = pc[d] /\ arg'[d] = arg[d] /\ pos'[d] = pos[d]
      /\ found'[d] = found[d] /\ wbuf'[d] = wbuf[d] /\ reply'[d] = reply[d]
  BY DEF MovesAlone, OnlyMoves
<1>2. WorkOf(c) /\ WorkOf(d)
  BY DEF WorkInv
<1>3. CASE bookings' = bookings
  BY <1>1, <1>2, <1>3 DEF WorkOf, RoleInv, CreateInv, UpdateInv, RewriteInv, LookInv, ToldInv
<1>4. CASE Writes(c)
  <2>1. ~Holding(d)
    BY <1>4 DEF StoreInv, LockInv, Writes
  <2>2. pc[d] \notin {"scan", "rewrite", "flush", "unlock"} /\ wbuf[d].mode = "none"
    <3>1. wbuf[d].mode \in {"none", "append", "over"} /\ BufferInv(d)
      BY DEF StoreInv, TypeOK, Write
    <3> QED BY <2>1, <3>1 DEF BufferInv, Holding
  <2>3. RoleInv(d)' /\ CreateInv(d)' /\ UpdateInv(d)' /\ RewriteInv(d)' /\ LookInv(d)'
    BY <1>1, <1>2, <2>2 DEF WorkOf, RoleInv, CreateInv, UpdateInv, RewriteInv, LookInv
  <2>4. ToldInv(d)'
    <3>1. CASE SoleSuperuser(d)
      <4>1. RoleOf[c] # "SUPERUSER"
        BY <3>1 DEF SoleSuperuser
      <4>2. \A i \in DOMAIN bookings : i \in DOMAIN bookings' /\ bookings'[i] = bookings[i]
        BY <1>2, <1>4, <4>1, UsersAppend DEF Writes
      <4> QED BY <1>1, <1>2, <4>2 DEF WorkOf, ToldInv
    <3>2. CASE ~SoleSuperuser(d)
      BY <3>2 DEF ToldInv, SoleSuperuser
    <3> QED BY <3>1, <3>2
  <2> QED BY <2>3, <2>4 DEF WorkOf
<1> QED BY <1>3, <1>4

(* A step of c keeps WorkInv if it keeps what WorkInv says of c.            *)
LEMMA WorkStepOf ==
  ASSUME StoreInv, WorkInv, NEW c \in Procs, MovesAlone(c), bookings' = bookings \/ Writes(c),
         RoleInv(c)', CreateInv(c)', UpdateInv(c)', RewriteInv(c)', LookInv(c)', ToldInv(c)'
  PROVE  WorkInv'
<1>1. WorkOf(c)'
  BY DEF WorkOf
<1>2. \A d \in Procs \ {c} : WorkOf(d)'
  BY OthersWork
<1> QED BY <1>1, <1>2 DEF WorkInv

-----------------------------------------------------------------------------
(* Steps that leave the file alone.                                         *)

LEMMA ReceiveWorks ==
  ASSUME StoreInv, WorkInv, NEW c \in Procs, NEW operation \in Operations, NEW booking \in Booking,
         NEW next \in {"find", "lock", "reply"}, Receive(c, operation, booking, next),
         next = "find" <=> operation = "approve",
         RoleOf[c] = IF operation = "create" THEN "USER" ELSE "SUPERUSER",
         operation = "create" /\ next = "lock" => booking.room_id \in Rooms /\ booking.status = PENDING
  PROVE  WorkInv'
<1>1. TypeOK /\ BufferInv(c) /\ WorkOf(c) /\ pc[c] = "idle" /\ operation \in Ops
  BY DEF StoreInv, WorkInv, Receive
<1>2. /\ op'[c] = operation /\ pc'[c] = next /\ arg'[c] = booking /\ reply'[c] = NoReply
      /\ MovesAlone(c) /\ UNCHANGED <<bookings, found, wbuf>>
  BY <1>1 DEF Receive, TypeOK, MovesAlone, OnlyMoves
<1>3. wbuf[c].mode = "none" /\ wbuf'[c] = wbuf[c]
  BY <1>1, <1>2 DEF BufferInv, TypeOK, Write
<1>4. found[c].booking_id = 0 /\ found'[c] = found[c]
  BY <1>1, <1>2 DEF WorkOf, LookInv
<1>5. RoleInv(c)' /\ CreateInv(c)' /\ UpdateInv(c)' /\ RewriteInv(c)'
  BY <1>1, <1>2, <1>3 DEF RoleInv, CreateInv, UpdateInv, RewriteInv, Operations
<1>6. LookInv(c)'
  BY <1>2, <1>4 DEF LookInv
<1>7. ToldInv(c)'
  BY <1>2, <1>4 DEF ToldInv, NoReply
<1> QED BY <1>2, <1>5, <1>6, <1>7, WorkStepOf

LEMMA NewBookingFields ==
  ASSUME NEW c \in Procs, NEW room \in TypedRooms, NEW interval \in Intervals
  PROVE  NewBooking(c, room, interval).room_id = room
         /\ NewBooking(c, room, interval).status = PENDING
BY DEF NewBooking, ZeroBooking

LEMMA RequestWorks ==
  ASSUME StoreInv, WorkInv, WireForms \subseteq {"blank"}, NEW c \in Procs, Request(c)
  PROVE  WorkInv'
<1>1. CASE CreateRequest(c)
  <2>1. PICK room \in TypedRooms, interval \in Intervals :
          /\ RoleOf[c] = "USER"
          /\ \E next \in {"lock", "reply"} :
               /\ Receive(c, "create", NewBooking(c, room, interval), next)
               /\ next = "lock" => room \in Rooms
    BY <1>1 DEF CreateRequest
  <2> DEFINE asked == NewBooking(c, room, interval)
  <2>2. asked \in Booking /\ asked.room_id = room /\ asked.status = PENDING
    BY NewBookingType, NewBookingFields
  <2> HIDE DEF asked
  <2>3. PICK next \in {"lock", "reply"} :
          /\ Receive(c, "create", asked, next)
          /\ next = "lock" => room \in Rooms
    BY <2>1 DEF asked
  <2> QED BY <2>1, <2>2, <2>3, ReceiveWorks DEF Operations
<1>2. CASE ApproveRequest(c)
  <2>0. PICK id \in TypedIds :
          \E booking \in Wires(id) : RoleOf[c] = "SUPERUSER" /\ Receive(c, "approve", booking, "find")
    BY <1>2 DEF ApproveRequest
  <2>1. PICK booking \in Wires(id) : RoleOf[c] = "SUPERUSER" /\ Receive(c, "approve", booking, "find")
    BY <2>0
  <2>2. booking = IdOnly(id)
    BY DEF Wires
  <2> QED BY <2>1, <2>2, IdOnlyType, ReceiveWorks DEF Operations
<1>3. CASE RejectRequest(c)
  <2>1. PICK id \in TypedIds : RoleOf[c] = "SUPERUSER" /\ Receive(c, "reject", IdOnly(id), "lock")
    BY <1>3 DEF RejectRequest
  <2> QED BY <2>1, IdOnlyType, ReceiveWorks DEF Operations
<1>4. CASE ForceRequest(c)
  <2>1. PICK id \in TypedIds, status \in BookingStatus :
          RoleOf[c] = "SUPERUSER" /\ Receive(c, "force", WithStatus(IdOnly(id), status), "lock")
    BY <1>4 DEF ForceRequest
  <2>2. WithStatus(IdOnly(id), status) \in Booking
    BY IdOnlyType, WithStatusType
  <2> QED BY <2>1, <2>2, ReceiveWorks DEF Operations
<1> QED BY <1>1, <1>2, <1>3, <1>4 DEF Request

LEMMA WaitingWorks ==
  ASSUME StoreInv, WorkInv, NEW c \in Procs, Waiting(c)
  PROVE  WorkInv'
<1>0. TypeOK /\ BufferInv(c) /\ WorkOf(c) /\ ApprovalInv(c) /\ bookings \in Seq(Booking)
  BY DEF StoreInv, WorkInv, TypeOK
<1>1. wbuf[c].mode = "none"
  BY <1>0 DEF Waiting, FindBooking, LockWriting, BufferInv, TypeOK, Write
<1>2. CASE FindBooking(c)
  <2> DEFINE i == Named(arg[c].booking_id)
  <2>1. /\ pc[c] = "find" /\ op[c] = "approve" /\ UNCHANGED <<bookings, op, arg, wbuf, reply>>
        /\ MovesAlone(c) /\ pc'[c] \in {"lock", "reply"}
    BY <1>0, <1>2 DEF FindBooking, ApprovalInv, MovesAlone, OnlyMoves, TypeOK
  <2>2. RoleInv(c)' /\ CreateInv(c)' /\ UpdateInv(c)' /\ RewriteInv(c)'
    BY <1>0, <1>1, <2>1 DEF WorkOf, RoleInv, CreateInv, UpdateInv, RewriteInv
  <2>3. \/ pc'[c] = "lock" /\ found'[c].booking_id = arg[c].booking_id
        \/ pc'[c] = "reply" /\ found'[c] = found[c]
    <3>1. i # 0 => bookings[i].booking_id = arg[c].booking_id
      BY <1>0, NamedIndex
    <3> QED BY <1>0, <1>2, <3>1 DEF FindBooking, TypeOK
  <2>4. found[c].booking_id = 0
    BY <1>0, <2>1 DEF WorkOf, LookInv
  <2>5. LookInv(c)'
    BY <2>1, <2>3 DEF LookInv
  <2>6. ToldInv(c)'
    BY <1>0, <2>1, <2>3, <2>4 DEF WorkOf, ToldInv, SoleSuperuser
  <2> QED BY <2>1, <2>2, <2>5, <2>6, WorkStepOf
<1>3. CASE LockWriting(c)
  <2>1. /\ pc[c] = "lock" /\ pc'[c] = "scan" /\ MovesAlone(c)
        /\ UNCHANGED <<bookings, op, arg, found, wbuf, reply>>
    BY <1>0, <1>3 DEF LockWriting, MovesAlone, OnlyMoves, TypeOK
  <2>2. RoleInv(c)' /\ CreateInv(c)' /\ UpdateInv(c)' /\ RewriteInv(c)' /\ LookInv(c)' /\ ToldInv(c)'
    BY <1>0, <1>1, <2>1
       DEF WorkOf, RoleInv, CreateInv, UpdateInv, RewriteInv, LookInv, ToldInv, SoleSuperuser
  <2> QED BY <2>1, <2>2, WorkStepOf
<1> QED BY <1>2, <1>3 DEF Waiting

-----------------------------------------------------------------------------
(* Scans under the write lock.                                              *)

LEMMA ScanWorks ==
  ASSUME StoreInv, WorkInv, NEW c \in Procs, pc[c] = "scan",
         NEW w \in Write, NEW result \in Booking, NEW next \in {"flush", "unlock"},
         Scanned(c, w, result, next), UNCHANGED <<bookings, now, lock, op, arg, pos, reply>>,
         next = "unlock" <=> w.mode = "none",
         next = "unlock" => result.booking_id = 0,
         w.mode = "append" =>
           /\ op[c] = "create" /\ w.rec.room_id \in Rooms /\ w.rec.status = PENDING
           /\ w.rec.booking_id = NextId(bookings)
           /\ \A i \in DOMAIN bookings : ~is_booking_conflict(bookings[i], w.rec),
         w.mode = "over" =>
           /\ w.rec = WithStatus(bookings[w.at], w.rec.status) /\ w.rec = result
           /\ \/ op[c] = "reject" /\ bookings[w.at].status = PENDING /\ w.rec.status = REJECTED
              \/ op[c] = "force"
  PROVE  WorkInv'
<1>0. TypeOK /\ WorkOf(c)
  BY DEF StoreInv, WorkInv
<1>1. wbuf'[c] = w /\ found'[c] = result /\ pc'[c] = next /\ MovesAlone(c)
  BY <1>0 DEF Scanned, MovesAlone, OnlyMoves, TypeOK
<1>2. RoleInv(c)' /\ CreateInv(c)' /\ UpdateInv(c)'
  BY <1>0, <1>1 DEF WorkOf, RoleInv, CreateInv, UpdateInv, Write
<1>3. RewriteInv(c)' /\ LookInv(c)'
  BY <1>1 DEF RewriteInv, LookInv
<1>4. ToldInv(c)'
  BY <1>0, <1>1 DEF WorkOf, ToldInv, SoleSuperuser
<1> QED BY <1>1, <1>2, <1>3, <1>4, WorkStepOf

LEMMA NothingWorks ==
  ASSUME StoreInv, WorkInv, NEW c \in Procs, pc[c] = "scan",
         Scanned(c, NoWrite, ZeroBooking, "unlock"),
         UNCHANGED <<bookings, now, lock, op, arg, pos, reply>>
  PROVE  WorkInv'
<1>1. NoWrite \in Write /\ NoWrite.mode = "none" /\ ZeroBooking \in Booking
      /\ ZeroBooking.booking_id = 0
  BY WriteTypes, ZeroBookingType DEF NoWrite, ZeroBooking
<1> QED BY <1>1, ScanWorks

LEMMA CreateWorks ==
  ASSUME StoreInv, WorkInv, NEW c \in Procs, CreateScan(c)
  PROVE  WorkInv'
<1> DEFINE created == [WithStatus(arg[c], PENDING) EXCEPT !.booking_id = NextId(bookings)]
<1>0. /\ TypeOK /\ CreateInv(c) /\ pc[c] = "scan" /\ op[c] = "create"
      /\ UNCHANGED <<bookings, now, lock, op, arg, pos, reply>>
      /\ bookings \in Seq(Booking) /\ arg[c] \in Booking
  BY DEF CreateScan, StoreInv, TypeOK, WorkInv, WorkOf
<1>1. CASE Scanned(c, NoWrite, ZeroBooking, "unlock")
  BY <1>0, <1>1, NothingWorks
<1>2. CASE /\ \A i \in DOMAIN bookings : ~is_booking_conflict(bookings[i], arg[c])
           /\ Scanned(c, AppendOf(created), created, "flush")
  <2>1. created \in Booking /\ AppendOf(created) \in Write
    BY <1>0, CreatedType, WriteTypes
  <2>2. AppendOf(created).mode = "append" /\ AppendOf(created).rec = created
    BY DEF AppendOf
  <2>3. arg[c].room_id \in Rooms /\ arg[c].status = PENDING
    BY <1>0 DEF CreateInv
  <2>4. /\ created.booking_id = NextId(bookings) /\ created.status = PENDING
        /\ created.room_id = arg[c].room_id /\ created.username = arg[c].username
        /\ created.start_time = arg[c].start_time /\ created.end_time = arg[c].end_time
    BY <1>0 DEF WithStatus, Booking
  <2> HIDE DEF created
  <2>5. \A i \in DOMAIN bookings : ~is_booking_conflict(bookings[i], created)
    BY <1>2, <2>3, <2>4 DEF is_booking_conflict, Overlap
  <2>6. Scanned(c, AppendOf(created), created, "flush")
    BY <1>2 DEF created
  <2> QED BY <1>0, <2>1, <2>2, <2>3, <2>4, <2>5, <2>6, ScanWorks
<1> QED BY <1>1, <1>2 DEF CreateScan

LEMMA UpdateWorks ==
  ASSUME StoreInv, WorkInv, NEW c \in Procs, NEW operation, NEW i,
         i # 0 => i \in DOMAIN bookings,
         NEW status \in BookingStatus, UpdateStatus(c, operation, i, status),
         \/ operation = "force"
         \/ operation = "reject" /\ status = REJECTED /\ (i # 0 => bookings[i].status = PENDING)
  PROVE  WorkInv'
<1>0. /\ pc[c] = "scan" /\ op[c] = operation /\ bookings \in Seq(Booking)
      /\ UNCHANGED <<bookings, now, lock, op, arg, pos, reply>>
  BY DEF UpdateStatus, StoreInv, TypeOK
<1>1. CASE /\ i # 0
           /\ Scanned(c, Overwrite(i, WithStatus(bookings[i], status)),
                      WithStatus(bookings[i], status), "flush")
  <2> DEFINE updated == WithStatus(bookings[i], status)
  <2>1. i \in Nat /\ bookings[i] \in Booking
    BY <1>0, <1>1
  <2>2. updated \in Booking /\ Overwrite(i, updated) \in Write
    BY <2>1, WithStatusType, WriteTypes
  <2>3. updated.status = status /\ updated = WithStatus(bookings[i], updated.status)
    BY <2>1 DEF WithStatus, Booking
  <2> HIDE DEF updated
  <2>4. /\ Overwrite(i, updated).mode = "over" /\ Overwrite(i, updated).at = i
        /\ Overwrite(i, updated).rec = updated
    BY DEF Overwrite
  <2>5. Scanned(c, Overwrite(i, updated), updated, "flush")
    BY <1>1 DEF updated
  <2> QED BY <1>0, <1>1, <2>2, <2>3, <2>4, <2>5, ScanWorks
<1>2. CASE Scanned(c, NoWrite, ZeroBooking, "unlock")
  BY <1>0, <1>2, NothingWorks
<1> QED BY <1>1, <1>2 DEF UpdateStatus

LEMMA DecideWorks ==
  ASSUME StoreInv, WorkInv, NEW c \in Procs, RejectScan(c) \/ ForceScan(c)
  PROVE  WorkInv'
<1>0. bookings \in Seq(Booking)
  BY DEF StoreInv, TypeOK
<1>1. CASE RejectScan(c)
  <2> DEFINE hits == {i \in DOMAIN bookings : /\ bookings[i].booking_id = arg[c].booking_id
                                             /\ bookings[i].status = PENDING
                                             /\ ~is_booking_in_past(bookings[i], now)}
  <2>1. /\ hits \in SUBSET DOMAIN bookings /\ UpdateStatus(c, "reject", FirstOf(hits), REJECTED)
        /\ \A i \in hits : bookings[i].status = PENDING
    BY <1>1 DEF RejectScan
  <2> HIDE DEF hits
  <2>2. FirstOf(hits) # 0 => FirstOf(hits) \in hits
    BY <1>0, <2>1, FirstOfFile
  <2> QED BY <2>1, <2>2, StatusTypes, UpdateWorks
<1>2. CASE ForceScan(c)
  <2>1. arg[c].status \in BookingStatus
    BY DEF StoreInv, TypeOK, Booking
  <2>2. Named(arg[c].booking_id) # 0 => Named(arg[c].booking_id) \in DOMAIN bookings
    BY <1>0, NamedIndex
  <2> QED BY <1>2, <2>1, <2>2, UpdateWorks DEF ForceScan
<1> QED BY <1>1, <1>2

LEMMA ApproveStartWorks ==
  ASSUME StoreInv, WorkInv, NEW c \in Procs, ApproveStart(c)
  PROVE  WorkInv'
<1>0. /\ TypeOK /\ WorkOf(c) /\ pc[c] = "scan" /\ op[c] = "approve"
      /\ bookings \in Seq(Booking) /\ found[c] \in Booking
  BY DEF StoreInv, TypeOK, ApproveStart, WorkInv
<1> DEFINE target == WithStatus(found[c], APPROVED)
<1>1. /\ arg'[c] = target /\ wbuf'[c] = NoWrite /\ found'[c] = ZeroBooking /\ pc'[c] = "rewrite"
      /\ pos'[c] = 1 /\ MovesAlone(c) /\ UNCHANGED <<bookings, op, reply>>
  BY <1>0 DEF ApproveStart, Scanned, MovesAlone, OnlyMoves, TypeOK
<1>2. NoWrite.mode = "none" /\ ZeroBooking.booking_id = 0
  BY DEF NoWrite, ZeroBooking
<1>3. target.status = APPROVED
  BY <1>0 DEF WithStatus, Booking
<1> HIDE DEF target
<1>4. RoleInv(c)' /\ CreateInv(c)' /\ UpdateInv(c)' /\ LookInv(c)'
  BY <1>0, <1>1, <1>2 DEF WorkOf, RoleInv, CreateInv, UpdateInv, LookInv
<1>5. RewriteInv(c)'
  <2>1. \A i \in DOMAIN bookings : ~(i < 1)
    BY <1>0
  <2> QED BY <1>1, <1>2, <1>3, <2>1 DEF RewriteInv
<1>6. ToldInv(c)'
  BY <1>0, <1>1 DEF WorkOf, ToldInv, SoleSuperuser
<1> QED BY <1>1, <1>4, <1>5, <1>6, WorkStepOf

-----------------------------------------------------------------------------
(* Steps that put the buffered record into the file.                        *)

LEMMA OverwriteAt ==
  ASSUME NEW file \in Seq(Booking), NEW w \in Write, w.mode = "over", w.at \in DOMAIN file
  PROVE  /\ DOMAIN Written(file, w) = DOMAIN file
         /\ \A k \in DOMAIN file : Written(file, w)[k] = IF k = w.at THEN w.rec ELSE file[k]
<1>1. w.rec \in Booking
  BY DEF Write
<1>2. Written(file, w) = [file EXCEPT ![w.at] = w.rec]
  BY DEF Written
<1> QED BY <1>1, <1>2, ExceptSeq

(* Deciding twice is deciding once.                                         *)
LEMMA DecidedOnce ==
  ASSUME NEW target \in Booking, NEW b \in Booking
  PROVE  /\ Decided(target, b) \in Booking
         /\ Decided(target, Decided(target, b)) = Decided(target, b)
<1> DEFINE lost == WithStatus(b, REJECTED)
<1>1. lost \in Booking /\ lost.booking_id = b.booking_id /\ lost.status = REJECTED
  BY WithStatusType, StatusTypes DEF WithStatus, Booking
<1>2. REJECTED # PENDING
  BY DEF REJECTED, PENDING
<1>4. CASE b.booking_id # target.booking_id /\ b.status = PENDING /\ Overlap(b, target)
  <2>1. Decided(target, b) = lost
    BY <1>4 DEF Decided
  <2> HIDE DEF lost
  <2>2. Decided(target, lost) = lost
    BY <1>1, <1>2, <1>4 DEF Decided
  <2> QED BY <1>1, <2>1, <2>2
<1> HIDE DEF lost
<1>5. CASE ~(b.booking_id # target.booking_id /\ b.status = PENDING /\ Overlap(b, target))
  BY <1>5 DEF Decided
<1> QED BY <1>4, <1>5

(* A round of the loop decides the record it has read.                      *)
LEMMA RoundDecides ==
  ASSUME NEW target \in Booking, target.status = APPROVED, NEW b \in Booking
  PROVE  /\ b.booking_id = target.booking_id => Decided(target, b) = target
         /\ b.booking_id # target.booking_id /\ Loses(b, target) =>
              Decided(target, b) = WithStatus(b, REJECTED)
         /\ b.booking_id # target.booking_id /\ ~Loses(b, target) => Decided(target, b) = b
<1>1. APPROVED # REJECTED /\ PENDING # REJECTED
  BY DEF APPROVED, REJECTED, PENDING
<1>2. Loses(b, target) <=> b.status = PENDING /\ Overlap(b, target)
  BY <1>1 DEF Loses, is_booking_conflict
<1> QED BY <1>2 DEF Decided

(* The buffer of a rewriting process overwrites, or is empty.               *)
LEMMA RewritingFile ==
  ASSUME StoreInv, NEW c \in Procs, pc[c] = "rewrite"
  PROVE  /\ Written(bookings, wbuf[c]) \in Seq(Booking)
         /\ DOMAIN Written(bookings, wbuf[c]) = DOMAIN bookings
         /\ \A k \in DOMAIN bookings :
              Written(bookings, wbuf[c])[k] =
                IF wbuf[c].mode = "over" /\ k = wbuf[c].at THEN wbuf[c].rec ELSE bookings[k]
<1>1. /\ bookings \in Seq(Booking) /\ wbuf[c] \in Write /\ BufferInv(c)
      /\ wbuf[c].mode \in {"none", "append", "over"}
  BY DEF StoreInv, TypeOK, Write
<1>2. Written(bookings, wbuf[c]) \in Seq(Booking)
  BY <1>1, WrittenType
<1>3. CASE wbuf[c].mode = "none"
  BY <1>1, <1>3 DEF Written
<1>4. CASE wbuf[c].mode = "over"
  BY <1>1, <1>2, <1>4, OverwriteAt DEF BufferInv
<1> QED BY <1>1, <1>2, <1>3, <1>4 DEF BufferInv

LEMMA ApproveNextWorks ==
  ASSUME StoreInv, WorkInv, NEW c \in Procs, ApproveNext(c)
  PROVE  WorkInv'
<1> DEFINE file == Written(bookings, wbuf[c])
           i == pos[c]
           target == arg[c]
<1>0. /\ TypeOK /\ WorkOf(c) /\ pc[c] = "rewrite" /\ bookings \in Seq(Booking)
      /\ target \in Booking /\ found[c] \in Booking /\ i \in Nat \ {0}
  BY DEF StoreInv, TypeOK, ApproveNext, WorkInv
<1>1. /\ bookings' = file /\ i <= Len(file) /\ UNCHANGED <<now, lock, op, arg, reply, crashes>>
      /\ pos' = [pos EXCEPT ![c] = i + 1]
  BY DEF ApproveNext
<1>2. /\ file \in Seq(Booking) /\ DOMAIN file = DOMAIN bookings
  BY <1>0, RewritingFile
<1>3. /\ target.status = APPROVED
      /\ \A k \in DOMAIN bookings : k < i => file[k] = Decided(target, bookings[k])
      /\ found[c].booking_id # 0 => found[c] = target /\ \E k \in DOMAIN bookings : file[k] = target
  BY <1>0 DEF WorkOf, RewriteInv
<1>4. \/ /\ file[i].booking_id = target.booking_id
         /\ Scanned(c, Overwrite(i, target), target, "rewrite")
      \/ /\ file[i].booking_id # target.booking_id /\ Loses(file[i], target)
         /\ Scanned(c, Overwrite(i, WithStatus(file[i], REJECTED)), found[c], "rewrite")
      \/ /\ file[i].booking_id # target.booking_id /\ ~Loses(file[i], target)
         /\ Scanned(c, NoWrite, found[c], "rewrite")
  BY DEF ApproveNext
<1>5. i \in DOMAIN file /\ file[i] \in Booking
  BY <1>0, <1>1, <1>2
<1> HIDE DEF file, i, target
(* What is buffered next, if anything, is the decision on the record read.  *)
<1>6. \E w \in Write, result \in Booking :
         /\ Scanned(c, w, result, "rewrite")
         /\ \/ w.mode = "over" /\ w.at = i /\ w.rec = Decided(target, file[i])
            \/ w.mode = "none" /\ file[i] = Decided(target, file[i])
         /\ \/ result = target /\ Decided(target, file[i]) = target
            \/ result = found[c] /\ file[i] # target
  <2>1. CASE /\ file[i].booking_id = target.booking_id
             /\ Scanned(c, Overwrite(i, target), target, "rewrite")
    <3>1. Overwrite(i, target) \in Write /\ Overwrite(i, target).mode = "over"
          /\ Overwrite(i, target).at = i /\ Overwrite(i, target).rec = target
      BY <1>0, WriteTypes DEF Overwrite
    <3> QED BY <1>0, <1>3, <1>5, <2>1, <3>1, RoundDecides
  <2>2. CASE /\ file[i].booking_id # target.booking_id /\ Loses(file[i], target)
             /\ Scanned(c, Overwrite(i, WithStatus(file[i], REJECTED)), found[c], "rewrite")
    <3> DEFINE lost == WithStatus(file[i], REJECTED)
    <3>1. lost \in Booking /\ lost = Decided(target, file[i])
      BY <1>0, <1>3, <1>5, <2>2, RoundDecides, WithStatusType, StatusTypes
    <3>2. Scanned(c, Overwrite(i, lost), found[c], "rewrite")
      BY <2>2
    <3> HIDE DEF lost
    <3>3. Overwrite(i, lost) \in Write /\ Overwrite(i, lost).mode = "over"
          /\ Overwrite(i, lost).at = i /\ Overwrite(i, lost).rec = lost
      BY <1>0, <3>1, WriteTypes DEF Overwrite
    <3> QED BY <1>0, <2>2, <3>1, <3>2, <3>3
  <2>3. CASE /\ file[i].booking_id # target.booking_id /\ ~Loses(file[i], target)
             /\ Scanned(c, NoWrite, found[c], "rewrite")
    <3>1. NoWrite.mode = "none" /\ NoWrite \in Write
      BY WriteTypes DEF NoWrite
    <3>2. file[i] = Decided(target, file[i]) /\ file[i] # target
      BY <1>0, <1>3, <1>5, <2>3, RoundDecides
    <3> QED BY <1>0, <2>3, <3>1, <3>2
  <2> QED BY <1>4, <2>1, <2>2, <2>3
<1>7. PICK w \in Write, result \in Booking :
         /\ Scanned(c, w, result, "rewrite")
         /\ \/ w.mode = "over" /\ w.at = i /\ w.rec = Decided(target, file[i])
            \/ w.mode = "none" /\ file[i] = Decided(target, file[i])
         /\ \/ result = target /\ Decided(target, file[i]) = target
            \/ result = found[c] /\ file[i] # target
  BY <1>6
<1>8. /\ wbuf'[c] = w /\ found'[c] = result /\ pc'[c] = "rewrite" /\ pos'[c] = i + 1
      /\ MovesAlone(c) /\ arg'[c] = target /\ op'[c] = op[c] /\ reply'[c] = reply[c]
  BY <1>0, <1>1, <1>7 DEF Scanned, MovesAlone, OnlyMoves, TypeOK, target
<1> DEFINE after == Written(file, w)
<1>9. /\ \A k \in DOMAIN file : after[k] = IF k = i THEN Decided(target, file[i]) ELSE file[k]
  <2>1. CASE w.mode = "over"
    BY <1>2, <1>5, <1>7, <2>1, OverwriteAt
  <2>2. CASE w.mode = "none"
    BY <1>7, <2>2 DEF Written
  <2> QED BY <1>7, <2>1, <2>2
<1> HIDE DEF after
<1>10. \A k \in DOMAIN file : k < i + 1 => after[k] = Decided(target, file[k])
  <2> SUFFICES ASSUME NEW k \in DOMAIN file, k < i + 1, k # i
               PROVE  file[k] = Decided(target, file[k])
    BY <1>9
  <2>1. k < i /\ bookings[k] \in Booking
    BY <1>0, <1>2
  <2> QED BY <1>0, <1>2, <1>3, <2>1, DecidedOnce
<1>11. result.booking_id # 0 => result = target /\ \E k \in DOMAIN file : after[k] = target
  <2>1. CASE result = target /\ Decided(target, file[i]) = target
    BY <1>5, <1>9, <2>1
  <2>2. CASE result = found[c] /\ file[i] # target
    BY <1>2, <1>3, <1>9, <2>2
  <2> QED BY <1>7, <2>1, <2>2
<1>12. RewriteInv(c)'
  <2>1. w.mode = "over" => w.at < i + 1
    BY <1>0, <1>7
  <2> QED BY <1>1, <1>3, <1>8, <1>10, <1>11, <2>1 DEF RewriteInv, after
<1>13. RoleInv(c)' /\ CreateInv(c)' /\ UpdateInv(c)' /\ LookInv(c)'
  BY <1>0, <1>7, <1>8 DEF WorkOf, RoleInv, CreateInv, UpdateInv, LookInv
<1>14. ToldInv(c)'
  BY <1>0, <1>8 DEF WorkOf, ToldInv, SoleSuperuser
<1>15. Writes(c)
  BY <1>0, <1>1 DEF Writes, Holding, file
<1> QED BY <1>8, <1>12, <1>13, <1>14, <1>15, WorkStepOf

LEMMA EndWritingWorks ==
  ASSUME StoreInv, WorkInv, NEW c \in Procs, ApproveEnd(c) \/ Flush(c)
  PROVE  WorkInv'
<1> DEFINE file == Written(bookings, wbuf[c])
<1>0. /\ TypeOK /\ WorkOf(c) /\ BufferInv(c) /\ bookings \in Seq(Booking)
      /\ wbuf[c] \in Write /\ wbuf[c].mode \in {"none", "append", "over"}
  BY DEF StoreInv, TypeOK, WorkInv, Write
<1>1. /\ bookings' = file /\ pc'[c] = "unlock" /\ wbuf'[c] = NoWrite /\ MovesAlone(c)
      /\ found'[c] = found[c] /\ UNCHANGED <<op, arg, reply>> /\ pc[c] \in {"rewrite", "flush"}
  BY <1>0 DEF ApproveEnd, Flush, Scanned, MovesAlone, OnlyMoves, TypeOK
<1>2. NoWrite.mode = "none"
  BY DEF NoWrite
<1>3. RoleInv(c)' /\ CreateInv(c)' /\ UpdateInv(c)' /\ RewriteInv(c)' /\ LookInv(c)'
  BY <1>0, <1>1, <1>2 DEF WorkOf, RoleInv, CreateInv, UpdateInv, RewriteInv, LookInv
<1>4. SoleSuperuser(c) /\ found[c].booking_id # 0 => \E i \in DOMAIN file : file[i] = found[c]
  <2> SUFFICES ASSUME SoleSuperuser(c), found[c].booking_id # 0
               PROVE  \E i \in DOMAIN file : file[i] = found[c]
    OBVIOUS
  <2>1. CASE pc[c] = "rewrite"
    BY <1>0, <2>1, RewritingFile DEF WorkOf, RewriteInv
  <2>2. CASE pc[c] = "flush"
    <3>1. wbuf[c].mode = "over" /\ wbuf[c].rec = found[c]
      BY <1>0, <2>2 DEF WorkOf, UpdateInv, CreateInv, RoleInv, SoleSuperuser
    <3> QED BY <1>0, <3>1, OverwriteAt DEF BufferInv
  <2> QED BY <1>1, <2>1, <2>2
<1> HIDE DEF file
<1>5. ToldInv(c)'
  BY <1>0, <1>1, <1>4 DEF WorkOf, ToldInv, SoleSuperuser
<1>6. Writes(c)
  BY <1>1 DEF Writes, Holding, file
<1> QED BY <1>1, <1>3, <1>5, <1>6, WorkStepOf

LEMMA EndingWorks ==
  ASSUME StoreInv, WorkInv, NEW c \in Procs, Unlock(c) \/ Reply(c) \/ Crash(c)
  PROVE  WorkInv'
<1>0. TypeOK /\ WorkOf(c) /\ BufferInv(c) /\ found[c] \in Booking
      /\ wbuf[c].mode \in {"none", "append", "over"}
  BY DEF StoreInv, TypeOK, WorkInv, Write
<1>1. NoWrite.mode = "none" /\ ZeroBooking.booking_id = 0
  BY DEF NoWrite, ZeroBooking
<1>2. CASE Unlock(c)
  <2>1. /\ pc[c] = "unlock" /\ pc'[c] = "reply" /\ MovesAlone(c)
        /\ UNCHANGED <<bookings, op, arg, found, wbuf, reply>>
    BY <1>0, <1>2 DEF Unlock, MovesAlone, OnlyMoves, TypeOK
  <2>2. RoleInv(c)' /\ CreateInv(c)' /\ UpdateInv(c)' /\ RewriteInv(c)' /\ LookInv(c)'
    BY <1>0, <2>1 DEF WorkOf, RoleInv, CreateInv, UpdateInv, RewriteInv, LookInv, BufferInv
  <2>3. ToldInv(c)'
    BY <1>0, <2>1 DEF WorkOf, ToldInv, SoleSuperuser
  <2> QED BY <2>1, <2>2, <2>3, WorkStepOf
<1>3. CASE Reply(c) \/ Crash(c)
  <2>1. /\ pc'[c] = "idle" /\ op'[c] = "none" /\ found'[c] = ZeroBooking /\ wbuf'[c] = NoWrite
        /\ MovesAlone(c) /\ UNCHANGED bookings
    BY <1>0, <1>3 DEF Reply, Crash, Forget, MovesAlone, OnlyMoves, TypeOK
  <2>2. RoleInv(c)' /\ CreateInv(c)' /\ UpdateInv(c)' /\ RewriteInv(c)' /\ LookInv(c)'
    BY <1>1, <2>1 DEF RoleInv, CreateInv, UpdateInv, RewriteInv, LookInv
  <2>3. ToldInv(c)'
    <3>1. CASE Reply(c)
      <4>1. pc[c] = "reply" /\ reply'[c].ok = (found[c].booking_id > 0) /\ reply'[c].booking = found[c]
        BY <1>0, <3>1 DEF Reply, TypeOK
      <4>2. found[c].booking_id > 0 => found[c].booking_id # 0
        OBVIOUS
      <4>3. SoleSuperuser(c) /\ found[c].booking_id # 0 =>
              \E i \in DOMAIN bookings : bookings[i] = found[c]
        BY <1>0, <4>1 DEF WorkOf, ToldInv
      <4> QED BY <2>1, <4>1, <4>2, <4>3 DEF ToldInv, SoleSuperuser
    <3>2. CASE Crash(c)
      <4>1. reply'[c].ok = FALSE
        BY <1>0, <3>2 DEF Crash, TypeOK, NoReply
      <4> QED BY <2>1, <4>1 DEF ToldInv
    <3> QED BY <1>3, <3>1, <3>2
  <2> QED BY <2>1, <2>2, <2>3, WorkStepOf
<1> QED BY <1>2, <1>3

LEMMA InitWorks == Init => WorkInv
<1> SUFFICES ASSUME Init, NEW c \in Procs PROVE WorkOf(c)
  BY DEF WorkInv
<1>1. NoWrite.mode = "none" /\ ZeroBooking.booking_id = 0 /\ NoReply.ok = FALSE
  BY DEF NoWrite, ZeroBooking, NoReply
<1>2. /\ op[c] = "none" /\ pc[c] = "idle" /\ wbuf[c] = NoWrite /\ found[c] = ZeroBooking
      /\ reply[c] = NoReply
  BY DEF Init
<1> QED BY <1>1, <1>2 DEF WorkOf, RoleInv, CreateInv, UpdateInv, RewriteInv, LookInv, ToldInv

LEMMA WorkStep ==
  ASSUME WireForms \subseteq {"blank"}, StoreInv, WorkInv, [Next]_vars
  PROVE  WorkInv'
<1>1. CASE UNCHANGED vars \/ Tick
  <2>1. UNCHANGED <<bookings, op, pc, arg, found, pos, wbuf, reply>>
    BY <1>1 DEF vars, Tick, procVars
  <2> QED BY <2>1 DEF WorkInv, WorkOf, RoleInv, CreateInv, UpdateInv, RewriteInv, LookInv,
                      ToldInv, SoleSuperuser
<1>2. ASSUME NEW c \in Procs, Request(c) \/ Waiting(c) \/ Working(c) \/ Crash(c)
      PROVE  WorkInv'
  <2>1. ~ApproveConflict(c)
    BY NoConflictWithWire DEF ApproveConflict
  <2> QED BY <1>2, <2>1, RequestWorks, WaitingWorks, CreateWorks, DecideWorks, ApproveStartWorks,
             ApproveNextWorks, EndWritingWorks, EndingWorks DEF Working
<1> QED BY <1>1, <1>2 DEF Next

(* Between two steps every process knows what it is about to do to the      *)
(* file, and an interrupted approval has decided all it has passed.         *)
THEOREM WorkIsKnown ==
  ASSUME WireForms \subseteq {"blank"}
  PROVE  Spec => [](StoreInv /\ WorkInv)
<1>1. StoreInv /\ WorkInv /\ [Next]_vars => WorkInv'
  BY WorkStep
<1> QED BY <1>1, InitWorks, InvariantHolds, PTL DEF Spec

(* What the only superuser was told of a booking is what bookings.dat says  *)
(* of it, until it decides again: no process of a user overwrites a record. *)
THEOREM DecisionIsStored ==
  ASSUME WireForms \subseteq {"blank"}
  PROVE  Spec => []AckedDecision
<1>1. StoreInv /\ WorkInv => AckedDecision
  BY DEF WorkInv, WorkOf, ToldInv, SoleSuperuser, AckedDecision, Range
<1> QED BY <1>1, WorkIsKnown, PTL

-----------------------------------------------------------------------------
(* The store implements the ledger.                                         *)

(* Ledger speaks of records as BookingRecords does.                         *)
LEMMA SameDecision ==
  ASSUME NEW target, NEW b
  PROVE  TheLedger!DecidedBy(target, b) = Decided(target, b)
<1>1. TheLedger!PENDING = PENDING /\ TheLedger!REJECTED = REJECTED
  BY DEF PENDING, REJECTED, TheLedger!PENDING, TheLedger!REJECTED
<1>2. TheLedger!Overlap(b, target) <=> Overlap(b, target)
  BY DEF Overlap, TheLedger!Overlap, is_in_same_time_slot, TheLedger!is_in_same_time_slot
<1>3. TheLedger!WithStatus(b, REJECTED) = WithStatus(b, REJECTED)
  BY DEF WithStatus, TheLedger!WithStatus
<1> QED BY <1>1, <1>2, <1>3 DEF Decided, TheLedger!DecidedBy

Settling(file, target) == [i \in DOMAIN file |-> Decided(target, file[i])]

LEMMA OneApproves ==
  ASSUME LockInv, NEW c \in Procs, NEW d \in Procs, Approving(c), Holding(d)
  PROVE  c = d
BY DEF LockInv, Holding, Approving

LEMMA LedgerWhile ==
  ASSUME LockInv, NEW c \in Procs, Approving(c)
  PROVE  LedgerOf = Settling(bookings, arg[c])
<1>1. (CHOOSE d \in Procs : Approving(d)) = c
  <2>1. \A d \in Procs : Approving(d) => d = c
    BY OneApproves DEF Holding, Approving
  <2> QED BY <2>1
<1> QED BY <1>1 DEF LedgerOf, Target, Settling

LEMMA LedgerThen ==
  ASSUME LockInv', NEW c \in Procs, Approving(c)'
  PROVE  LedgerOf' = Settling(bookings', arg'[c])
<1>1. (CHOOSE d \in Procs : Approving(d)') = c
  <2>1. \A d \in Procs : Approving(d)' => d = c
    BY DEF LockInv, Holding, Approving
  <2> QED BY <2>1
<1> QED BY <1>1 DEF LedgerOf, Target, Settling

LEMMA LedgerOtherwise ==
  /\ (\A c \in Procs : ~Approving(c)) => LedgerOf = bookings
  /\ (\A c \in Procs : ~Approving(c)') => LedgerOf' = bookings'
BY DEF LedgerOf

(* A step that changes neither the file nor an approval.                    *)
LEMMA LedgerSame ==
  ASSUME LockInv, LockInv', bookings' = bookings, NEW c \in Procs, OnlyMoves(c),
         ~Approving(c), ~Approving(c)'
  PROVE  LedgerOf' = LedgerOf
<1>1. CASE \E d \in Procs : Approving(d)
  <2>1. PICK d \in Procs : Approving(d)
    BY <1>1
  <2>2. Approving(d)' /\ arg'[d] = arg[d]
    BY <2>1 DEF OnlyMoves, Approving
  <2> QED BY <2>1, <2>2, LedgerWhile, LedgerThen
<1>2. CASE \A d \in Procs : ~Approving(d)
  <2>1. \A d \in Procs : ~Approving(d)'
    BY <1>2 DEF OnlyMoves, Approving
  <2> QED BY <1>2, <2>1, LedgerOtherwise
<1> QED BY <1>1, <1>2

(* A process with the lock that is not approving.                           *)
LEMMA NobodyApproves ==
  ASSUME LockInv, NEW c \in Procs, Holding(c), ~Approving(c)
  PROVE  LedgerOf = bookings
BY OneApproves, LedgerOtherwise

(* The same, after the step.                                                *)
LEMMA NobodyApprovesThen ==
  ASSUME LockInv', NEW c \in Procs, Holding(c)', ~Approving(c)'
  PROVE  LedgerOf' = bookings'
<1>1. \A d \in Procs : ~Approving(d)'
  BY DEF LockInv, Holding, Approving
<1> QED BY <1>1, LedgerOtherwise

LEMMA SettledStore ==
  ASSUME StoreInv, WorkInv, NEW c \in Procs, Approving(c)
  PROVE  /\ LedgerOf = Settling(bookings, arg[c])
         /\ \A i \in DOMAIN bookings : i < pos[c] =>
              Written(bookings, wbuf[c])[i] = Decided(arg[c], bookings[i])
BY LedgerWhile DEF StoreInv, WorkInv, WorkOf, RewriteInv, Approving

(* An approval takes place when its rewriting begins ...                    *)
LEMMA ApproveStartApproves ==
  ASSUME StoreInv, StoreInv', NEW c \in Procs, ApproveStart(c)
  PROVE  \E i \in DOMAIN LedgerOf : TheLedger!Approve(i)
<1>1. /\ TypeOK /\ pc[c] = "scan" /\ op[c] = "approve" /\ found[c] \in Booking
      /\ LockInv /\ LockInv' /\ FoundInv(c) /\ BufferInv(c) /\ ApprovalInv(c)
  BY DEF ApproveStart, StoreInv, TypeOK
<1>2. /\ arg'[c] = WithStatus(found[c], APPROVED) /\ pc'[c] = "rewrite" /\ bookings' = bookings
  BY <1>1 DEF ApproveStart, Scanned, TypeOK
<1>3. LedgerOf = bookings
  BY <1>1, NobodyApproves DEF Holding, Approving
<1>4. LedgerOf' = Settling(bookings, WithStatus(found[c], APPROVED))
  BY <1>1, <1>2, LedgerThen DEF Approving
<1>5. PICK i \in DOMAIN bookings : SameBooking(bookings[i], found[c])
  BY <1>1 DEF FoundInv, ApprovalInv, BufferInv, StoredIn
<1>6. WithStatus(bookings[i], APPROVED) = WithStatus(found[c], APPROVED)
  <2>1. bookings[i] \in Booking
    BY <1>1 DEF TypeOK
  <2>2. \A b \in Booking : WithStatus(b, APPROVED) = WithStatus(WithStatus(b, PENDING), APPROVED)
    BY DEF WithStatus, Booking
  <2> QED BY <1>1, <1>5, <2>1, <2>2 DEF SameBooking
<1>7. TheLedger!WithStatus(bookings[i], TheLedger!APPROVED) = WithStatus(found[c], APPROVED)
  BY <1>6 DEF WithStatus, TheLedger!WithStatus, APPROVED, TheLedger!APPROVED
<1>8. TheLedger!Approve(i)
  BY <1>3, <1>4, <1>7, SameDecision DEF TheLedger!Approve, Settling
<1> QED BY <1>3, <1>8

(* ... its rounds are invisible ...                                         *)
LEMMA ApproveNextHidden ==
  ASSUME StoreInv, StoreInv', WorkInv, NEW c \in Procs, ApproveNext(c)
  PROVE  LedgerOf' = LedgerOf
<1> DEFINE file == Written(bookings, wbuf[c])
<1>1. /\ TypeOK /\ LockInv /\ LockInv' /\ pc[c] = "rewrite" /\ arg[c] \in Booking
      /\ bookings \in Seq(Booking)
  BY DEF StoreInv, TypeOK, ApproveNext
<1>2. bookings' = file /\ arg' = arg /\ pc'[c] = "rewrite"
  BY <1>1 DEF ApproveNext, Scanned, TypeOK
<1>3. LedgerOf = Settling(bookings, arg[c]) /\ LedgerOf' = Settling(file, arg[c])
  BY <1>1, <1>2, LedgerWhile, LedgerThen DEF Approving
<1>4. /\ DOMAIN file = DOMAIN bookings
      /\ \A i \in DOMAIN bookings : \/ file[i] = bookings[i]
                                    \/ i < pos[c]
  BY <1>1, RewritingFile DEF WorkInv, WorkOf, RewriteInv
<1>5. \A i \in DOMAIN bookings : i < pos[c] => file[i] = Decided(arg[c], bookings[i])
  BY <1>1, SettledStore DEF Approving
<1> HIDE DEF file
<1>6. \A i \in DOMAIN bookings : Decided(arg[c], file[i]) = Decided(arg[c], bookings[i])
  BY <1>1, <1>4, <1>5, DecidedOnce
<1> QED BY <1>3, <1>4, <1>6 DEF Settling

(* ... and so is its end.                                                   *)
LEMMA ApproveEndHidden ==
  ASSUME StoreInv, StoreInv', WorkInv, NEW c \in Procs, ApproveEnd(c)
  PROVE  LedgerOf' = LedgerOf
<1> DEFINE file == Written(bookings, wbuf[c])
<1>1. /\ TypeOK /\ LockInv /\ LockInv' /\ pc[c] = "rewrite" /\ bookings \in Seq(Booking)
      /\ pos[c] \in Nat
  BY DEF StoreInv, TypeOK, ApproveEnd
<1>2. bookings' = file /\ pc'[c] = "unlock" /\ pos[c] > Len(file)
  BY <1>1 DEF ApproveEnd, Scanned, TypeOK
<1>3. LedgerOf = Settling(bookings, arg[c]) /\ LedgerOf' = file
  BY <1>1, <1>2, LedgerWhile, NobodyApprovesThen DEF Approving, Holding
<1>4. /\ file \in Seq(Booking) /\ DOMAIN file = DOMAIN bookings
      /\ \A i \in DOMAIN bookings : i < pos[c] => file[i] = Decided(arg[c], bookings[i])
  BY <1>1, RewritingFile, SettledStore DEF Approving
<1> HIDE DEF file
<1>5. \A i \in DOMAIN bookings : file[i] = Decided(arg[c], bookings[i])
  BY <1>1, <1>2, <1>4
<1>6. file = [i \in DOMAIN bookings |-> file[i]]
  BY <1>4
<1> QED BY <1>3, <1>5, <1>6 DEF Settling

LEMMA SameNextId ==
  ASSUME NEW file
  PROVE  TheLedger!NextId(file) = NextId(file)
BY DEF NextId, GreatestId, TheLedger!NextId, TheLedger!GreatestId

LEMMA SameConflict ==
  ASSUME NEW a, NEW b
  PROVE  TheLedger!is_booking_conflict(a, b) <=> is_booking_conflict(a, b)
BY DEF is_booking_conflict, TheLedger!is_booking_conflict, Overlap, TheLedger!Overlap,
       is_in_same_time_slot, TheLedger!is_in_same_time_slot,
       APPROVED, TheLedger!APPROVED, REJECTED, TheLedger!REJECTED

(* The other operations take place at their one write.                      *)
LEMMA FlushEnters ==
  ASSUME StoreInv, WorkInv, NEW c \in Procs, wbuf[c].mode = "append",
         LedgerOf = bookings, LedgerOf' = Written(bookings, wbuf[c])
  PROVE  Len(LedgerOf') > Len(LedgerOf) /\ TheLedger!Enter(LedgerOf'[Len(LedgerOf')])
<1> DEFINE rec == wbuf[c].rec
<1>1. bookings \in Seq(Booking) /\ rec \in Booking /\ CreateInv(c)
  BY DEF StoreInv, TypeOK, Write, WorkInv, WorkOf
<1>2. LedgerOf' = Append(bookings, rec)
  BY DEF Written
<1>3. Len(LedgerOf') = Len(bookings) + 1 /\ LedgerOf'[Len(LedgerOf')] = rec
  BY <1>1, <1>2
<1>4. /\ rec.room_id \in Rooms /\ rec.status = PENDING /\ rec.booking_id = NextId(bookings)
      /\ \A i \in DOMAIN bookings : ~is_booking_conflict(bookings[i], rec)
  BY <1>1 DEF CreateInv
<1> HIDE DEF rec
<1>5. TheLedger!PENDING = PENDING
  BY DEF PENDING, TheLedger!PENDING
<1>6. TheLedger!Enter(rec)
  BY <1>2, <1>4, <1>5, SameNextId, SameConflict DEF TheLedger!Enter
<1> QED BY <1>1, <1>3, <1>6

LEMMA FlushDecides ==
  ASSUME StoreInv, WorkInv, NEW c \in Procs, pc[c] = "flush", wbuf[c].mode = "over",
         LedgerOf = bookings, LedgerOf' = Written(bookings, wbuf[c])
  PROVE  \E i \in DOMAIN LedgerOf :
           \/ LedgerOf[i].status = PENDING /\ TheLedger!Decide(i, REJECTED)
           \/ "force" \in Ops /\ \E status \in BookingStatus : TheLedger!Decide(i, status)
<1> DEFINE rec == wbuf[c].rec
           i == wbuf[c].at
<1>1. /\ bookings \in Seq(Booking) /\ rec \in Booking /\ i \in DOMAIN bookings
      /\ UpdateInv(c) /\ RoleInv(c)
  BY DEF StoreInv, TypeOK, Write, WorkInv, WorkOf, BufferInv
<1>2. LedgerOf' = [bookings EXCEPT ![i] = rec]
  BY DEF Written
<1>3. /\ rec = WithStatus(bookings[i], rec.status)
      /\ \/ bookings[i].status = PENDING /\ rec.status = REJECTED
         \/ "force" \in Ops
  BY <1>1 DEF UpdateInv, RoleInv
<1>4. rec.status \in BookingStatus
  BY <1>1 DEF Booking
<1> HIDE DEF rec, i
<1>5. TheLedger!Decide(i, rec.status)
  BY <1>1, <1>2, <1>3 DEF TheLedger!Decide, WithStatus
<1> QED BY <1>1, <1>3, <1>4, <1>5

LEMMA FlushIsDecision ==
  ASSUME StoreInv, StoreInv', WorkInv, NEW c \in Procs, Flush(c)
  PROVE  TheLedger!LedgerNext
<1>1. /\ TypeOK /\ LockInv /\ LockInv' /\ pc[c] = "flush" /\ pc'[c] = "unlock"
      /\ bookings' = Written(bookings, wbuf[c])
      /\ wbuf[c].mode \in {"none", "append", "over"} /\ UpdateInv(c)
  BY DEF StoreInv, TypeOK, Flush, Write, WorkInv, WorkOf
<1>2. LedgerOf = bookings /\ LedgerOf' = bookings'
  BY <1>1, NobodyApproves, NobodyApprovesThen DEF Holding, Approving
<1>3. CASE wbuf[c].mode = "append"
  BY <1>1, <1>2, <1>3, FlushEnters DEF TheLedger!LedgerNext
<1>4. CASE wbuf[c].mode = "over"
  <2>1. TheLedger!PENDING = PENDING /\ TheLedger!REJECTED = REJECTED
        /\ TheLedger!BookingStatus = BookingStatus
    BY DEF PENDING, REJECTED, TheLedger!PENDING, TheLedger!REJECTED, BookingStatus,
           TheLedger!BookingStatus, APPROVED, TheLedger!APPROVED
  <2> QED BY <1>1, <1>2, <1>4, <2>1, FlushDecides DEF TheLedger!LedgerNext
<1> QED BY <1>1, <1>3, <1>4 DEF UpdateInv

(* The steps that leave the file alone and do not begin or end an approval. *)
QuietStep(c) ==
  \/ Request(c) \/ Waiting(c) \/ CreateScan(c) \/ RejectScan(c) \/ ForceScan(c)
  \/ ApproveConflict(c) \/ Unlock(c) \/ Reply(c)

LEMMA QuietSteps ==
  ASSUME TypeOK, NEW c \in Procs, QuietStep(c)
  PROVE  bookings' = bookings /\ OnlyMoves(c) /\ ~Approving(c) /\ ~Approving(c)'
<1>1. CASE Request(c)
  <2>1. \E operation, booking, next : next \in {"lock", "reply", "find"} /\ Receive(c, operation, booking, next)
    BY <1>1 DEF Request, CreateRequest, ApproveRequest, RejectRequest, ForceRequest
  <2> QED BY <2>1 DEF Receive, OnlyMoves, Approving, TypeOK
<1>2. CASE Waiting(c)
  BY <1>2 DEF Waiting, FindBooking, LockWriting, OnlyMoves, Approving, TypeOK
<1>3. CASE CreateScan(c) \/ RejectScan(c) \/ ForceScan(c) \/ ApproveConflict(c)
  <2>1. \E w, result, next : /\ next \in {"unlock", "flush"} /\ Scanned(c, w, result, next)
                            /\ pc[c] = "scan" /\ UNCHANGED <<bookings, op, arg, reply>>
    BY <1>3 DEF CreateScan, RejectScan, ForceScan, UpdateStatus, ApproveConflict
  <2> QED BY <2>1 DEF Scanned, OnlyMoves, Approving, TypeOK
<1>4. CASE Unlock(c) \/ Reply(c)
  BY <1>4 DEF Unlock, Reply, Forget, OnlyMoves, Approving, TypeOK
<1> QED BY <1>1, <1>2, <1>3, <1>4 DEF QuietStep

LEMMA CrashHidden ==
  ASSUME StoreInv, StoreInv', NEW c \in Procs, Crash(c), ~Approving(c)
  PROVE  LedgerOf' = LedgerOf
<1>1. /\ bookings' = bookings /\ OnlyMoves(c) /\ ~Approving(c)' /\ LockInv /\ LockInv'
  BY DEF StoreInv, TypeOK, Crash, Forget, OnlyMoves, Approving
<1> QED BY <1>1, LedgerSame

LEMMA LedgerAsleep ==
  ASSUME StoreInv, StoreInv', UNCHANGED vars \/ Tick
  PROVE  LedgerOf' = LedgerOf
<1>1. UNCHANGED <<bookings, pc, arg>> /\ LockInv /\ LockInv'
  BY DEF vars, Tick, procVars, StoreInv
<1>2. CASE \E d \in Procs : Approving(d)
  <2>1. PICK d \in Procs : Approving(d)
    BY <1>2
  <2>2. Approving(d)'
    BY <1>1, <2>1 DEF Approving
  <2> QED BY <1>1, <2>1, <2>2, LedgerWhile, LedgerThen
<1>3. CASE \A d \in Procs : ~Approving(d)
  <2>1. \A d \in Procs : ~Approving(d)'
    BY <1>1, <1>3 DEF Approving
  <2> QED BY <1>1, <1>3, <2>1, LedgerOtherwise
<1> QED BY <1>2, <1>3

LEMMA LedgerStep ==
  ASSUME StoreInv, StoreInv', WorkInv, [Next]_vars, NobodyDiesApproving
  PROVE  [TheLedger!LedgerNext]_LedgerOf
<1>1. CASE UNCHANGED vars \/ Tick
  BY <1>1, LedgerAsleep
<1>2. ASSUME NEW c \in Procs, QuietStep(c) PROVE LedgerOf' = LedgerOf
  BY <1>2, QuietSteps, LedgerSame DEF StoreInv
<1>3. ASSUME NEW c \in Procs, ApproveStart(c) PROVE TheLedger!LedgerNext
  BY <1>3, ApproveStartApproves DEF TheLedger!LedgerNext
<1>4. ASSUME NEW c \in Procs, ApproveNext(c) \/ ApproveEnd(c) PROVE LedgerOf' = LedgerOf
  BY <1>4, ApproveNextHidden, ApproveEndHidden
<1>5. ASSUME NEW c \in Procs, Flush(c) PROVE TheLedger!LedgerNext
  BY <1>5, FlushIsDecision
<1>6. ASSUME NEW c \in Procs, Crash(c) PROVE LedgerOf' = LedgerOf
  BY <1>6, CrashHidden DEF NobodyDiesApproving
<1> QED BY <1>1, <1>2, <1>3, <1>4, <1>5, <1>6 DEF Next, Working, QuietStep

LEMMA LedgerBegins == Init => TheLedger!LedgerInit
<1> SUFFICES ASSUME Init PROVE LedgerOf \in InitFiles
  BY DEF TheLedger!LedgerInit
<1>1. \A c \in Procs : ~Approving(c)
  BY DEF Init, Approving
<1> QED BY <1>1, LedgerOtherwise DEF Init

(* Whatever processes do at once, creations, approvals, rejections and      *)
(* forced statuses take place one after the other, each on all it should    *)
(* know of; as long as no process dies in the rewriting of an approval.     *)
THEOREM StoreIsALedger ==
  ASSUME WireForms \subseteq {"blank"}
  PROVE  Spec /\ [][NobodyDiesApproving]_vars => ImplementsLedger
<1>1. StoreInv /\ StoreInv' /\ WorkInv /\ [Next]_vars /\ [NobodyDiesApproving]_vars
        => [TheLedger!LedgerNext]_LedgerOf
  <2>1. StoreInv /\ UNCHANGED vars => NobodyDiesApproving
    BY DEF NobodyDiesApproving, vars, Crash, StoreInv, TypeOK
  <2> QED BY <2>1, LedgerStep
<1> QED BY <1>1, LedgerBegins, WorkIsKnown, PTL DEF Spec, ImplementsLedger, TheLedger!LedgerSpec

-----------------------------------------------------------------------------
(* Under the discipline, decisions stand.                                   *)

LEMMA SameFields ==
  ASSUME NEW a \in Booking, NEW b \in Booking, SameBooking(a, b)
  PROVE  /\ a.booking_id = b.booking_id /\ a.room_id = b.room_id /\ a.username = b.username
         /\ a.start_time = b.start_time /\ a.end_time = b.end_time
         /\ \A status \in BookingStatus : WithStatus(a, status) = WithStatus(b, status)
         /\ a.status = b.status => a = b
<1> DEFINE pa == WithStatus(a, PENDING)
           pb == WithStatus(b, PENDING)
<1>1. pa = pb
  BY DEF SameBooking
<1>2. /\ pa.booking_id = a.booking_id /\ pa.room_id = a.room_id /\ pa.username = a.username
      /\ pa.start_time = a.start_time /\ pa.end_time = a.end_time
      /\ pb.booking_id = b.booking_id /\ pb.room_id = b.room_id /\ pb.username = b.username
      /\ pb.start_time = b.start_time /\ pb.end_time = b.end_time
  BY DEF WithStatus, Booking
<1> HIDE DEF pa, pb
<1>3. /\ a.booking_id = b.booking_id /\ a.room_id = b.room_id /\ a.username = b.username
      /\ a.start_time = b.start_time /\ a.end_time = b.end_time
  BY <1>1, <1>2
<1> QED BY <1>3 DEF WithStatus, Booking

LEMMA OwnStatus ==
  ASSUME NEW b \in Booking
  PROVE  WithStatus(b, b.status) = b
BY DEF WithStatus, Booking

LEMMA OverlapSymmetric ==
  ASSUME NEW a, NEW b
  PROVE  Overlap(a, b) <=> Overlap(b, a)
BY DEF Overlap, is_in_same_time_slot

LEMMA SameOverlap ==
  ASSUME NEW a \in Booking, NEW a1 \in Booking, NEW b \in Booking, NEW b1 \in Booking,
         SameBooking(a, a1), SameBooking(b, b1)
  PROVE  Overlap(a, b) <=> Overlap(a1, b1)
BY SameFields DEF Overlap, is_in_same_time_slot

(* What a write may make of a record: reject it while it is pending, or,    *)
(* in an approval, approve it unless it is rejected.                        *)
MayBecome(b, after, approving) ==
  \/ after = b
  \/ b.status = PENDING /\ after = WithStatus(b, REJECTED)
  \/ approving /\ b.status # REJECTED /\ after = WithStatus(b, APPROVED)

LEMMA BecomesSame ==
  ASSUME NEW b \in Booking, NEW after \in Booking, NEW approving \in BOOLEAN,
         MayBecome(b, after, approving)
  PROVE  /\ SameBooking(b, after)
         /\ after.status # REJECTED => b.status # REJECTED
         /\ b.status # PENDING => after.status = b.status
         /\ ~approving /\ after.status # REJECTED => after = b
<1>1. \A status \in BookingStatus : SameBooking(b, WithStatus(b, status))
                                    /\ WithStatus(b, status).status = status
  BY SameBookingFacts DEF WithStatus, Booking
<1>2. SameBooking(b, b) /\ APPROVED # REJECTED /\ PENDING # REJECTED /\ b.status \in BookingStatus
  BY SameBookingFacts, StatusTypes DEF APPROVED, REJECTED, PENDING, Booking
<1>3. CASE after = b
  BY <1>2, <1>3
<1>4. CASE b.status = PENDING /\ after = WithStatus(b, REJECTED)
  BY <1>1, <1>2, <1>4, StatusTypes
<1>5. CASE approving /\ b.status # REJECTED /\ after = WithStatus(b, APPROVED)
  BY <1>1, <1>2, <1>5, StatusTypes DEF BookingStatus
<1> QED BY <1>3, <1>4, <1>5 DEF MayBecome

(* A write enters a booking no other conflicts with, or decides.            *)
Enters(file, b) ==
  /\ b \in Booking /\ b.status = PENDING
  /\ \A i \in DOMAIN bookings : ~is_booking_conflict(bookings[i], b)
  /\ file = Append(bookings, b)

Decides(file, approving) ==
  /\ DOMAIN file = DOMAIN bookings
  /\ \A i \in DOMAIN bookings : MayBecome(bookings[i], file[i], approving)

LEMMA FlushEffect ==
  ASSUME StoreInv, WorkInv, "force" \notin Ops, NEW c \in Procs, pc[c] = "flush"
  PROVE  (\E b : Enters(Written(bookings, wbuf[c]), b)) \/ Decides(Written(bookings, wbuf[c]), FALSE)
<1>0. /\ bookings \in Seq(Booking) /\ wbuf[c] \in Write /\ wbuf[c].rec \in Booking
      /\ wbuf[c].mode \in {"none", "append", "over"} /\ BufferInv(c)
  BY DEF StoreInv, TypeOK, Write
<1>1. RoleInv(c) /\ CreateInv(c) /\ UpdateInv(c)
  BY DEF WorkInv, WorkOf
<1>2. CASE wbuf[c].mode = "append"
  BY <1>0, <1>1, <1>2 DEF CreateInv, Enters, Written
<1>3. CASE wbuf[c].mode = "over"
  <2>1. /\ wbuf[c].rec = WithStatus(bookings[wbuf[c].at], REJECTED)
        /\ bookings[wbuf[c].at].status = PENDING
    BY <1>1, <1>3 DEF UpdateInv, RoleInv
  <2> QED BY <1>0, <1>3, <2>1, OverwriteAt DEF BufferInv, Decides, MayBecome
<1> QED BY <1>0, <1>1, <1>2, <1>3 DEF UpdateInv

LEMMA RewriteEffect ==
  ASSUME StoreInv, WorkInv, NEW c \in Procs, PendingInv(c), pc[c] = "rewrite"
  PROVE  Decides(Written(bookings, wbuf[c]), TRUE)
<1> DEFINE w == wbuf[c]
           file == Written(bookings, w)
           target == arg[c]
<1>0. /\ bookings \in Seq(Booking) /\ w.mode \in {"none", "append", "over"} /\ w.rec \in Booking
      /\ target \in Booking /\ BufferInv(c) /\ ApprovalInv(c) /\ op[c] = "approve"
  BY DEF StoreInv, TypeOK, Write, ApprovalInv
<1>1. /\ DOMAIN file = DOMAIN bookings
      /\ \A k \in DOMAIN bookings :
           file[k] = IF w.mode = "over" /\ k = w.at THEN w.rec ELSE bookings[k]
  BY RewritingFile
<1>2. /\ target.status = APPROVED
      /\ w.mode = "over" => w.at < pos[c]
      /\ \A i \in DOMAIN bookings : i < pos[c] => file[i] = Decided(target, bookings[i])
  BY DEF WorkInv, WorkOf, RewriteInv
<1>3. w.mode = "over" => MayBecome(bookings[w.at], file[w.at], TRUE)
  <2> SUFFICES ASSUME w.mode = "over" PROVE MayBecome(bookings[w.at], file[w.at], TRUE)
    OBVIOUS
  <2> DEFINE b == bookings[w.at]
  <2>1. /\ w.at \in DOMAIN bookings /\ b \in Booking /\ w.rec = Decided(target, b)
        /\ SameBooking(b, w.rec) /\ file[w.at] = w.rec
    BY <1>0, <1>1, <1>2 DEF BufferInv
  <2>2. CASE b.booking_id = target.booking_id
    <3>1. w.rec = target /\ b.status # REJECTED
      BY <1>0, <2>1, <2>2 DEF Decided, PendingInv
    <3>2. WithStatus(b, APPROVED) = WithStatus(target, APPROVED)
      BY <1>0, <2>1, <3>1, SameFields, StatusTypes
    <3>3. WithStatus(target, APPROVED) = target
      BY <1>0, <1>2, OwnStatus
    <3> QED BY <2>1, <3>1, <3>2, <3>3 DEF MayBecome
  <2>3. CASE b.booking_id # target.booking_id
    BY <2>1, <2>3 DEF Decided, MayBecome
  <2> QED BY <2>2, <2>3
<1> QED BY <1>1, <1>3 DEF Decides, MayBecome

(* Every step is one process's, and reaches the file from its buffer only.  *)
LEMMA StepShape ==
  ASSUME TypeOK, NEW c \in Procs, Request(c) \/ Waiting(c) \/ Working(c) \/ Crash(c)
  PROVE  /\ MovesAlone(c)
         /\ \/ bookings' = bookings
            \/ Writes(c) /\ pc[c] \in {"rewrite", "flush"}
<1>1. CASE Request(c)
  BY <1>1 DEF Request, CreateRequest, ApproveRequest, RejectRequest, ForceRequest, Receive,
              MovesAlone, OnlyMoves, TypeOK
<1>2. CASE Waiting(c)
  BY <1>2 DEF Waiting, FindBooking, LockWriting, MovesAlone, OnlyMoves, TypeOK
<1>3. CASE CreateScan(c) \/ RejectScan(c) \/ ForceScan(c) \/ ApproveConflict(c) \/ ApproveStart(c)
  BY <1>3 DEF CreateScan, RejectScan, ForceScan, UpdateStatus, ApproveConflict, ApproveStart,
              Scanned, MovesAlone, OnlyMoves, TypeOK
<1>4. CASE ApproveNext(c) \/ ApproveEnd(c) \/ Flush(c)
  BY <1>4 DEF ApproveNext, ApproveEnd, Flush, Scanned, Writes, Holding, MovesAlone, OnlyMoves, TypeOK
<1>5. CASE Unlock(c) \/ Reply(c) \/ Crash(c)
  BY <1>5 DEF Unlock, Reply, Crash, Forget, MovesAlone, OnlyMoves, TypeOK
<1> QED BY <1>1, <1>2, <1>3, <1>4, <1>5 DEF Working

LEMMA FileStep ==
  ASSUME StoreInv, WorkInv, AllPending, "force" \notin Ops, [Next]_vars
  PROVE  bookings' = bookings \/ (\E b : Enters(bookings', b)) \/ Decides(bookings', TRUE)
<1>1. CASE UNCHANGED vars \/ Tick
  BY <1>1 DEF vars, Tick
<1>2. ASSUME NEW c \in Procs, Request(c) \/ Waiting(c) \/ Working(c) \/ Crash(c)
      PROVE  bookings' = bookings \/ (\E b : Enters(bookings', b)) \/ Decides(bookings', TRUE)
  <2>1. TypeOK
    BY DEF StoreInv
  <2>2. CASE bookings' = Written(bookings, wbuf[c]) /\ pc[c] = "flush"
    BY <2>2, FlushEffect DEF Decides, MayBecome
  <2>3. CASE bookings' = Written(bookings, wbuf[c]) /\ pc[c] = "rewrite"
    BY <2>3, RewriteEffect DEF AllPending
  <2> QED BY <1>2, <2>1, <2>2, <2>3, StepShape DEF Writes
<1> QED BY <1>1, <1>2 DEF Next

(* The only superuser's approval is not overtaken by anybody's step ...     *)
LEMMA OthersPending ==
  ASSUME StoreInv, WorkInv, Discipline, NEW c \in Procs, NEW d \in Procs \ {c}, MovesAlone(c),
         \/ bookings' = bookings
         \/ Writes(c) /\ pc[c] \in {"rewrite", "flush"},
         PendingInv(d)
  PROVE  PendingInv(d)'
<1>1. op'[d] = op[d] /\ pc'[d] = pc[d] /\ arg'[d] = arg[d]
  BY DEF MovesAlone, OnlyMoves
<1>2. CASE bookings' = bookings
  BY <1>1, <1>2 DEF PendingInv
<1>3. CASE op[d] # "approve"
  BY <1>1, <1>3 DEF PendingInv
<1>4. CASE op[d] = "approve" /\ Writes(c) /\ pc[c] \in {"rewrite", "flush"}
  <2>1. WorkOf(c) /\ RoleInv(c) /\ RoleInv(d) /\ ApprovalInv(c) /\ bookings \in Seq(Booking)
    BY DEF WorkInv, WorkOf, StoreInv, TypeOK
  <2>2. RoleOf[c] # "SUPERUSER"
    <3>1. RoleOf[d] = "SUPERUSER"
      BY <1>4, <2>1 DEF RoleInv
    <3> QED BY <3>1 DEF Discipline
  <2>3. pc[c] = "flush" /\ bookings' = Written(bookings, wbuf[c])
    BY <1>4, <2>1, <2>2 DEF RoleInv, ApprovalInv, Writes
  <2>4. \A i \in DOMAIN bookings : i \in DOMAIN bookings' /\ bookings'[i] = bookings[i]
    BY <2>1, <2>2, <2>3, UsersAppend
  <2>5. \A i \in DOMAIN bookings' : i \in DOMAIN bookings \/ bookings'[i].status = PENDING
    <3>1. (\E b : Enters(bookings', b)) \/ Decides(bookings', FALSE)
      BY <2>3, FlushEffect DEF Discipline
    <3>2. CASE \E b : Enters(bookings', b)
      <4>1. PICK b : b \in Booking /\ b.status = PENDING /\ bookings' = Append(bookings, b)
        BY <3>2 DEF Enters
      <4> QED BY <2>1, <4>1
    <3> QED BY <3>1, <3>2 DEF Decides
  <2>6. PENDING # REJECTED
    BY DEF PENDING, REJECTED
  <2> QED BY <1>1, <2>4, <2>5, <2>6 DEF PendingInv
<1> QED BY <1>2, <1>3, <1>4

(* ... nor does it spoil itself.                                            *)
LEMMA OwnPending ==
  ASSUME StoreInv, WorkInv, Discipline, WireForms \subseteq {"blank"}, NEW c \in Procs,
         PendingInv(c), Request(c) \/ Waiting(c) \/ Working(c) \/ Crash(c)
  PROVE  PendingInv(c)'
<1>0. TypeOK /\ bookings \in Seq(Booking) /\ WorkOf(c)
  BY DEF StoreInv, TypeOK, WorkInv
<1>1. CASE ApproveRequest(c)
  <2>1. PICK id \in TypedIds : \E booking \in Wires(id) :
          /\ \A b \in Range(bookings) : b.booking_id = id => b.status \in Approvable
          /\ Receive(c, "approve", booking, "find")
    BY <1>1 DEF ApproveRequest
  <2>2. PICK booking \in Wires(id) : Receive(c, "approve", booking, "find")
    BY <2>1
  <2>3. booking.booking_id = id
    BY DEF Wires, IdOnly, ZeroBooking
  <2>4. arg'[c] = booking /\ pc'[c] = "find" /\ bookings' = bookings
    BY <1>0, <2>2 DEF Receive, TypeOK
  <2>5. \A i \in DOMAIN bookings : bookings[i].booking_id = id => bookings[i].status = PENDING
    BY <2>1 DEF Discipline, Range
  <2> QED BY <2>3, <2>4, <2>5 DEF PendingInv
<1>2. CASE CreateRequest(c) \/ RejectRequest(c) \/ ForceRequest(c)
  <2>1. op'[c] # "approve"
    BY <1>0, <1>2 DEF CreateRequest, RejectRequest, ForceRequest, Receive, TypeOK
  <2> QED BY <2>1 DEF PendingInv
<1>3. CASE Waiting(c)
  <2>1. /\ UNCHANGED <<bookings, op, arg>> /\ pc[c] \in {"find", "lock"}
        /\ pc'[c] \in {"lock", "reply", "scan"}
    BY <1>0, <1>3 DEF Waiting, FindBooking, LockWriting, TypeOK
  <2> QED BY <2>1 DEF PendingInv
<1>4. CASE CreateScan(c) \/ RejectScan(c) \/ ForceScan(c)
  <2>1. op'[c] # "approve"
    BY <1>4 DEF CreateScan, RejectScan, ForceScan, UpdateStatus
  <2> QED BY <2>1 DEF PendingInv
<1>5. CASE ApproveStart(c)
  <2>1. /\ op[c] = "approve" /\ pc[c] = "scan" /\ pc'[c] = "rewrite" /\ bookings' = bookings
        /\ arg'[c] = WithStatus(found[c], APPROVED) /\ found[c] \in Booking
    BY <1>0, <1>5 DEF ApproveStart, Scanned, TypeOK
  <2>2. arg'[c].booking_id = arg[c].booking_id
    BY <1>0, <2>1 DEF WorkOf, LookInv, WithStatus, Booking
  <2> QED BY <2>1, <2>2 DEF PendingInv, PENDING, REJECTED
<1>6. CASE ApproveNext(c)
  <2> DEFINE file == Written(bookings, wbuf[c])
             target == arg[c]
  <2>1. /\ pc[c] = "rewrite" /\ bookings' = file /\ arg'[c] = target /\ op' = op
        /\ target \in Booking /\ DOMAIN file = DOMAIN bookings
        /\ target.status = APPROVED
    BY <1>0, <1>6, RewritingFile DEF ApproveNext, TypeOK, WorkOf, RewriteInv
  <2>2. \A i \in DOMAIN bookings : file[i] = bookings[i] \/ file[i] = Decided(target, bookings[i])
    BY <1>0, <2>1, RewritingFile DEF WorkOf, RewriteInv
  <2>3. \A i \in DOMAIN bookings : file[i].booking_id = target.booking_id =>
          file[i] = bookings[i] \/ file[i] = target
    <3> SUFFICES ASSUME NEW i \in DOMAIN bookings, bookings[i].booking_id # target.booking_id
                 PROVE  Decided(target, bookings[i]).booking_id # target.booking_id
      BY <2>2 DEF Decided
    <3>1. bookings[i] \in Booking
      BY <1>0
    <3> QED BY <3>1 DEF Decided, WithStatus, Booking
  <2> HIDE DEF file
  <2>4. \A i \in DOMAIN file : file[i].booking_id = target.booking_id /\ op[c] = "approve" =>
          file[i].status # REJECTED
    BY <2>1, <2>3 DEF PendingInv, APPROVED, REJECTED
  <2>5. pc'[c] = "rewrite"
    BY <1>0, <1>6 DEF ApproveNext, Scanned, TypeOK
  <2> QED BY <2>1, <2>4, <2>5 DEF PendingInv
<1>7. CASE ApproveEnd(c) \/ Flush(c) \/ Unlock(c) \/ Reply(c) \/ Crash(c)
  <2>1. pc'[c] \in {"unlock", "reply", "idle"}
    BY <1>0, <1>7 DEF ApproveEnd, Scanned, Flush, Unlock, Reply, Crash, Forget, TypeOK
  <2> QED BY <2>1 DEF PendingInv
<1>8. ~ApproveConflict(c)
  BY NoConflictWithWire DEF ApproveConflict
<1> QED BY <1>1, <1>2, <1>3, <1>4, <1>5, <1>6, <1>7, <1>8 DEF Request, Working

LEMMA PendingStep ==
  ASSUME StoreInv, WorkInv, AllPending, Discipline, WireForms \subseteq {"blank"}, [Next]_vars
  PROVE  AllPending'
<1>1. CASE UNCHANGED vars \/ Tick
  <2>1. UNCHANGED <<bookings, op, pc, arg>>
    BY <1>1 DEF vars, Tick, procVars
  <2> QED BY <2>1 DEF AllPending, PendingInv
<1>2. ASSUME NEW c \in Procs, Request(c) \/ Waiting(c) \/ Working(c) \/ Crash(c), NEW d \in Procs
      PROVE  PendingInv(d)'
  <2>1. /\ MovesAlone(c)
        /\ \/ bookings' = bookings
           \/ Writes(c) /\ pc[c] \in {"rewrite", "flush"}
    BY <1>2, StepShape DEF StoreInv
  <2> QED BY <1>2, <2>1, OwnPending, OthersPending DEF AllPending
<1> QED BY <1>1, <1>2 DEF Next, AllPending

THEOREM PendingIsApproved ==
  ASSUME WireForms \subseteq {"blank"}, Discipline
  PROVE  Spec => [](StoreInv /\ WorkInv /\ AllPending)
<1>1. Init => AllPending
  BY DEF Init, AllPending, PendingInv
<1>2. StoreInv /\ WorkInv /\ AllPending /\ [Next]_vars => AllPending'
  BY PendingStep
<1> QED BY <1>1, <1>2, WorkIsKnown, PTL DEF Spec

(* The status of a booking changes only from pending, wherever a process    *)
(* dies, when nobody forces one and one superuser approves what is pending. *)
THEOREM DecisionsAreFinal ==
  ASSUME WireForms \subseteq {"blank"}, Discipline
  PROVE  Spec => DecisionsFinal
<1>1. StoreInv /\ StoreInv' /\ WorkInv /\ AllPending /\ [Next]_vars
      => [\A i \in DOMAIN bookings \cap DOMAIN bookings' :
            bookings[i].status # PENDING => bookings'[i].status = bookings[i].status]_bookings
  <2> SUFFICES ASSUME StoreInv, StoreInv', WorkInv, AllPending, [Next]_vars,
                      bookings' # bookings,
                      NEW i \in DOMAIN bookings \cap DOMAIN bookings',
                      bookings[i].status # PENDING
               PROVE  bookings'[i].status = bookings[i].status
    OBVIOUS
  <2>1. bookings \in Seq(Booking) /\ bookings' \in Seq(Booking)
    BY DEF StoreInv, TypeOK
  <2>2. (\E b : Enters(bookings', b)) \/ Decides(bookings', TRUE)
    BY FileStep DEF Discipline
  <2>3. CASE \E b : Enters(bookings', b)
    BY <2>1, <2>3 DEF Enters
  <2>4. CASE Decides(bookings', TRUE)
    <3>1. bookings[i] \in Booking /\ bookings'[i] \in Booking /\ MayBecome(bookings[i], bookings'[i], TRUE)
      BY <2>1, <2>4 DEF Decides, MayBecome
    <3> QED BY <3>1, BecomesSame
  <2> QED BY <2>2, <2>3, <2>4
<1> QED BY <1>1, PendingIsApproved, PTL DEF Spec, DecisionsFinal

LEMMA SelfOverlapStep ==
  ASSUME StoreInv, StoreInv', WorkInv, AllPending, Discipline, [Next]_vars, NoSelfOverlap
  PROVE  NoSelfOverlap'
<1>0. bookings \in Seq(Booking) /\ bookings' \in Seq(Booking)
  BY DEF StoreInv, TypeOK
<1>1. CASE bookings' = bookings
  BY <1>1 DEF NoSelfOverlap
<1>2. CASE \E b : Enters(bookings', b)
  <2>1. PICK b : Enters(bookings', b)
    BY <1>2
  <2>2. /\ b \in Booking /\ b.status = PENDING /\ DOMAIN bookings' = 1 .. Len(bookings) + 1
        /\ bookings'[Len(bookings) + 1] = b
        /\ \A i \in DOMAIN bookings : bookings'[i] = bookings[i]
    BY <1>0, <2>1 DEF Enters
  <2>3. \A i \in DOMAIN bookings :
          bookings[i].username = b.username /\ bookings[i].status # REJECTED =>
            ~Overlap(bookings[i], b) /\ ~Overlap(b, bookings[i])
    BY <2>1, OverlapSymmetric DEF Enters, is_booking_conflict, PENDING, REJECTED
  <2> SUFFICES ASSUME NEW i \in DOMAIN bookings', NEW j \in DOMAIN bookings', i # j,
                      bookings'[i].username = bookings'[j].username,
                      bookings'[i].status # REJECTED, bookings'[j].status # REJECTED
               PROVE  ~Overlap(bookings'[i], bookings'[j])
    BY DEF NoSelfOverlap
  <2>4. i \in DOMAIN bookings \/ i = Len(bookings) + 1
    BY <1>0, <2>2
  <2>5. j \in DOMAIN bookings \/ j = Len(bookings) + 1
    BY <1>0, <2>2
  <2> QED BY <2>2, <2>3, <2>4, <2>5 DEF NoSelfOverlap
<1>3. CASE Decides(bookings', TRUE)
  <2> SUFFICES ASSUME NEW i \in DOMAIN bookings', NEW j \in DOMAIN bookings', i # j,
                      bookings'[i].username = bookings'[j].username,
                      bookings'[i].status # REJECTED, bookings'[j].status # REJECTED
               PROVE  ~Overlap(bookings'[i], bookings'[j])
    BY DEF NoSelfOverlap
  <2>1. \A k \in DOMAIN bookings' :
          /\ k \in DOMAIN bookings /\ bookings[k] \in Booking /\ bookings'[k] \in Booking
          /\ MayBecome(bookings[k], bookings'[k], TRUE)
    BY <1>0, <1>3 DEF Decides, MayBecome
  <2>2. \A k \in DOMAIN bookings' :
          /\ SameBooking(bookings[k], bookings'[k])
          /\ bookings'[k].status # REJECTED => bookings[k].status # REJECTED
    BY <2>1, BecomesSame
  <2>3. bookings[i].username = bookings'[i].username /\ bookings[j].username = bookings'[j].username
    BY <2>1, <2>2, SameFields
  <2>4. Overlap(bookings[i], bookings[j]) <=> Overlap(bookings'[i], bookings'[j])
    BY <2>1, <2>2, SameOverlap
  <2> QED BY <2>1, <2>2, <2>3, <2>4 DEF NoSelfOverlap
<1> QED BY <1>1, <1>2, <1>3, FileStep DEF Discipline

(* A user never holds one slot twice, through however many sessions it      *)
(* books and wherever a process dies, if it does not in the first file.     *)
THEOREM NoSlotTwice ==
  ASSUME WireForms \subseteq {"blank"}, Discipline
  PROVE  Spec /\ NoSelfOverlap => []NoSelfOverlap
<1>1. StoreInv /\ StoreInv' /\ WorkInv /\ AllPending /\ [Next]_vars /\ NoSelfOverlap
      => NoSelfOverlap'
  BY SelfOverlapStep
<1> QED BY <1>1, PendingIsApproved, PTL DEF Spec

-----------------------------------------------------------------------------
(* Under the discipline, no room is promised twice.                         *)

LEMMA SettledEnter ==
  ASSUME NEW file \in Seq(Booking), Settled(file), NEW b \in Booking, b.status = PENDING,
         \A i \in DOMAIN file : ~is_booking_conflict(file[i], b)
  PROVE  Settled(Append(file, b))
<1> DEFINE after == Append(file, b)
<1>1. /\ DOMAIN after = 1 .. Len(file) + 1 /\ after[Len(file) + 1] = b
      /\ \A i \in DOMAIN file : after[i] = file[i]
  OBVIOUS
<1>2. \A i \in DOMAIN file : file[i].status = APPROVED => ~Overlap(file[i], b)
  BY DEF is_booking_conflict, APPROVED, PENDING, REJECTED
<1>3. \A i \in DOMAIN after : i \in DOMAIN file \/ i = Len(file) + 1
  BY <1>1
<1> HIDE DEF after
<1>4. APPROVED # PENDING
  BY DEF APPROVED, PENDING
<1>5. Settled(after)
  BY <1>1, <1>2, <1>3, <1>4 DEF Settled
<1> QED BY <1>5 DEF after

LEMMA SettledReject ==
  ASSUME NEW file \in Seq(Booking), NEW after \in Seq(Booking), Settled(file),
         DOMAIN after = DOMAIN file,
         \A i \in DOMAIN file : after[i] = file[i] \/ after[i] = WithStatus(file[i], REJECTED)
  PROVE  Settled(after)
<1>1. \A i \in DOMAIN file : WithStatus(file[i], REJECTED).status = REJECTED
  <2> SUFFICES ASSUME NEW b \in Booking PROVE WithStatus(b, REJECTED).status = REJECTED
    OBVIOUS
  <2> QED BY DEF WithStatus, Booking
<1>2. \A i \in DOMAIN file : after[i].status # REJECTED => after[i] = file[i]
  BY <1>1
<1>3. APPROVED # REJECTED
  BY DEF APPROVED, REJECTED
<1> QED BY <1>2, <1>3 DEF Settled

(* Approving what is not rejected settles its slot.                         *)
LEMMA SettledApprove ==
  ASSUME NEW file \in Seq(Booking), Settled(file), NEW k \in DOMAIN file,
         file[k].status # REJECTED, NEW target, target = WithStatus(file[k], APPROVED),
         \A i \in DOMAIN file : file[i].booking_id = target.booking_id => i = k
  PROVE  Settled(Settling(file, target))
<1> DEFINE after == Settling(file, target)
<1>1. \A i \in DOMAIN file : file[i] \in Booking
  OBVIOUS
<1>2. /\ target \in Booking /\ target.status = APPROVED /\ target.booking_id = file[k].booking_id
      /\ SameBooking(file[k], target)
  BY <1>1, WithStatusType, StatusTypes, SameBookingFacts DEF WithStatus, Booking
<1>3. DOMAIN after = DOMAIN file /\ \A i \in DOMAIN file : after[i] = Decided(target, file[i])
  BY DEF Settling
<1>4. after[k] = target
  BY <1>2, <1>3 DEF Decided
<1>5. APPROVED # REJECTED /\ PENDING # REJECTED /\ APPROVED # PENDING
  BY DEF APPROVED, REJECTED, PENDING
<1> HIDE DEF after
<1>6. \A i \in DOMAIN file : i # k /\ after[i].status # REJECTED =>
        after[i] = file[i] /\ (file[i].status = PENDING => ~Overlap(file[i], target))
  <2> SUFFICES ASSUME NEW i \in DOMAIN file, i # k, after[i].status # REJECTED
               PROVE  after[i] = file[i] /\ (file[i].status = PENDING => ~Overlap(file[i], target))
    OBVIOUS
  <2>1. after[i] = IF file[i].status = PENDING /\ Overlap(file[i], target)
                   THEN WithStatus(file[i], REJECTED) ELSE file[i]
    BY <1>3 DEF Decided
  <2>2. WithStatus(file[i], REJECTED).status = REJECTED
    BY <1>1 DEF WithStatus, Booking
  <2> QED BY <2>1, <2>2
<1>7. \A i \in DOMAIN file : i # k /\ after[i].status # REJECTED => ~Overlap(after[i], target)
  <2> SUFFICES ASSUME NEW i \in DOMAIN file, i # k, after[i].status # REJECTED, file[i].status # PENDING
               PROVE  ~Overlap(file[i], target)
    BY <1>6
  <2>1. file[i].status = APPROVED
    BY <1>1, <1>6 DEF Booking, BookingStatus
  <2>2. ~Overlap(file[i], file[k])
    BY <2>1 DEF Settled
  <2>3. SameBooking(file[i], file[i])
    BY <1>1, SameBookingFacts, StatusTypes
  <2> QED BY <1>1, <1>2, <2>2, <2>3, SameOverlap
<1>8. Settled(after)
  <2> SUFFICES ASSUME NEW i \in DOMAIN file, NEW j \in DOMAIN file, i # j,
                      after[i].status = APPROVED, after[j].status # REJECTED
               PROVE  ~Overlap(after[i], after[j])
    BY <1>3 DEF Settled
  <2>1. CASE i = k
    BY <1>4, <1>7, <2>1, OverlapSymmetric
  <2>2. CASE j = k
    BY <1>4, <1>5, <1>7, <2>2
  <2>3. CASE i # k /\ j # k
    BY <1>5, <1>6, <2>3 DEF Settled
  <2> QED BY <2>1, <2>2, <2>3
<1> QED BY <1>8 DEF after

LEMMA SettledStart ==
  ASSUME StoreInv, StoreInv', WorkInv, SettledLedger, NEW c \in Procs, PendingInv(c), ApproveStart(c)
  PROVE  SettledLedger'
<1>1. /\ TypeOK /\ pc[c] = "scan" /\ op[c] = "approve" /\ found[c] \in Booking
      /\ LockInv /\ LockInv' /\ FoundInv(c) /\ BufferInv(c) /\ ApprovalInv(c) /\ LookInv(c)
      /\ UniqueIds /\ bookings \in Seq(Booking)
  BY DEF ApproveStart, StoreInv, TypeOK, WorkInv, WorkOf
<1> DEFINE target == WithStatus(found[c], APPROVED)
<1>2. /\ arg'[c] = target /\ pc'[c] = "rewrite" /\ bookings' = bookings
  BY <1>1 DEF ApproveStart, Scanned, TypeOK
<1>3. LedgerOf = bookings
  BY <1>1, NobodyApproves DEF Holding, Approving
<1>4. LedgerOf' = Settling(bookings, target)
  BY <1>1, <1>2, LedgerThen DEF Approving
<1>5. PICK k \in DOMAIN bookings : SameBooking(bookings[k], found[c])
  BY <1>1 DEF FoundInv, ApprovalInv, BufferInv, StoredIn
<1>6. bookings[k] \in Booking /\ bookings[k].booking_id = found[c].booking_id
      /\ target = WithStatus(bookings[k], APPROVED)
  BY <1>1, <1>5, SameFields, StatusTypes
<1>7. target.booking_id = found[c].booking_id
  BY <1>1 DEF WithStatus, Booking
<1>8. \A i \in DOMAIN bookings : bookings[i].booking_id = target.booking_id => i = k
  BY <1>1, <1>6, <1>7 DEF UniqueIds, ApprovalInv
<1>9. bookings[k].status # REJECTED
  BY <1>1, <1>6 DEF PendingInv, LookInv, PENDING, REJECTED
<1> HIDE DEF target
<1>10. Settled(Settling(bookings, target))
  BY <1>1, <1>3, <1>6, <1>8, <1>9, SettledApprove DEF SettledLedger
<1> QED BY <1>4, <1>10 DEF SettledLedger, Settled

LEMMA SettledFlush ==
  ASSUME StoreInv, StoreInv', WorkInv, "force" \notin Ops, SettledLedger, NEW c \in Procs, Flush(c)
  PROVE  SettledLedger'
<1>1. /\ LockInv /\ LockInv' /\ pc[c] = "flush" /\ pc'[c] = "unlock"
      /\ bookings' = Written(bookings, wbuf[c])
      /\ bookings \in Seq(Booking) /\ bookings' \in Seq(Booking)
  BY DEF StoreInv, TypeOK, Flush
<1>2. LedgerOf = bookings /\ LedgerOf' = bookings'
  BY <1>1, NobodyApproves, NobodyApprovesThen DEF Holding, Approving
<1>3. Settled(bookings)
  BY <1>2 DEF SettledLedger
<1>4. CASE \E b : Enters(bookings', b)
  BY <1>1, <1>2, <1>3, <1>4, SettledEnter DEF Enters, SettledLedger, Settled
<1>5. CASE Decides(bookings', FALSE)
  <2>1. DOMAIN bookings' = DOMAIN bookings
        /\ \A i \in DOMAIN bookings : \/ bookings'[i] = bookings[i]
                                      \/ bookings'[i] = WithStatus(bookings[i], REJECTED)
    BY <1>5 DEF Decides, MayBecome
  <2> QED BY <1>1, <1>2, <1>3, <2>1, SettledReject DEF SettledLedger, Settled
<1> QED BY <1>1, <1>4, <1>5, FlushEffect

LEMMA SettledStep ==
  ASSUME StoreInv, StoreInv', WorkInv, AllPending, Discipline, [Next]_vars, NobodyDiesApproving,
         SettledLedger
  PROVE  SettledLedger'
<1>1. LedgerOf' = LedgerOf => SettledLedger'
  BY DEF SettledLedger, Settled
<1>2. CASE UNCHANGED vars \/ Tick
  BY <1>1, <1>2, LedgerAsleep
<1>3. ASSUME NEW c \in Procs, QuietStep(c) PROVE SettledLedger'
  BY <1>1, <1>3, QuietSteps, LedgerSame DEF StoreInv
<1>4. ASSUME NEW c \in Procs, ApproveStart(c) PROVE SettledLedger'
  BY <1>4, SettledStart DEF AllPending
<1>5. ASSUME NEW c \in Procs, ApproveNext(c) \/ ApproveEnd(c) PROVE SettledLedger'
  BY <1>1, <1>5, ApproveNextHidden, ApproveEndHidden
<1>6. ASSUME NEW c \in Procs, Flush(c) PROVE SettledLedger'
  BY <1>6, SettledFlush DEF Discipline
<1>7. ASSUME NEW c \in Procs, Crash(c) PROVE SettledLedger'
  BY <1>1, <1>7, CrashHidden DEF NobodyDiesApproving
<1> QED BY <1>2, <1>3, <1>4, <1>5, <1>6, <1>7 DEF Next, Working, QuietStep

(* The file itself, in the middle of an approval too, is as good as the     *)
(* ledger where the room is concerned.                                      *)
LEMMA LedgerRooms ==
  ASSUME StoreInv, WorkInv, SettledLedger
  PROVE  NoDoubleBooking /\ SettledBookings
<1>0. LockInv /\ UniqueIds /\ bookings \in Seq(Booking)
  BY DEF StoreInv, TypeOK
<1>1. APPROVED # REJECTED /\ PENDING # REJECTED /\ APPROVED # PENDING
  BY DEF APPROVED, REJECTED, PENDING
<1>2. CASE \A c \in Procs : ~Approving(c)
  <2>1. Settled(bookings)
    BY <1>2, LedgerOtherwise DEF SettledLedger
  <2> QED BY <1>1, <2>1 DEF Settled, NoDoubleBooking, SettledBookings
<1>3. CASE \E c \in Procs : Approving(c)
  <2>1. PICK c \in Procs : Approving(c)
    BY <1>3
  <2> DEFINE target == arg[c]
  <2>2. /\ LedgerOf = Settling(bookings, target) /\ target \in Booking /\ lock[c] = "write"
        /\ target.booking_id # 0 /\ StoredIn(bookings, target)
    BY <1>0, <2>1, LedgerWhile DEF StoreInv, TypeOK, ApprovalInv, Approving, LockInv, Holding
  <2>3. PICK k \in DOMAIN bookings : SameBooking(bookings[k], target)
    BY <2>2 DEF StoredIn
  <2>4. \A i \in DOMAIN bookings : bookings[i] \in Booking
    BY <1>0
  <2>5. /\ bookings[k].booking_id = target.booking_id
        /\ bookings[k].status = target.status => bookings[k] = target
    BY <2>2, <2>3, <2>4, SameFields
  <2>6. \A i \in DOMAIN bookings : bookings[i].booking_id = target.booking_id => i = k
    BY <1>0, <2>2, <2>5 DEF UniqueIds
  <2>7. NoDoubleBooking
    <3> SUFFICES ASSUME NEW i \in DOMAIN bookings, NEW j \in DOMAIN bookings, i # j,
                        bookings[i].status = APPROVED, bookings[j].status = APPROVED
                 PROVE  ~Overlap(bookings[i], bookings[j])
      BY DEF NoDoubleBooking
    <3>1. /\ DOMAIN LedgerOf = DOMAIN bookings
          /\ \A n \in DOMAIN bookings : LedgerOf[n] = Decided(target, bookings[n])
      BY <2>2 DEF Settling
    <3>2. target.status = APPROVED
      BY <2>1 DEF WorkInv, WorkOf, RewriteInv, Approving
    <3>3. LedgerOf[i] = bookings[i] /\ LedgerOf[j] = bookings[j]
      BY <1>1, <2>3, <2>5, <2>6, <3>1, <3>2 DEF Decided
    <3> QED BY <1>1, <3>1, <3>3 DEF SettledLedger, Settled
  <2>8. SettledBookings
    BY <2>2 DEF SettledBookings
  <2> QED BY <2>7, <2>8
<1> QED BY <1>2, <1>3

LEMMA RoomsBegin ==
  Init /\ NoDoubleBooking /\ SettledBookings => SettledLedger
<1> SUFFICES ASSUME Init, NoDoubleBooking, SettledBookings PROVE Settled(bookings)
  BY LedgerOtherwise DEF Init, Approving, SettledLedger
<1>1. StoreInv /\ \A c \in Procs : lock[c] # "write"
  BY InitKeeps DEF Init
<1>2. \A i \in DOMAIN bookings : bookings[i].status \in BookingStatus
  <2>1. \A b \in Booking : b.status \in BookingStatus
    BY DEF Booking
  <2> QED BY <1>1, <2>1 DEF StoreInv, TypeOK
<1> QED BY <1>1, <1>2 DEF Settled, NoDoubleBooking, SettledBookings, BookingStatus

(* What bookings.dat promises stays settled, from one decision to the next: *)
(* nothing that is not rejected stands beside an approved booking, if it is *)
(* so in the first file and no process dies in the rewriting of an approval.*)
THEOREM LedgerStaysSettled ==
  ASSUME WireForms \subseteq {"blank"}, Discipline
  PROVE  Spec /\ [][NobodyDiesApproving]_vars /\ NoDoubleBooking /\ SettledBookings
           => []SettledLedger
<1>1. StoreInv /\ StoreInv' /\ WorkInv /\ AllPending /\ [Next]_vars /\ [NobodyDiesApproving]_vars
      /\ SettledLedger => SettledLedger'
  <2>1. StoreInv /\ UNCHANGED vars => NobodyDiesApproving
    BY DEF NobodyDiesApproving, vars, Crash, StoreInv, TypeOK
  <2> QED BY <2>1, SettledStep
<1> QED BY <1>1, RoomsBegin, PendingIsApproved, PTL DEF Spec

(* The inductive invariant of the decisions: an approval in the middle of   *)
(* its work has not been overtaken, no user's bookings overlap, and what    *)
(* approve_booking has promised stays settled while it rewrites the file.   *)
THEOREM DecisionsHold ==
  ASSUME WireForms \subseteq {"blank"}, Discipline
  PROVE  Spec /\ [][NobodyDiesApproving]_vars /\ NoSelfOverlap /\ NoDoubleBooking /\ SettledBookings
           => []DecisionInv
<1>1. StoreInv /\ WorkInv /\ AllPending /\ NoSelfOverlap /\ SettledLedger => DecisionInv
  BY DEF DecisionInv
<1> QED BY <1>1, PendingIsApproved, NoSlotTwice, LedgerStaysSettled, PTL

(* No two approved bookings overlap in a room, under the same conditions,   *)
(* also while an approval rewrites the file record by record.               *)
THEOREM NoRoomTwice ==
  ASSUME WireForms \subseteq {"blank"}, Discipline
  PROVE  Spec /\ [][NobodyDiesApproving]_vars /\ NoDoubleBooking /\ SettledBookings
           => []NoDoubleBooking
<1>1. StoreInv /\ WorkInv /\ SettledLedger => NoDoubleBooking
  BY LedgerRooms
<1> QED BY <1>1, LedgerStaysSettled, PendingIsApproved, PTL

(* No pending booking overlaps an approved one while nobody writes, under   *)
(* the same conditions: the loop of approve_booking has rejected them all.  *)
THEOREM RivalsAreRejected ==
  ASSUME WireForms \subseteq {"blank"}, Discipline
  PROVE  Spec /\ [][NobodyDiesApproving]_vars /\ NoDoubleBooking /\ SettledBookings
           => []SettledBookings
<1>1. StoreInv /\ WorkInv /\ SettledLedger => SettledBookings
  BY LedgerRooms
<1> QED BY <1>1, LedgerStaysSettled, PendingIsApproved, PTL

=============================================================================
