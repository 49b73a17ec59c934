------------------------- MODULE BookingStoreProofs -------------------------
(***************************************************************************)
(* What holds of BookingStore for any number of processes, users, rooms,   *)
(* bookings and crashes.                                                   *)
(***************************************************************************)
EXTENDS BookingStore, RecordTheorems, SequenceTheorems

LEMMA ZeroBookingType ==
  ZeroBooking \in Booking
<1>1. 0 \in 0 .. IdLimit - 1
  BY RecordAssumption
<1> QED BY <1>1 DEF ZeroBooking, Booking, BookingStatus, PENDING

LEMMA WithStatusType ==
  ASSUME NEW b \in Booking, NEW status \in BookingStatus
  PROVE  WithStatus(b, status) \in Booking
BY DEF WithStatus, Booking

LEMMA WrittenType ==
  ASSUME NEW file \in Seq(Booking), NEW w \in Write
  PROVE  /\ Written(file, w) \in Seq(Booking)
         /\ Len(Written(file, w)) = IF w.mode = "append" THEN Len(file) + 1 ELSE Len(file)
<1>1. w.mode \in {"none", "append", "over"} /\ w.at \in Nat /\ w.rec \in Booking
  BY DEF Write
<1>2. CASE w.mode = "none"
  BY <1>2 DEF Written
<1>3. CASE w.mode = "append"
  BY <1>1, <1>3 DEF Written
<1>4. CASE w.mode = "over"
  <2>1. Written(file, w) = [file EXCEPT ![w.at] = w.rec]
    BY <1>4 DEF Written
  <2>2. CASE w.at \in DOMAIN file
    BY <1>1, <1>4, <2>1, <2>2, ExceptSeq
  <2>3. CASE w.at \notin DOMAIN file
    <3>1. file = [i \in 1 .. Len(file) |-> file[i]]
      OBVIOUS
    <3>2. Written(file, w) = file
      BY <2>1, <2>3, <3>1
    <3> QED BY <1>4, <3>2
  <2> QED BY <2>2, <2>3
<1> QED BY <1>1, <1>2, <1>3, <1>4

LEMMA WriteTypes ==
  /\ NoWrite \in Write
  /\ \A rec \in Booking : AppendOf(rec) \in Write
  /\ \A rec \in Booking, at \in Nat : Overwrite(at, rec) \in Write
BY ZeroBookingType DEF Write, NoWrite, AppendOf, Overwrite

LEMMA StatusTypes ==
  PENDING \in BookingStatus /\ APPROVED \in BookingStatus /\ REJECTED \in BookingStatus
BY DEF BookingStatus

-----------------------------------------------------------------------------
(* Type correctness.                                                        *)

LEMMA NamedIndex ==
  ASSUME bookings \in Seq(Booking), NEW id, Named(id) # 0
  PROVE  Named(id) \in DOMAIN bookings /\ bookings[Named(id)] \in Booking
                                       /\ bookings[Named(id)].booking_id = id
<1> DEFINE hits == {i \in DOMAIN bookings : bookings[i].booking_id = id}
<1>1. hits \in SUBSET DOMAIN bookings
  OBVIOUS
<1>2. Named(id) = FirstOf(hits)
  BY DEF Named
<1>3. Named(id) \in hits
  <2> HIDE DEF hits
  <2> QED BY <1>1, <1>2, FirstOfFile
<1> QED BY <1>3

LEMMA InitType == Init => TypeOK
<1> SUFFICES ASSUME Init PROVE TypeOK
  OBVIOUS
<1>1. bookings \in Seq(Booking) /\ now \in Nat /\ crashes \in Nat
  BY StoreAssumption DEF Init
<1>2. \A c \in Procs : NoReply \in Answer /\ NoWrite \in Write /\ ZeroBooking \in Booking
  BY ZeroBookingType, WriteTypes DEF NoReply, Answer
<1> QED BY <1>1, <1>2 DEF Init, TypeOK, Phases

LEMMA ReceiveType ==
  ASSUME TypeOK, NEW c \in Procs, NEW operation \in Operations, NEW booking \in Booking,
         NEW next \in Phases, Receive(c, operation, booking, next)
  PROVE  TypeOK'
BY ZeroBookingType DEF TypeOK, Receive, NoReply, Answer

LEMMA IdOnlyType ==
  ASSUME NEW id \in TypedIds
  PROVE  IdOnly(id) \in Booking /\ id # 0
<1>1. id \in 0 .. IdLimit - 1 /\ id # 0
  BY StoreAssumption, RecordAssumption
<1> QED BY <1>1, ZeroBookingType DEF IdOnly, Booking

LEMMA NewBookingType ==
  ASSUME NEW c \in Procs, NEW room \in TypedRooms, NEW interval \in Intervals
  PROVE  NewBooking(c, room, interval) \in Booking
<1>1. room \in Nat /\ interval[1] \in Nat /\ interval[2] \in Nat /\ UserOf[c] \in Usernames
  BY StoreAssumption
<1> QED BY <1>1, ZeroBookingType DEF NewBooking, Booking

LEMMA RequestType ==
  ASSUME TypeOK, NEW c \in Procs, Request(c)
  PROVE  TypeOK'
<1>1. CASE CreateRequest(c)
  <2>1. PICK room \in TypedRooms, interval \in Intervals :
          \E next \in {"lock", "reply"} :
            Receive(c, "create", NewBooking(c, room, interval), next)
    BY <1>1 DEF CreateRequest
  <2>2. NewBooking(c, room, interval) \in Booking
    BY NewBookingType
  <2> QED BY <2>1, <2>2, ReceiveType DEF Operations, Phases
<1>2. CASE ApproveRequest(c)
  <2>0. PICK id \in TypedIds :
          \E booking \in Wires(id) : Receive(c, "approve", booking, "find")
    BY <1>2 DEF ApproveRequest
  <2>1. PICK booking \in Wires(id) : Receive(c, "approve", booking, "find")
    BY <2>0
  <2>2. booking \in Booking
    <3>1. \A b \in Range(bookings) : b \in Booking
      BY DEF TypeOK, Range
    <3> QED BY <3>1, IdOnlyType DEF Wires
  <2> QED BY <2>1, <2>2, ReceiveType DEF Operations, Phases
<1>3. CASE RejectRequest(c)
  <2>1. PICK id \in TypedIds : Receive(c, "reject", IdOnly(id), "lock")
    BY <1>3 DEF RejectRequest
  <2> QED BY <2>1, IdOnlyType, ReceiveType DEF Operations, Phases
<1>4. CASE ForceRequest(c)
  <2>1. PICK id \in TypedIds, status \in BookingStatus :
          Receive(c, "force", WithStatus(IdOnly(id), status), "lock")
    BY <1>4 DEF ForceRequest
  <2>2. WithStatus(IdOnly(id), status) \in Booking
    BY IdOnlyType, WithStatusType
  <2> QED BY <2>1, <2>2, ReceiveType DEF Operations, Phases
<1> QED BY <1>1, <1>2, <1>3, <1>4 DEF Request

(* A scan that leaves the file and the clock alone.                         *)
LEMMA ScannedType ==
  ASSUME TypeOK, NEW c \in Procs, NEW w \in Write, NEW result \in Booking, NEW next \in Phases,
         Scanned(c, w, result, next), UNCHANGED <<bookings, now, lock, op, reply, crashes>>,
         arg' \in [Procs -> Booking], pos' \in [Procs -> Nat \ {0}]
  PROVE  TypeOK'
BY DEF TypeOK, Scanned

LEMMA UpdateType ==
  ASSUME TypeOK, NEW c \in Procs, NEW operation, NEW i, i # 0 => i \in DOMAIN bookings,
         NEW status \in BookingStatus, UpdateStatus(c, operation, i, status)
  PROVE  TypeOK'
<1>1. UNCHANGED <<bookings, now, lock, op, reply, crashes>>
      /\ arg' \in [Procs -> Booking] /\ pos' \in [Procs -> Nat \ {0}]
  BY DEF UpdateStatus, TypeOK
<1>2. CASE /\ i # 0
           /\ Scanned(c, Overwrite(i, WithStatus(bookings[i], status)),
                      WithStatus(bookings[i], status), "flush")
  <2>1. bookings[i] \in Booking /\ i \in Nat
    BY <1>2 DEF TypeOK
  <2>2. WithStatus(bookings[i], status) \in Booking
    BY <2>1, WithStatusType
  <2> QED BY <1>1, <1>2, <2>1, <2>2, ScannedType, WriteTypes DEF Phases
<1>3. CASE Scanned(c, NoWrite, ZeroBooking, "unlock")
  BY <1>1, <1>3, ScannedType, WriteTypes, ZeroBookingType DEF Phases
<1> QED BY <1>2, <1>3 DEF UpdateStatus

LEMMA WaitingType ==
  ASSUME TypeOK, NEW c \in Procs, Waiting(c)
  PROVE  TypeOK'
<1>1. CASE FindBooking(c)
  <2> DEFINE i == Named(arg[c].booking_id)
  <2>1. i # 0 => bookings[i] \in Booking
    BY NamedIndex DEF TypeOK
  <2> HIDE DEF i
  <2>2. CASE i # 0 /\ found' = [found EXCEPT ![c] = bookings[i]]
                  /\ pc' = [pc EXCEPT ![c] = "lock"]
    BY <1>1, <2>1, <2>2 DEF FindBooking, TypeOK, Phases
  <2>3. CASE pc' = [pc EXCEPT ![c] = "reply"] /\ UNCHANGED found
    BY <1>1, <2>3 DEF FindBooking, TypeOK, Phases
  <2> QED BY <1>1, <2>2, <2>3 DEF FindBooking, i
<1>2. CASE LockWriting(c)
  BY <1>2 DEF LockWriting, TypeOK, Phases
<1> QED BY <1>1, <1>2 DEF Waiting

LEMMA CreatedType ==
  ASSUME TypeOK, NEW c \in Procs
  PROVE  [WithStatus(arg[c], PENDING) EXCEPT !.booking_id = NextId(bookings)] \in Booking
<1>1. arg[c] \in Booking /\ bookings \in Seq(Booking)
  BY DEF TypeOK
<1>2. NextId(bookings) \in 0 .. IdLimit - 1 /\ WithStatus(arg[c], PENDING) \in Booking
  BY <1>1, NextIdNew, WithStatusType, StatusTypes
<1> QED BY <1>2 DEF Booking

LEMMA ScanType ==
  ASSUME TypeOK, NEW c \in Procs,
         \/ CreateScan(c) \/ RejectScan(c) \/ ForceScan(c) \/ ApproveConflict(c) \/ ApproveStart(c)
  PROVE  TypeOK'
<1> USE WriteTypes, ZeroBookingType, StatusTypes
<1>0. bookings \in Seq(Booking) /\ arg \in [Procs -> Booking] /\ found \in [Procs -> Booking]
      /\ pos \in [Procs -> Nat \ {0}]
  BY DEF TypeOK
<1>1. CASE CreateScan(c)
  <2> DEFINE created == [WithStatus(arg[c], PENDING) EXCEPT !.booking_id = NextId(bookings)]
  <2>1. created \in Booking /\ AppendOf(created) \in Write
    BY CreatedType
  <2>2. UNCHANGED <<bookings, now, lock, op, reply, crashes>>
        /\ arg' \in [Procs -> Booking] /\ pos' \in [Procs -> Nat \ {0}]
    BY <1>0, <1>1 DEF CreateScan
  <2>3. \/ Scanned(c, NoWrite, ZeroBooking, "unlock")
        \/ Scanned(c, AppendOf(created), created, "flush")
    BY <1>1 DEF CreateScan
  <2> HIDE DEF created
  <2> QED BY <2>1, <2>2, <2>3, ScannedType DEF Phases
<1>2. CASE RejectScan(c)
  <2> DEFINE hits == {i \in DOMAIN bookings : /\ bookings[i].booking_id = arg[c].booking_id
                                             /\ bookings[i].status = PENDING
                                             /\ ~is_booking_in_past(bookings[i], now)}
  <2>1. hits \in SUBSET DOMAIN bookings /\ UpdateStatus(c, "reject", FirstOf(hits), REJECTED)
    BY <1>2 DEF RejectScan
  <2> HIDE DEF hits
  <2>2. FirstOf(hits) # 0 => FirstOf(hits) \in DOMAIN bookings
    BY <1>0, <2>1, FirstOfFile
  <2> QED BY <2>1, <2>2, UpdateType
<1>3. CASE ForceScan(c)
  <2>1. arg[c].status \in BookingStatus
    BY <1>0 DEF Booking
  <2>2. Named(arg[c].booking_id) # 0 => Named(arg[c].booking_id) \in DOMAIN bookings
    BY <1>0, NamedIndex
  <2> QED BY <1>3, <2>1, <2>2, UpdateType DEF ForceScan
<1>4. CASE ApproveConflict(c)
  <2> DEFINE i == ConflictWithWire(c)
  <2>1. i \in DOMAIN bookings
    <3> DEFINE hits == {j \in DOMAIN bookings : /\ is_booking_conflict(bookings[j], arg[c])
                                               /\ bookings[j].booking_id # arg[c].booking_id}
    <3>1. hits \in SUBSET DOMAIN bookings /\ i = FirstOf(hits) /\ i # 0
      BY <1>4 DEF ConflictWithWire, ApproveConflict
    <3> HIDE DEF hits, i
    <3> QED BY <1>0, <3>1, FirstOfFile
  <2>2. UNCHANGED <<bookings, now, lock, op, reply, crashes>>
        /\ arg' \in [Procs -> Booking] /\ pos' \in [Procs -> Nat \ {0}]
        /\ Scanned(c, Overwrite(i, WithStatus(found[c], REJECTED)), ZeroBooking, "flush")
    BY <1>0, <1>4 DEF ApproveConflict
  <2> HIDE DEF i
  <2>3. WithStatus(found[c], REJECTED) \in Booking /\ i \in Nat
    BY <1>0, <2>1, WithStatusType
  <2> QED BY <2>2, <2>3, ScannedType DEF Phases
<1>5. CASE ApproveStart(c)
  <2>1. WithStatus(found[c], APPROVED) \in Booking
    BY <1>0, WithStatusType
  <2>2. UNCHANGED <<bookings, now, lock, op, reply, crashes>>
        /\ arg' \in [Procs -> Booking] /\ pos' \in [Procs -> Nat \ {0}]
        /\ Scanned(c, NoWrite, ZeroBooking, "rewrite")
    BY <1>0, <1>5, <2>1 DEF ApproveStart
  <2> QED BY <2>2, ScannedType DEF Phases
<1> QED BY <1>1, <1>2, <1>3, <1>4, <1>5


(* Steps that put the buffered record into the file.                        *)
LEMMA WritingType ==
  ASSUME TypeOK, NEW c \in Procs, ApproveNext(c) \/ ApproveEnd(c) \/ Flush(c)
  PROVE  TypeOK'
<1> USE WriteTypes, StatusTypes
<1> DEFINE file == Written(bookings, wbuf[c])
<1>0. /\ arg \in [Procs -> Booking] /\ found \in [Procs -> Booking] /\ pos \in [Procs -> Nat \ {0}]
      /\ pc \in [Procs -> Phases] /\ wbuf \in [Procs -> Write] /\ file \in Seq(Booking)
  BY WrittenType DEF TypeOK
<1>1. CASE ApproveNext(c)
  <2> DEFINE i == pos[c]
  <2>1. i \in DOMAIN file /\ i \in Nat
    BY <1>0, <1>1 DEF ApproveNext
  <2>2. file[i] \in Booking
    BY <1>0, <2>1
  <2>3. /\ bookings' = file
        /\ pos' = [pos EXCEPT ![c] = i + 1]
        /\ UNCHANGED <<now, lock, op, arg, reply, crashes>>
    BY <1>1 DEF ApproveNext
  <2>4. \/ Scanned(c, Overwrite(i, arg[c]), arg[c], "rewrite")
        \/ Scanned(c, Overwrite(i, WithStatus(file[i], REJECTED)), found[c], "rewrite")
        \/ Scanned(c, NoWrite, found[c], "rewrite")
    BY <1>1 DEF ApproveNext
  <2> HIDE DEF file, i
  <2>5. \E w \in Write, result \in Booking : Scanned(c, w, result, "rewrite")
    BY <1>0, <2>1, <2>2, <2>4, WithStatusType
  <2>6. wbuf' \in [Procs -> Write] /\ found' \in [Procs -> Booking] /\ pc' \in [Procs -> Phases]
    BY <1>0, <2>5 DEF Scanned, Phases
  <2>7. pos' \in [Procs -> Nat \ {0}]
    BY <1>0, <2>1, <2>3
  <2> QED BY <1>0, <2>3, <2>6, <2>7 DEF TypeOK
<1>2. CASE ApproveEnd(c)
  <2>1. /\ bookings' = file
        /\ UNCHANGED <<now, lock, op, arg, pos, reply, crashes>>
        /\ Scanned(c, NoWrite, found[c], "unlock")
    BY <1>2 DEF ApproveEnd
  <2> HIDE DEF file
  <2>2. wbuf' \in [Procs -> Write] /\ found' \in [Procs -> Booking] /\ pc' \in [Procs -> Phases]
    BY <1>0, <2>1 DEF Scanned, Phases
  <2> QED BY <1>0, <2>1, <2>2 DEF TypeOK
<1>3. CASE Flush(c)
  <2>1. /\ bookings' = file
        /\ wbuf' = [wbuf EXCEPT ![c] = NoWrite]
        /\ pc' = [pc EXCEPT ![c] = "unlock"]
        /\ UNCHANGED <<now, lock, op, arg, found, pos, reply, crashes>>
    BY <1>3 DEF Flush
  <2> HIDE DEF file
  <2> QED BY <1>0, <2>1 DEF TypeOK, Phases
<1> QED BY <1>1, <1>2, <1>3

LEMMA EndingType ==
  ASSUME TypeOK, NEW c \in Procs, Unlock(c) \/ Reply(c) \/ Crash(c)
  PROVE  TypeOK'
<1>1. NoWrite \in Write /\ ZeroBooking \in Booking
  BY WriteTypes, ZeroBookingType
<1>2. CASE Unlock(c)
  BY <1>2 DEF Unlock, TypeOK, Phases
<1>3. CASE Reply(c)
  <2>1. [op |-> op[c], ok |-> found[c].booking_id > 0, booking |-> found[c]] \in Answer
    BY DEF TypeOK, Answer
  <2> QED BY <1>1, <1>3, <2>1 DEF Reply, Forget, TypeOK, Phases
<1>4. CASE Crash(c)
  <2>1. NoReply \in Answer
    BY <1>1 DEF NoReply, Answer
  <2> QED BY <1>1, <1>4, <2>1 DEF Crash, Forget, TypeOK, Phases
<1> QED BY <1>2, <1>3, <1>4

LEMMA TickType ==
  ASSUME TypeOK, Tick
  PROVE  TypeOK'
BY DEF TypeOK, Tick, procVars

LEMMA TypeStep == TypeOK /\ [Next]_vars => TypeOK'
<1> SUFFICES ASSUME TypeOK, [Next]_vars PROVE TypeOK'
  OBVIOUS
<1>1. CASE UNCHANGED vars
  BY <1>1 DEF vars, TypeOK
<1>2. CASE Tick
  BY <1>2, TickType
<1>3. ASSUME NEW c \in Procs, Request(c) \/ Waiting(c) \/ Working(c) \/ Crash(c)
      PROVE  TypeOK'
  BY <1>3, RequestType, WaitingType, ScanType, WritingType, EndingType DEF Working
<1> QED BY <1>1, <1>2, <1>3 DEF Next

(* Every field keeps its type, in every step of any number of processes.    *)
THEOREM TypeCorrect == Spec => []TypeOK
BY InitType, TypeStep, PTL DEF Spec


=============================================================================
