------------------------ MODULE StoreInvariantProofs ------------------------
(***************************************************************************)
(* The invariant of StoreInvariant is inductive, whence: ids are unique,   *)
(* records are kept, and what was acknowledged is in the file, for any     *)
(* number of processes, requests and crashes.                              *)
(***************************************************************************)
EXTENDS StoreInvariant, BookingStoreProofs

-----------------------------------------------------------------------------
(* The lock.                                                                *)

(* A step of c that neither takes nor gives back the lock.                  *)
LEMMA LockUntouched ==
  ASSUME TypeOK, LockInv, NEW c \in Procs, NEW next \in Phases,
         pc' = [pc EXCEPT ![c] = next], lock' = lock,
         Holding(c) <=> next \in {"scan", "rewrite", "flush", "unlock"}
  PROVE  LockInv'
<1>1. \A d \in Procs : Holding(d)' <=> Holding(d)
  BY DEF TypeOK, Holding
<1> QED BY <1>1 DEF LockInv

(* A step of c that leaves it without the lock.                             *)
LEMMA LockReleased ==
  ASSUME TypeOK, LockInv, NEW c \in Procs, NEW next \in {"idle", "reply"},
         pc' = [pc EXCEPT ![c] = next], lock' = [lock EXCEPT ![c] = "none"]
  PROVE  LockInv'
<1>1. \A d \in Procs : Holding(d)' <=> Holding(d) /\ d # c
  BY DEF TypeOK, Holding
<1>2. \A d \in Procs : lock'[d] = IF d = c THEN "none" ELSE lock[d]
  BY DEF TypeOK
<1> QED BY <1>1, <1>2 DEF LockInv

LEMMA LockTaken ==
  ASSUME TypeOK, LockInv, NEW c \in Procs, LockWriting(c)
  PROVE  LockInv'
<1>1. pc' = [pc EXCEPT ![c] = "scan"] /\ lock' = [lock EXCEPT ![c] = "write"]
  BY DEF LockWriting
<1>2. \A d \in Procs : Holding(d)' <=> d = c \/ Holding(d)
  BY <1>1 DEF TypeOK, Holding
<1>3. \A d \in Procs \ {c} : ~Holding(d)
  BY DEF LockWriting, CanLockWriting, LockInv
<1>4. \A d \in Procs : lock'[d] = IF d = c THEN "write" ELSE lock[d]
  BY <1>1 DEF TypeOK
<1> QED BY <1>2, <1>3, <1>4 DEF LockInv

LEMMA LockStep == TypeOK /\ LockInv /\ [Next]_vars => LockInv'
<1> SUFFICES ASSUME TypeOK, LockInv, [Next]_vars PROVE LockInv'
  OBVIOUS
<1>1. CASE UNCHANGED vars \/ Tick
  BY <1>1 DEF vars, Tick, procVars, LockInv, Holding
<1>2. ASSUME NEW c \in Procs, Request(c) PROVE LockInv'
  <2>1. \E next \in {"lock", "reply", "find"} : /\ pc[c] = "idle"
                                               /\ pc' = [pc EXCEPT ![c] = next]
                                               /\ lock' = lock
    BY <1>2 DEF Request, CreateRequest, ApproveRequest, RejectRequest, ForceRequest, Receive
  <2> QED BY <2>1, LockUntouched DEF Phases, Holding
<1>3. ASSUME NEW c \in Procs, FindBooking(c) PROVE LockInv'
  <2>1. \E next \in {"lock", "reply"} : /\ pc[c] = "find"
                                       /\ pc' = [pc EXCEPT ![c] = next]
                                       /\ lock' = lock
    BY <1>3 DEF FindBooking
  <2> QED BY <2>1, LockUntouched DEF Phases, Holding
<1>4. ASSUME NEW c \in Procs,
             \/ CreateScan(c) \/ RejectScan(c) \/ ForceScan(c) \/ ApproveConflict(c)
             \/ ApproveStart(c) \/ ApproveNext(c) \/ ApproveEnd(c) \/ Flush(c)
      PROVE  LockInv'
  <2>1. \E next \in {"rewrite", "flush", "unlock"} :
           /\ pc[c] \in {"scan", "rewrite", "flush"}
           /\ pc' = [pc EXCEPT ![c] = next]
           /\ lock' = lock
    BY <1>4 DEF CreateScan, RejectScan, ForceScan, UpdateStatus, ApproveConflict,
                ApproveStart, ApproveNext, ApproveEnd, Flush, Scanned
  <2> QED BY <2>1, LockUntouched DEF Phases, Holding
<1>5. ASSUME NEW c \in Procs, Unlock(c) \/ Crash(c) PROVE LockInv'
  <2>1. \E next \in {"idle", "reply"} : /\ pc' = [pc EXCEPT ![c] = next]
                                       /\ lock' = [lock EXCEPT ![c] = "none"]
    BY <1>5 DEF Unlock, Crash, Forget
  <2> QED BY <2>1, LockReleased
<1>6. ASSUME NEW c \in Procs, Reply(c) PROVE LockInv'
  BY <1>6, LockUntouched DEF Reply, Forget, Phases, Holding
<1> QED BY <1>1, <1>2, <1>3, <1>4, <1>5, <1>6, LockTaken DEF Next, Waiting, Working

(* Mutual exclusion: at most one process is between F_WRLCK and F_UNLCK on  *)
(* bookings.dat, whatever the processes do and wherever they die.           *)
THEOREM MutualExclusion == Spec => []LockInv
<1>1. Init => LockInv
  BY DEF Init, LockInv, Holding
<1> QED BY <1>1, TypeCorrect, LockStep, PTL DEF Spec

-----------------------------------------------------------------------------
(* Files that keep each other's records.                                    *)

Kept(file, after) ==
  /\ Len(file) <= Len(after)
  /\ \A i \in DOMAIN file : SameBooking(file[i], after[i])

DistinctIds(file) ==
  \A i, j \in DOMAIN file :
    file[i].booking_id = file[j].booking_id => i = j \/ file[i].booking_id = 0

LEMMA SameBookingFacts ==
  /\ \A a \in Booking, status \in BookingStatus :
       SameBooking(a, a) /\ SameBooking(a, WithStatus(a, status))
  /\ \A a, b \in Booking : SameBooking(a, b) =>
       SameBooking(b, a) /\ a.booking_id = b.booking_id
  /\ \A a, b, d \in Booking : SameBooking(a, b) /\ SameBooking(b, d) => SameBooking(a, d)
<1>1. \A a \in Booking, status \in BookingStatus : SameBooking(a, WithStatus(a, status))
  <2> SUFFICES ASSUME NEW a \in Booking, NEW status \in BookingStatus
               PROVE  WithStatus(a, PENDING) = WithStatus(WithStatus(a, status), PENDING)
    BY DEF SameBooking
  <2> QED BY DEF WithStatus, Booking
<1>2. \A a \in Booking : WithStatus(a, PENDING).booking_id = a.booking_id
  BY DEF WithStatus, Booking
<1> QED BY <1>1, <1>2 DEF SameBooking

LEMMA StoredKept ==
  ASSUME NEW file \in Seq(Booking), NEW after \in Seq(Booking), Kept(file, after),
         NEW b \in Booking, StoredIn(file, b)
  PROVE  StoredIn(after, b)
<1>1. PICK i \in DOMAIN file : SameBooking(file[i], b)
  BY DEF StoredIn
<1>2. i \in DOMAIN after /\ SameBooking(file[i], after[i])
  BY DEF Kept
<1>3. file[i] \in Booking /\ after[i] \in Booking
  BY <1>2
<1> QED BY <1>1, <1>2, <1>3, SameBookingFacts DEF StoredIn

LEMMA KeptItself ==
  ASSUME NEW file \in Seq(Booking)
  PROVE  Kept(file, file)
<1>1. \A i \in DOMAIN file : file[i] \in Booking
  OBVIOUS
<1> QED BY <1>1, SameBookingFacts, StatusTypes DEF Kept

(* What is buffered keeps the records of the file, and the ids distinct.    *)
LEMMA WrittenKept ==
  ASSUME TypeOK, UniqueIds, NEW c \in Procs, BufferInv(c),
         NEW file, file = Written(bookings, wbuf[c])
  PROVE  /\ file \in Seq(Booking)
         /\ Kept(bookings, file)
         /\ DistinctIds(file)
         /\ wbuf[c].mode = "append" => StoredIn(file, wbuf[c].rec)
<1> DEFINE w == wbuf[c]
<1>0. /\ bookings \in Seq(Booking) /\ w \in Write /\ w.rec \in Booking
      /\ w.mode \in {"none", "append", "over"}
  BY DEF TypeOK, Write
<1>1. file \in Seq(Booking)
  BY <1>0, WrittenType
<1>2. \A i \in DOMAIN bookings : bookings[i] \in Booking
  BY <1>0
<1>3. CASE w.mode = "none"
  <2>1. file = bookings
    BY <1>3 DEF Written
  <2> QED BY <1>0, <1>3, <2>1, KeptItself DEF UniqueIds, DistinctIds
<1>4. CASE w.mode = "append"
  <2>1. file = Append(bookings, w.rec)
    BY <1>4 DEF Written
  <2>2. /\ Len(file) = Len(bookings) + 1 /\ file[Len(file)] = w.rec
        /\ \A i \in DOMAIN bookings : file[i] = bookings[i]
    BY <1>0, <2>1
  <2>3. Kept(bookings, file)
    BY <1>0, <1>2, <2>2, SameBookingFacts, StatusTypes DEF Kept
  <2>4. DistinctIds(file)
    <3> SUFFICES ASSUME NEW i \in DOMAIN file, NEW j \in DOMAIN file,
                        file[i].booking_id = file[j].booking_id, i # j
                 PROVE  file[i].booking_id = 0
      BY DEF DistinctIds
    <3>1. \A k \in DOMAIN file : k \in DOMAIN bookings \/ k = Len(file)
      BY <1>0, <1>1, <2>2
    <3>2. \A k \in DOMAIN bookings : bookings[k].booking_id = w.rec.booking_id => w.rec.booking_id = 0
      BY <1>4 DEF BufferInv
    <3> QED BY <2>2, <3>1, <3>2 DEF UniqueIds
  <2>5. StoredIn(file, w.rec)
    <3>1. Len(file) \in DOMAIN file
      BY <1>0, <1>1, <2>2
    <3> QED BY <1>0, <2>2, <3>1, SameBookingFacts, StatusTypes DEF StoredIn
  <2> QED BY <1>1, <2>3, <2>4, <2>5
<1>5. CASE w.mode = "over"
  <2>1. file = [bookings EXCEPT ![w.at] = w.rec]
    BY <1>5 DEF Written
  <2>2. w.at \in DOMAIN bookings /\ SameBooking(bookings[w.at], w.rec)
    BY <1>5 DEF BufferInv
  <2>3. /\ Len(file) = Len(bookings)
        /\ \A i \in DOMAIN bookings : file[i] = IF i = w.at THEN w.rec ELSE bookings[i]
    BY <1>0, <2>1, <2>2, ExceptSeq
  <2>4. \A i \in DOMAIN bookings : SameBooking(bookings[i], file[i])
                                 /\ file[i].booking_id = bookings[i].booking_id
    BY <1>0, <1>2, <2>2, <2>3, SameBookingFacts, StatusTypes
  <2>5. Kept(bookings, file)
    BY <1>0, <2>3, <2>4 DEF Kept
  <2>6. DistinctIds(file)
    <3>1. DOMAIN file = DOMAIN bookings
      BY <1>0, <1>1, <2>3
    <3> QED BY <2>4, <3>1 DEF DistinctIds, UniqueIds
  <2> QED BY <1>1, <1>5, <2>5, <2>6
<1> QED BY <1>0, <1>3, <1>4, <1>5

-----------------------------------------------------------------------------
(* A step of process c keeps StoreInv if it keeps what StoreInv says of c.  *)

OnlyMoves(c) ==
  \A d \in Procs \ {c} :
    /\ op'[d] = op[d] /\ pc'[d] = pc[d] /\ arg'[d] = arg[d]
    /\ found'[d] = found[d] /\ wbuf'[d] = wbuf[d] /\ reply'[d] = reply[d]

AckedIn(file, answer) == answer.ok => StoredIn(file, answer.booking)

LEMMA AckedStoredIn ==
  bookings \in Seq(Booking) =>
    (AckedStored <=> \A c \in Procs : AckedIn(bookings, reply[c]))
BY DEF AckedStored, AckedIn, StoredIn, Range

LEMMA OthersKept ==
  ASSUME StoreInv, TypeOK', NEW c \in Procs, NEW d \in Procs \ {c}, OnlyMoves(c),
         bookings' = bookings \/ (Holding(c) /\ Kept(bookings, bookings'))
  PROVE  BufferInv(d)' /\ FoundInv(d)' /\ ApprovalInv(d)' /\ AckedIn(bookings, reply[d])'
<1>1. /\ op'[d] = op[d] /\ pc'[d] = pc[d] /\ arg'[d] = arg[d]
      /\ found'[d] = found[d] /\ wbuf'[d] = wbuf[d] /\ reply'[d] = reply[d]
  BY DEF OnlyMoves
<1>2. BufferInv(d) /\ FoundInv(d) /\ ApprovalInv(d) /\ AckedIn(bookings, reply[d])
  BY AckedStoredIn DEF StoreInv, TypeOK
<1>3. CASE bookings' = bookings
  BY <1>1, <1>2, <1>3 DEF BufferInv, FoundInv, ApprovalInv, AckedIn
<1>4. CASE Holding(c) /\ Kept(bookings, bookings')
  <2>1. ~Holding(d)
    BY <1>4 DEF StoreInv, LockInv
  <2>2. wbuf[d].mode = "none"
    <3>1. wbuf[d].mode \in {"none", "append", "over"}
      BY DEF StoreInv, TypeOK, Write
    <3> QED BY <1>2, <2>1, <3>1 DEF BufferInv, Holding
  <2>3. /\ arg[d] \in Booking /\ found[d] \in Booking /\ reply[d].booking \in Booking
        /\ bookings \in Seq(Booking) /\ bookings' \in Seq(Booking)
    BY DEF StoreInv, TypeOK, Answer
  <2>4. \A b \in Booking : StoredIn(bookings, b) => StoredIn(bookings', b)
    BY <1>4, <2>3, StoredKept
  <2>5. BufferInv(d)'
    BY <1>1, <2>2 DEF BufferInv
  <2>6. FoundInv(d)'
    BY <1>1, <1>2, <2>2, <2>3, <2>4 DEF FoundInv
  <2>7. ApprovalInv(d)'
    BY <1>1, <1>2, <2>3, <2>4 DEF ApprovalInv
  <2>8. AckedIn(bookings, reply[d])'
    BY <1>1, <1>2, <2>3, <2>4 DEF AckedIn
  <2> QED BY <2>5, <2>6, <2>7, <2>8
<1> QED BY <1>3, <1>4

LEMMA ProcessStep ==
  ASSUME StoreInv, TypeOK', LockInv', NEW c \in Procs, OnlyMoves(c),
         bookings' = bookings \/ (Holding(c) /\ bookings' = Written(bookings, wbuf[c])),
         BufferInv(c)', FoundInv(c)', ApprovalInv(c)', AckedIn(bookings, reply[c])'
  PROVE  StoreInv'
<1>1. BufferInv(c) /\ TypeOK /\ UniqueIds
  BY DEF StoreInv
<1>2. bookings' = bookings \/ (Holding(c) /\ Kept(bookings, bookings'))
  BY <1>1, WrittenKept
<1>3. UniqueIds'
  <2>1. CASE bookings' = bookings
    BY <1>1, <2>1 DEF UniqueIds
  <2>2. CASE bookings' = Written(bookings, wbuf[c])
    <3>1. DistinctIds(bookings')
      BY <1>1, <2>2, WrittenKept
    <3> QED BY <3>1 DEF UniqueIds, DistinctIds
  <2> QED BY <2>1, <2>2
<1>4. \A d \in Procs : BufferInv(d)' /\ FoundInv(d)' /\ ApprovalInv(d)' /\ AckedIn(bookings, reply[d])'
  BY <1>2, OthersKept
<1>5. AckedStored'
  <2>1. bookings' \in Seq(Booking)
    BY DEF TypeOK
  <2> QED BY <1>4, <2>1 DEF AckedStored, AckedIn, StoredIn, Range
<1> QED BY <1>3, <1>4, <1>5 DEF StoreInv


-----------------------------------------------------------------------------
(* Requests.                                                                *)

LEMMA ReceiveKeeps ==
  ASSUME StoreInv, TypeOK', LockInv', NEW c \in Procs, NEW operation \in Operations,
         NEW booking \in Booking, NEW next, Receive(c, operation, booking, next),
         \/ next = "find" /\ operation = "approve" /\ booking.booking_id # 0 /\ booking.end_time = 0
         \/ next \in {"lock", "reply"} /\ operation # "approve"
  PROVE  StoreInv'
<1>1. TypeOK /\ BufferInv(c) /\ FoundInv(c) /\ pc[c] = "idle"
  BY DEF StoreInv, Receive
<1>2. /\ op'[c] = operation /\ pc'[c] = next /\ arg'[c] = booking /\ reply'[c] = NoReply
      /\ OnlyMoves(c) /\ UNCHANGED <<bookings, found, wbuf>>
  BY <1>1 DEF Receive, TypeOK, OnlyMoves
<1>3. wbuf[c].mode = "none" /\ wbuf'[c] = wbuf[c]
  BY <1>1, <1>2 DEF BufferInv, TypeOK, Write
<1>4. BufferInv(c)'
  BY <1>3 DEF BufferInv
<1>5. FoundInv(c)'
  BY <1>1, <1>2 DEF FoundInv
<1>6. ApprovalInv(c)'
  BY <1>2 DEF ApprovalInv
<1>7. AckedIn(bookings, reply[c])'
  BY <1>2 DEF AckedIn, NoReply
<1> QED BY <1>2, <1>4, <1>5, <1>6, <1>7, ProcessStep

LEMMA RequestKeeps ==
  ASSUME StoreInv, TypeOK', LockInv', WireForms \subseteq {"blank"}, NEW c \in Procs, Request(c)
  PROVE  StoreInv'
<1>0. \A id \in TypedIds : IdOnly(id) \in Booking /\ IdOnly(id).booking_id # 0
                                               /\ IdOnly(id).end_time = 0
  <2> SUFFICES ASSUME NEW id \in TypedIds
               PROVE  IdOnly(id) \in Booking /\ IdOnly(id).booking_id = id /\ IdOnly(id).end_time = 0
    BY IdOnlyType
  <2> QED BY IdOnlyType DEF IdOnly, ZeroBooking
<1>1. CASE CreateRequest(c)
  <2>1. PICK room \in TypedRooms, interval \in Intervals :
          \E next \in {"lock", "reply"} :
            Receive(c, "create", NewBooking(c, room, interval), next)
    BY <1>1 DEF CreateRequest
  <2>2. NewBooking(c, room, interval) \in Booking
    BY NewBookingType
  <2> QED BY <2>1, <2>2, ReceiveKeeps DEF Operations
<1>2. CASE ApproveRequest(c)
  <2>0. PICK id \in TypedIds :
          \E booking \in Wires(id) : Receive(c, "approve", booking, "find")
    BY <1>2 DEF ApproveRequest
  <2>1. PICK booking \in Wires(id) : Receive(c, "approve", booking, "find")
    BY <2>0
  <2>2. booking = IdOnly(id)
    BY DEF Wires
  <2> QED BY <1>0, <2>1, <2>2, ReceiveKeeps DEF Operations
<1>3. CASE RejectRequest(c)
  <2>1. PICK id \in TypedIds : Receive(c, "reject", IdOnly(id), "lock")
    BY <1>3 DEF RejectRequest
  <2> QED BY <1>0, <2>1, ReceiveKeeps DEF Operations
<1>4. CASE ForceRequest(c)
  <2>1. PICK id \in TypedIds, status \in BookingStatus :
          Receive(c, "force", WithStatus(IdOnly(id), status), "lock")
    BY <1>4 DEF ForceRequest
  <2>2. WithStatus(IdOnly(id), status) \in Booking
    BY IdOnlyType, WithStatusType
  <2> QED BY <2>1, <2>2, ReceiveKeeps DEF Operations
<1> QED BY <1>1, <1>2, <1>3, <1>4 DEF Request


LEMMA WaitingKeeps ==
  ASSUME StoreInv, TypeOK', LockInv', NEW c \in Procs, Waiting(c)
  PROVE  StoreInv'
<1>0. /\ TypeOK /\ BufferInv(c) /\ FoundInv(c) /\ ApprovalInv(c) /\ AckedIn(bookings, reply[c])
      /\ bookings \in Seq(Booking)
  BY AckedStoredIn DEF StoreInv, TypeOK
<1>1. wbuf[c].mode = "none"
  BY <1>0 DEF Waiting, FindBooking, LockWriting, BufferInv, TypeOK, Write
<1>2. CASE FindBooking(c)
  <2> DEFINE i == Named(arg[c].booking_id)
  <2>1. /\ pc[c] = "find" /\ op[c] = "approve" /\ arg[c].booking_id # 0 /\ arg[c].end_time = 0
        /\ OnlyMoves(c) /\ UNCHANGED <<bookings, op, arg, wbuf, reply>>
    BY <1>0, <1>2 DEF FindBooking, ApprovalInv, OnlyMoves, TypeOK
  <2>2. BufferInv(c)' /\ AckedIn(bookings, reply[c])'
    BY <1>0, <1>1, <2>1 DEF BufferInv, AckedIn
  <2>3. CASE i # 0 /\ found' = [found EXCEPT ![c] = bookings[i]]
                  /\ pc' = [pc EXCEPT ![c] = "lock"]
    <3>1. i \in DOMAIN bookings /\ bookings[i] \in Booking
          /\ bookings[i].booking_id = arg[c].booking_id
      BY <1>0, <2>3, NamedIndex
    <3>2. found'[c] = bookings[i] /\ pc'[c] = "lock"
      BY <1>0, <2>3 DEF TypeOK
    <3>3. StoredIn(bookings, bookings[i])
      BY <3>1, SameBookingFacts, StatusTypes DEF StoredIn
    <3> HIDE DEF i
    <3>4. FoundInv(c)'
      BY <2>1, <3>2, <3>3 DEF FoundInv
    <3>5. ApprovalInv(c)'
      BY <2>1, <3>1, <3>2 DEF ApprovalInv
    <3> QED BY <2>1, <2>2, <3>4, <3>5, ProcessStep
  <2>4. CASE pc' = [pc EXCEPT ![c] = "reply"] /\ UNCHANGED found
    <3>1. pc'[c] = "reply"
      BY <1>0, <2>4 DEF TypeOK
    <3>2. FoundInv(c)' /\ ApprovalInv(c)'
      BY <1>0, <2>1, <2>4, <3>1 DEF FoundInv, ApprovalInv
    <3> QED BY <2>1, <2>2, <3>2, ProcessStep
  <2> QED BY <1>2, <2>3, <2>4 DEF FindBooking
<1>3. CASE LockWriting(c)
  <2>1. /\ pc[c] = "lock" /\ pc'[c] = "scan"
        /\ OnlyMoves(c) /\ UNCHANGED <<bookings, op, arg, found, wbuf, reply>>
    BY <1>0, <1>3 DEF LockWriting, OnlyMoves, TypeOK
  <2>2. BufferInv(c)' /\ FoundInv(c)' /\ ApprovalInv(c)' /\ AckedIn(bookings, reply[c])'
    BY <1>0, <1>1, <2>1 DEF BufferInv, FoundInv, ApprovalInv, AckedIn
  <2> QED BY <2>1, <2>2, ProcessStep
<1> QED BY <1>2, <1>3 DEF Waiting

-----------------------------------------------------------------------------
(* Scans under the write lock.                                              *)

(* A scan that is not followed by the rewriting of an approval.             *)
LEMMA ScanKeeps ==
  ASSUME StoreInv, TypeOK', LockInv', NEW c \in Procs, pc[c] = "scan",
         NEW w \in Write, NEW result \in Booking, NEW next \in {"flush", "unlock"},
         Scanned(c, w, result, next), UNCHANGED <<bookings, now, lock, op, arg, reply>>,
         w.mode # "none" => next = "flush",
         w.mode = "over" => w.at \in DOMAIN bookings /\ SameBooking(bookings[w.at], w.rec),
         w.mode = "append" => \A i \in DOMAIN bookings :
                                bookings[i].booking_id = w.rec.booking_id => w.rec.booking_id = 0,
         result.booking_id # 0 =>
           StoredIn(bookings, result) \/ (w.mode = "append" /\ w.rec = result)
  PROVE  StoreInv'
<1>0. TypeOK /\ AckedIn(bookings, reply[c])
  BY AckedStoredIn DEF StoreInv, TypeOK
<1>1. /\ wbuf'[c] = w /\ found'[c] = result /\ pc'[c] = next /\ OnlyMoves(c)
  BY <1>0 DEF Scanned, OnlyMoves, TypeOK
<1>2. BufferInv(c)'
  BY <1>1 DEF BufferInv, Write
<1>3. FoundInv(c)' /\ ApprovalInv(c)' /\ AckedIn(bookings, reply[c])'
  BY <1>0, <1>1 DEF FoundInv, ApprovalInv, AckedIn
<1> QED BY <1>1, <1>2, <1>3, ProcessStep

LEMMA UpdateKeeps ==
  ASSUME StoreInv, TypeOK', LockInv', NEW c \in Procs, NEW operation, NEW i,
         i # 0 => i \in DOMAIN bookings,
         NEW status \in BookingStatus, UpdateStatus(c, operation, i, status)
  PROVE  StoreInv'
<1>0. pc[c] = "scan" /\ UNCHANGED <<bookings, now, lock, op, arg, reply>> /\ bookings \in Seq(Booking)
  BY DEF UpdateStatus, StoreInv, TypeOK
<1>1. CASE /\ i # 0
           /\ Scanned(c, Overwrite(i, WithStatus(bookings[i], status)),
                      WithStatus(bookings[i], status), "flush")
  <2> DEFINE updated == WithStatus(bookings[i], status)
  <2>1. i \in DOMAIN bookings /\ i \in Nat /\ bookings[i] \in Booking
    BY <1>0, <1>1
  <2>2. updated \in Booking /\ SameBooking(bookings[i], updated) /\ Overwrite(i, updated) \in Write
    BY <2>1, WithStatusType, WriteTypes, SameBookingFacts
  <2> HIDE DEF updated
  <2>3. /\ Overwrite(i, updated).mode = "over" /\ Overwrite(i, updated).at = i
        /\ Overwrite(i, updated).rec = updated
    BY DEF Overwrite
  <2>4. StoredIn(bookings, updated)
    BY <2>1, <2>2 DEF StoredIn
  <2>5. Scanned(c, Overwrite(i, updated), updated, "flush")
    BY <1>1 DEF updated
  <2> QED BY <1>0, <2>1, <2>2, <2>3, <2>4, <2>5, ScanKeeps
<1>2. CASE Scanned(c, NoWrite, ZeroBooking, "unlock")
  <2>1. NoWrite.mode = "none" /\ ZeroBooking.booking_id = 0
    BY DEF NoWrite, ZeroBooking
  <2> QED BY <1>0, <1>2, <2>1, ScanKeeps, WriteTypes, ZeroBookingType
<1> QED BY <1>1, <1>2 DEF UpdateStatus

LEMMA CreateKeeps ==
  ASSUME StoreInv, TypeOK', LockInv', NEW c \in Procs, CreateScan(c)
  PROVE  StoreInv'
<1> DEFINE created == [WithStatus(arg[c], PENDING) EXCEPT !.booking_id = NextId(bookings)]
<1>0. /\ TypeOK /\ pc[c] = "scan" /\ UNCHANGED <<bookings, now, lock, op, arg, reply>>
      /\ bookings \in Seq(Booking) /\ arg[c] \in Booking
  BY DEF CreateScan, StoreInv, TypeOK
<1>1. CASE Scanned(c, NoWrite, ZeroBooking, "unlock")
  <2>1. NoWrite.mode = "none" /\ ZeroBooking.booking_id = 0
    BY DEF NoWrite, ZeroBooking
  <2> QED BY <1>0, <1>1, <2>1, ScanKeeps, WriteTypes, ZeroBookingType
<1>2. CASE Scanned(c, AppendOf(created), created, "flush")
  <2>1. created \in Booking /\ AppendOf(created) \in Write
    BY <1>0, CreatedType, WriteTypes
  <2>2. AppendOf(created).mode = "append" /\ AppendOf(created).rec = created
    BY DEF AppendOf
  <2>3. created.booking_id = NextId(bookings)
    <3>1. WithStatus(arg[c], PENDING) \in Booking
      BY <1>0, WithStatusType, StatusTypes
    <3> QED BY <3>1 DEF Booking
  <2>4. \A i \in DOMAIN bookings : bookings[i].booking_id = created.booking_id => created.booking_id = 0
    BY <1>0, <2>3, NextIdNew
  <2> HIDE DEF created
  <2> QED BY <1>0, <1>2, <2>1, <2>2, <2>4, ScanKeeps
<1> QED BY <1>1, <1>2 DEF CreateScan

(* A booking that takes no time is in conflict with none.                   *)
LEMMA NoConflictWithWire ==
  ASSUME StoreInv, NEW c \in Procs, pc[c] = "scan", op[c] = "approve"
  PROVE  ConflictWithWire(c) = 0
<1>1. arg[c].end_time = 0 /\ bookings \in Seq(Booking)
  BY DEF StoreInv, ApprovalInv, TypeOK
<1>2. ASSUME NEW i \in DOMAIN bookings PROVE bookings[i].start_time \in Nat
  <2>1. bookings[i] \in Booking
    BY <1>1
  <2> QED BY <2>1 DEF Booking
<1>3. \A i \in DOMAIN bookings : ~is_booking_conflict(bookings[i], arg[c])
  BY <1>1, <1>2 DEF is_booking_conflict, Overlap, is_in_same_time_slot
<1> DEFINE hits == {i \in DOMAIN bookings : /\ is_booking_conflict(bookings[i], arg[c])
                                           /\ bookings[i].booking_id # arg[c].booking_id}
<1>4. hits = {} /\ ConflictWithWire(c) = FirstOf(hits)
  BY <1>3 DEF ConflictWithWire
<1> HIDE DEF hits
<1> QED BY <1>4 DEF FirstOf

LEMMA ApproveStartKeeps ==
  ASSUME StoreInv, TypeOK', LockInv', NEW c \in Procs, ApproveStart(c)
  PROVE  StoreInv'
<1>0. /\ TypeOK /\ BufferInv(c) /\ FoundInv(c) /\ ApprovalInv(c) /\ AckedIn(bookings, reply[c])
      /\ pc[c] = "scan" /\ op[c] = "approve" /\ bookings \in Seq(Booking) /\ found[c] \in Booking
  BY AckedStoredIn DEF StoreInv, TypeOK, ApproveStart
<1> DEFINE target == WithStatus(found[c], APPROVED)
<1>1. /\ arg'[c] = target /\ wbuf'[c] = NoWrite /\ found'[c] = ZeroBooking /\ pc'[c] = "rewrite"
      /\ OnlyMoves(c) /\ UNCHANGED <<bookings, op, reply>>
  BY <1>0 DEF ApproveStart, Scanned, OnlyMoves, TypeOK
<1>2. NoWrite.mode = "none" /\ ZeroBooking.booking_id = 0
  BY DEF NoWrite, ZeroBooking
<1>3. target \in Booking /\ SameBooking(found[c], target) /\ target.booking_id = found[c].booking_id
  BY <1>0, WithStatusType, StatusTypes, SameBookingFacts
<1> HIDE DEF target
<1>4. found[c].booking_id # 0 /\ StoredIn(bookings, found[c])
  BY <1>0 DEF FoundInv, ApprovalInv, BufferInv
<1>5. StoredIn(bookings, target)
  <2>1. PICK i \in DOMAIN bookings : SameBooking(bookings[i], found[c])
    BY <1>4 DEF StoredIn
  <2>2. bookings[i] \in Booking
    BY <1>0
  <2> QED BY <1>0, <1>3, <2>1, <2>2, SameBookingFacts DEF StoredIn
<1>6. BufferInv(c)' /\ FoundInv(c)' /\ AckedIn(bookings, reply[c])'
  BY <1>0, <1>1, <1>2 DEF BufferInv, FoundInv, AckedIn
<1>7. ApprovalInv(c)'
  BY <1>0, <1>1, <1>3, <1>4, <1>5 DEF ApprovalInv
<1> QED BY <1>1, <1>6, <1>7, ProcessStep


-----------------------------------------------------------------------------
(* Steps that put the buffered record into the file.                        *)

LEMMA ApproveNextKeeps ==
  ASSUME StoreInv, TypeOK', LockInv', NEW c \in Procs, ApproveNext(c)
  PROVE  StoreInv'
<1> DEFINE file == Written(bookings, wbuf[c])
           i == pos[c]
           target == arg[c]
<1>0. /\ TypeOK /\ UniqueIds /\ BufferInv(c) /\ FoundInv(c) /\ ApprovalInv(c)
      /\ AckedIn(bookings, reply[c])
  BY AckedStoredIn DEF StoreInv, TypeOK
<1>1. /\ bookings' = file /\ pc[c] = "rewrite" /\ Holding(c) /\ i <= Len(file)
      /\ UNCHANGED <<now, lock, op, arg, reply, crashes>>
  BY DEF ApproveNext, Holding
<1>2. \/ file[i].booking_id = target.booking_id /\ Scanned(c, Overwrite(i, target), target, "rewrite")
      \/ Scanned(c, Overwrite(i, WithStatus(file[i], REJECTED)), found[c], "rewrite")
      \/ Scanned(c, NoWrite, found[c], "rewrite")
  BY DEF ApproveNext
<1>3. file \in Seq(Booking) /\ Kept(bookings, file) /\ DistinctIds(file)
  BY <1>0, WrittenKept
<1>4. /\ bookings \in Seq(Booking) /\ target \in Booking /\ found[c] \in Booking
      /\ reply[c].booking \in Booking /\ i \in Nat \ {0}
  BY <1>0 DEF TypeOK, Answer
<1> HIDE DEF file, i, target
<1>5. i \in DOMAIN file /\ file[i] \in Booking
  BY <1>1, <1>3, <1>4
<1>6. target.booking_id # 0 /\ StoredIn(file, target)
  BY <1>0, <1>1, <1>3, <1>4, StoredKept DEF ApprovalInv, target
<1>7. OnlyMoves(c) /\ wbuf \in [Procs -> Write] /\ found \in [Procs -> Booking] /\ pc \in [Procs -> Phases]
  BY <1>0, <1>1, <1>2 DEF Scanned, OnlyMoves, TypeOK
<1>8. found[c].booking_id # 0 => StoredIn(file, found[c])
  <2>1. wbuf[c].mode # "append"
    BY <1>0, <1>1 DEF BufferInv
  <2> QED BY <1>0, <1>3, <1>4, <2>1, StoredKept DEF FoundInv
<1>9. AckedIn(bookings, reply[c])' /\ (pc'[c] = "rewrite" => ApprovalInv(c)')
  <2>1. AckedIn(bookings, reply[c])'
    BY <1>0, <1>1, <1>3, <1>4, StoredKept DEF AckedIn
  <2>2. pc'[c] = "rewrite" => ApprovalInv(c)'
    BY <1>0, <1>1, <1>6 DEF ApprovalInv, target
  <2> QED BY <2>1, <2>2
(* It is enough that what is buffered next is about the record just read.   *)
<1>10. ASSUME NEW w \in Write, NEW result \in Booking, Scanned(c, w, result, "rewrite"),
              w.mode = "none" \/ (w.mode = "over" /\ w.at = i /\ SameBooking(file[i], w.rec)),
              result.booking_id # 0 => StoredIn(file, result)
       PROVE  StoreInv'
  <2>1. wbuf'[c] = w /\ found'[c] = result /\ pc'[c] = "rewrite"
    BY <1>7, <1>10 DEF Scanned
  <2>2. BufferInv(c)'
    BY <1>1, <1>5, <1>10, <2>1 DEF BufferInv
  <2>3. FoundInv(c)'
    BY <1>1, <1>10, <2>1 DEF FoundInv
  <2> QED BY <1>1, <1>7, <1>9, <2>1, <2>2, <2>3, ProcessStep DEF file
<1>11. CASE file[i].booking_id = target.booking_id /\ Scanned(c, Overwrite(i, target), target, "rewrite")
  <2>1. PICK j \in DOMAIN file : SameBooking(file[j], target)
    BY <1>6 DEF StoredIn
  <2>2. file[j] \in Booking
    BY <1>3
  <2>3. j = i
    BY <1>3, <1>4, <1>5, <1>6, <1>11, <2>1, <2>2, SameBookingFacts DEF DistinctIds
  <2>4. Overwrite(i, target) \in Write /\ Overwrite(i, target).mode = "over"
        /\ Overwrite(i, target).at = i /\ Overwrite(i, target).rec = target
    BY <1>4, WriteTypes DEF Overwrite
  <2> QED BY <1>4, <1>6, <1>10, <1>11, <2>1, <2>3, <2>4
<1>12. CASE Scanned(c, Overwrite(i, WithStatus(file[i], REJECTED)), found[c], "rewrite")
  <2> DEFINE rejected == WithStatus(file[i], REJECTED)
  <2>1. rejected \in Booking /\ SameBooking(file[i], rejected)
    BY <1>5, WithStatusType, StatusTypes, SameBookingFacts
  <2> HIDE DEF rejected
  <2>2. Overwrite(i, rejected) \in Write /\ Overwrite(i, rejected).mode = "over"
        /\ Overwrite(i, rejected).at = i /\ Overwrite(i, rejected).rec = rejected
    BY <1>4, <2>1, WriteTypes DEF Overwrite
  <2>3. Scanned(c, Overwrite(i, rejected), found[c], "rewrite")
    BY <1>12 DEF rejected
  <2> QED BY <1>4, <1>8, <1>10, <2>1, <2>2, <2>3
<1>13. CASE Scanned(c, NoWrite, found[c], "rewrite")
  <2>1. NoWrite.mode = "none" /\ NoWrite \in Write
    BY WriteTypes DEF NoWrite
  <2> QED BY <1>4, <1>8, <1>10, <1>13, <2>1
<1> QED BY <1>2, <1>11, <1>12, <1>13

LEMMA FlushKeeps ==
  ASSUME StoreInv, TypeOK', LockInv', NEW c \in Procs, ApproveEnd(c) \/ Flush(c)
  PROVE  StoreInv'
<1> DEFINE file == Written(bookings, wbuf[c])
<1>0. /\ TypeOK /\ UniqueIds /\ BufferInv(c) /\ FoundInv(c) /\ ApprovalInv(c)
      /\ AckedIn(bookings, reply[c])
  BY AckedStoredIn DEF StoreInv, TypeOK
<1>1. /\ bookings' = file /\ Holding(c) /\ pc'[c] = "unlock" /\ wbuf'[c] = NoWrite
      /\ OnlyMoves(c) /\ found'[c] = found[c]
      /\ UNCHANGED <<now, lock, op, arg, reply, crashes>>
  BY <1>0 DEF ApproveEnd, Flush, Scanned, Holding, OnlyMoves, TypeOK
<1>2. file \in Seq(Booking) /\ Kept(bookings, file)
      /\ (wbuf[c].mode = "append" => StoredIn(file, wbuf[c].rec))
  BY <1>0, WrittenKept
<1>3. bookings \in Seq(Booking) /\ found[c] \in Booking /\ reply[c].booking \in Booking
  BY <1>0 DEF TypeOK, Answer
<1> HIDE DEF file
<1>4. BufferInv(c)'
  <2>1. NoWrite.mode = "none"
    BY DEF NoWrite
  <2> QED BY <1>1, <2>1 DEF BufferInv
<1>5. FoundInv(c)'
  <2>1. found[c].booking_id # 0 => StoredIn(file, found[c])
    BY <1>0, <1>2, <1>3, StoredKept DEF FoundInv
  <2> QED BY <1>1, <2>1 DEF FoundInv
<1>6. AckedIn(bookings, reply[c])'
  BY <1>0, <1>1, <1>2, <1>3, StoredKept DEF AckedIn
<1>7. ApprovalInv(c)'
  BY <1>1 DEF ApprovalInv
<1> QED BY <1>1, <1>4, <1>5, <1>6, <1>7, ProcessStep DEF file

LEMMA EndingKeeps ==
  ASSUME StoreInv, TypeOK', LockInv', NEW c \in Procs, Unlock(c) \/ Reply(c) \/ Crash(c)
  PROVE  StoreInv'
<1>0. /\ TypeOK /\ BufferInv(c) /\ FoundInv(c) /\ ApprovalInv(c) /\ AckedIn(bookings, reply[c])
      /\ found[c] \in Booking /\ wbuf[c].mode \in {"none", "append", "over"}
  BY AckedStoredIn DEF StoreInv, TypeOK, Write
<1>1. NoWrite.mode = "none" /\ ZeroBooking.booking_id = 0
  BY DEF NoWrite, ZeroBooking
<1>2. CASE Unlock(c)
  <2>1. /\ pc[c] = "unlock" /\ pc'[c] = "reply" /\ OnlyMoves(c)
        /\ UNCHANGED <<bookings, op, arg, found, wbuf, reply>>
    BY <1>0, <1>2 DEF Unlock, OnlyMoves, TypeOK
  <2>2. BufferInv(c)' /\ FoundInv(c)' /\ ApprovalInv(c)' /\ AckedIn(bookings, reply[c])'
    BY <1>0, <2>1 DEF BufferInv, FoundInv, ApprovalInv, AckedIn
  <2> QED BY <2>1, <2>2, ProcessStep
<1>3. CASE Reply(c) \/ Crash(c)
  <2>1. /\ pc'[c] = "idle" /\ op'[c] = "none" /\ found'[c] = ZeroBooking /\ wbuf'[c] = NoWrite
        /\ OnlyMoves(c) /\ UNCHANGED bookings
    BY <1>0, <1>3 DEF Reply, Crash, Forget, OnlyMoves, TypeOK
  <2>2. BufferInv(c)' /\ FoundInv(c)' /\ ApprovalInv(c)'
    BY <1>1, <2>1 DEF BufferInv, FoundInv, ApprovalInv
  <2>3. AckedIn(bookings, reply[c])'
    <3>1. CASE Reply(c)
      <4>1. pc[c] = "reply" /\ reply'[c].ok = (found[c].booking_id > 0) /\ reply'[c].booking = found[c]
        BY <1>0, <3>1 DEF Reply, TypeOK
      <4>2. found[c].booking_id > 0 => StoredIn(bookings, found[c])
        BY <1>0, <4>1 DEF BufferInv, FoundInv
      <4> QED BY <2>1, <4>1, <4>2 DEF AckedIn
    <3>2. CASE Crash(c)
      <4>1. reply'[c].ok = FALSE
        BY <1>0, <3>2 DEF Crash, TypeOK, NoReply
      <4> QED BY <4>1 DEF AckedIn
    <3> QED BY <1>3, <3>1, <3>2
  <2> QED BY <2>1, <2>2, <2>3, ProcessStep
<1> QED BY <1>2, <1>3

-----------------------------------------------------------------------------
(* The theorems.  Their hypothesis on WireForms is what the client in this  *)
(* repository sends.                                                        *)

LEMMA InitKeeps == Init => StoreInv
<1> SUFFICES ASSUME Init PROVE StoreInv
  OBVIOUS
<1>1. TypeOK
  BY InitType
<1>2. LockInv
  BY DEF Init, LockInv, Holding
<1>3. ASSUME NEW c \in Procs PROVE BufferInv(c) /\ FoundInv(c) /\ ApprovalInv(c)
  BY DEF Init, BufferInv, FoundInv, ApprovalInv, NoWrite, ZeroBooking
<1>4. UniqueIds
  BY StoreAssumption DEF Init, UniqueIds
<1>5. AckedStored
  BY DEF Init, AckedStored, NoReply
<1> QED BY <1>1, <1>2, <1>3, <1>4, <1>5 DEF StoreInv

LEMMA StoreStep ==
  ASSUME WireForms \subseteq {"blank"}
  PROVE  StoreInv /\ [Next]_vars => StoreInv'
<1> SUFFICES ASSUME StoreInv, [Next]_vars PROVE StoreInv'
  OBVIOUS
<1>0. TypeOK' /\ LockInv' /\ bookings \in Seq(Booking)
  BY TypeStep, LockStep DEF StoreInv, TypeOK
<1>1. CASE UNCHANGED vars \/ Tick
  <2>1. UNCHANGED <<bookings, op, pc, arg, found, wbuf, reply>>
    BY <1>1 DEF vars, Tick, procVars
  <2>2. \A c \in Procs : BufferInv(c)' /\ FoundInv(c)' /\ ApprovalInv(c)'
    BY <2>1 DEF StoreInv, BufferInv, FoundInv, ApprovalInv
  <2>3. UniqueIds' /\ AckedStored'
    BY <2>1 DEF StoreInv, UniqueIds, AckedStored
  <2> QED BY <1>0, <2>2, <2>3 DEF StoreInv
<1>2. ASSUME NEW c \in Procs, Request(c) \/ Waiting(c) \/ Working(c) \/ Crash(c)
      PROVE  StoreInv'
  <2>1. CASE RejectScan(c)
    <3> DEFINE hits == {i \in DOMAIN bookings : /\ bookings[i].booking_id = arg[c].booking_id
                                               /\ bookings[i].status = PENDING
                                               /\ ~is_booking_in_past(bookings[i], now)}
    <3>1. hits \in SUBSET DOMAIN bookings /\ UpdateStatus(c, "reject", FirstOf(hits), REJECTED)
      BY <2>1 DEF RejectScan
    <3> HIDE DEF hits
    <3>2. FirstOf(hits) # 0 => FirstOf(hits) \in DOMAIN bookings
      BY <1>0, <3>1, FirstOfFile
    <3> QED BY <1>0, <3>1, <3>2, StatusTypes, UpdateKeeps
  <2>2. CASE ForceScan(c)
    <3>1. arg[c].status \in BookingStatus
      BY DEF StoreInv, TypeOK, Booking
    <3>2. Named(arg[c].booking_id) # 0 => Named(arg[c].booking_id) \in DOMAIN bookings
      BY <1>0, NamedIndex
    <3> QED BY <1>0, <2>2, <3>1, <3>2, UpdateKeeps DEF ForceScan
  <2>3. ~ApproveConflict(c)
    BY NoConflictWithWire DEF ApproveConflict
  <2> QED BY <1>0, <1>2, <2>1, <2>2, <2>3, RequestKeeps, WaitingKeeps, CreateKeeps, ApproveStartKeeps,
             ApproveNextKeeps, FlushKeeps, EndingKeeps DEF Working
<1> QED BY <1>1, <1>2 DEF Next

(* The invariant holds in every reachable state: the theorems below are     *)
(* parts of it, or follow from it in one step.                              *)
THEOREM InvariantHolds ==
  ASSUME WireForms \subseteq {"blank"}
  PROVE  Spec => []StoreInv
BY InitKeeps, StoreStep, PTL DEF Spec

(* No two bookings get the same id from handle_create_booking, however many *)
(* processes create at once; 0, the id of none, excepted.                   *)
THEOREM IdsAreUnique ==
  ASSUME WireForms \subseteq {"blank"}
  PROVE  Spec => []UniqueIds
<1>1. StoreInv => UniqueIds
  BY DEF StoreInv
<1> QED BY <1>1, InvariantHolds, PTL

(* What create, approve, reject and force answer OPCODE_OK for is in        *)
(* bookings.dat, and stays there, even when processes die in between.       *)
THEOREM AcknowledgedIsStored ==
  ASSUME WireForms \subseteq {"blank"}
  PROVE  Spec => []AckedStored
<1>1. StoreInv => AckedStored
  BY DEF StoreInv
<1> QED BY <1>1, InvariantHolds, PTL

(* A write reaches the file only from the buffer of a process.              *)
LEMMA StepKeepsRecords ==
  ASSUME StoreInv, [Next]_vars
  PROVE  Kept(bookings, bookings')
<1>0. bookings \in Seq(Booking)
  BY DEF StoreInv, TypeOK
<1>1. CASE bookings' = bookings
  BY <1>0, <1>1, KeptItself
<1>2. ASSUME NEW c \in Procs, ApproveNext(c) \/ ApproveEnd(c) \/ Flush(c)
      PROVE  Kept(bookings, bookings')
  <2>1. bookings' = Written(bookings, wbuf[c]) /\ TypeOK /\ UniqueIds /\ BufferInv(c)
    BY <1>2 DEF ApproveNext, ApproveEnd, Flush, StoreInv
  <2> QED BY <2>1, WrittenKept
<1>3. \/ UNCHANGED bookings
      \/ \E c \in Procs : ApproveNext(c) \/ ApproveEnd(c) \/ Flush(c)
  BY DEF Next, vars, Tick, Request, CreateRequest, ApproveRequest, RejectRequest, ForceRequest,
         Receive, Waiting, FindBooking, LockWriting, Working, CreateScan, RejectScan, ForceScan,
         UpdateStatus, ApproveConflict, ApproveStart, Unlock, Reply, Crash
<1> QED BY <1>1, <1>2, <1>3

(* No step loses a record, moves it, or turns it into another booking's:    *)
(* not the rewriting in approve_booking, not the death of a process.        *)
THEOREM RecordsAreKept ==
  ASSUME WireForms \subseteq {"blank"}
  PROVE  Spec => RecordsKept
<1>1. StoreInv /\ [Next]_vars =>
        [/\ Len(bookings) <= Len(bookings')
         /\ \A i \in DOMAIN bookings : SameBooking(bookings[i], bookings'[i])]_bookings
  BY StepKeepsRecords DEF Kept
<1> QED BY <1>1, InvariantHolds, PTL DEF Spec, RecordsKept

=============================================================================
