--------------------------- MODULE StoreInvariant ---------------------------
(***************************************************************************)
(* Why BookingStore keeps its records: the state of every process between  *)
(* two steps, strong enough for one step to preserve it.                   *)
(***************************************************************************)
EXTENDS BookingStore

Holding(c) == pc[c] \in {"scan", "rewrite", "flush", "unlock"}

(* Exactly the processes between F_WRLCK and F_UNLCK hold the lock, and     *)
(* there is at most one: what is scanned and what is written under the lock *)
(* are about the same file.                                                 *)
LockInv ==
  /\ \A c \in Procs : lock[c] = IF Holding(c) THEN "write" ELSE "none"
  /\ \A c, d \in Procs : Holding(c) /\ Holding(d) => c = d

StoredIn(file, booking) == \E i \in DOMAIN file : SameBooking(file[i], booking)

(* What a process has buffered keeps the file's records when it reaches it. *)
BufferInv(c) ==
  LET w == wbuf[c] IN
  /\ w.mode # "none" => pc[c] \in {"rewrite", "flush"}
  /\ w.mode = "over" => w.at \in DOMAIN bookings /\ SameBooking(bookings[w.at], w.rec)
  /\ w.mode = "append" =>
       /\ pc[c] = "flush"
       /\ \A i \in DOMAIN bookings :
            bookings[i].booking_id = w.rec.booking_id => w.rec.booking_id = 0

(* What a process is going to acknowledge is in the file, or in its buffer. *)
FoundInv(c) ==
  found[c].booking_id # 0 =>
    \/ StoredIn(bookings, found[c])
    \/ wbuf[c].mode = "append" /\ wbuf[c].rec = found[c]

(* An approval works on an id that is not 0: first the one that was typed,  *)
(* in a booking that takes no time; then the one of a stored booking.       *)
ApprovalInv(c) ==
  /\ pc[c] \in {"find", "rewrite"} => op[c] = "approve"
  /\ op[c] = "approve" /\ pc[c] \in {"find", "lock", "scan"} =>
       arg[c].booking_id # 0 /\ arg[c].end_time = 0
  /\ op[c] = "approve" /\ pc[c] \in {"lock", "scan"} => found[c].booking_id # 0
  /\ pc[c] = "rewrite" => arg[c].booking_id # 0 /\ StoredIn(bookings, arg[c])

(* The inductive invariant, for clients that send nothing but the id of     *)
(* the booking they want approved.                                          *)
StoreInv ==
  /\ TypeOK
  /\ LockInv
  /\ \A c \in Procs : BufferInv(c) /\ FoundInv(c) /\ ApprovalInv(c)
  /\ UniqueIds
  /\ AckedStored

=============================================================================
