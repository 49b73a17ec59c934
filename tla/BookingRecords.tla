--------------------------- MODULE BookingRecords ---------------------------
(***************************************************************************)
(* The records of bookings.dat and the predicates the server computes on   *)
(* them.  A username is a model value or a string: the code only compares  *)
(* it.  Times are naturals in any unit of which SlotLength make one        *)
(* bookable slot (BOOKING_TIME_SLOT_SECONDS in the code); "now" is what    *)
(* time(NULL) returns.                                                     *)
(***************************************************************************)
EXTENDS Naturals, Sequences, Functions

CONSTANTS
  Usernames,     \* names of the accounts that own bookings
  NoName,        \* the empty username of a zeroed struct
  SlotLength,    \* length of one bookable slot
  IdLimit        \* ids are stored modulo IdLimit; 2^32 in the code (uint32_t)

ASSUME RecordAssumption ==
  /\ NoName \notin Usernames
  /\ SlotLength \in Nat \ {0}
  /\ IdLimit \in Nat \ {0}

PENDING  == 0
APPROVED == 1
REJECTED == 2
BookingStatus == {PENDING, APPROVED, REJECTED}

Booking ==
  [booking_id : 0 .. IdLimit - 1,
   room_id    : Nat,
   username   : Usernames \cup {NoName},
   start_time : Nat,
   end_time   : Nat,
   status     : BookingStatus]

(* "Booking b = {0}": what a failing operation returns, and what a client  *)
(* that fills in nothing but the id sends.                                 *)
ZeroBooking ==
  [booking_id |-> 0, room_id |-> 0, username |-> NoName,
   start_time |-> 0, end_time |-> 0, status |-> PENDING]

WithStatus(booking, status) == [booking EXCEPT !.status = status]

(* Two records are of one booking when they differ at most in their status. *)
SameBooking(a, b) == WithStatus(a, PENDING) = WithStatus(b, PENDING)

-----------------------------------------------------------------------------
is_in_same_time_slot(start1, end1, start2, end2) ==
  start1 < end2 /\ start2 < end1

Overlap(a, b) ==
  /\ a.room_id = b.room_id
  /\ is_in_same_time_slot(a.start_time, a.end_time, b.start_time, b.end_time)

is_booking_conflict(a, b) ==
  /\ a.status # REJECTED /\ b.status # REJECTED
  /\ Overlap(a, b)
  /\ \/ a.status = APPROVED \/ b.status = APPROVED
     \/ a.username = b.username

is_booking_respects_time_requirements(booking, now) ==
  /\ booking.start_time < booking.end_time
  /\ booking.start_time >= now
  /\ (booking.end_time - booking.start_time) % SlotLength = 0

is_booking_in_past(booking, now) == booking.end_time < now

-----------------------------------------------------------------------------
(* Scans of the file.  "while (fread(...) == 1) if (...) { ...; break; }"   *)
(* stops at the first record that passes the test; 0 when none does.        *)
FirstOf(hits) == IF hits = {} THEN 0 ELSE CHOOSE i \in hits : \A j \in hits : i <= j

(* The running maximum of the ids, 0 for an empty file.                     *)
GreatestId(file) ==
  LET ids == {0} \cup {file[i].booking_id : i \in DOMAIN file}
  IN  CHOOSE m \in ids : \A n \in ids : n <= m

(* "created_booking.booking_id = greatest_booking_id + 1" on a uint32_t.    *)
NextId(file) == (GreatestId(file) + 1) % IdLimit

=============================================================================
