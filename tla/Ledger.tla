------------------------------- MODULE Ledger -------------------------------
(***************************************************************************)
(* What bookings.dat promises to its users: a ledger on which every        *)
(* operation happens at once.  A request is entered when nothing live      *)
(* stands against it, approving one decides all its pending rivals, a      *)
(* rejection needs a pending booking, a force does not.  An approval does  *)
(* not ask for the booking's status, because the code does not.            *)
(***************************************************************************)
EXTENDS BookingRecords

CONSTANTS
  Rooms,        \* the rooms that can be booked
  FirstLedgers, \* what the ledger may hold at the start
  CanForce      \* whether superusers force statuses

VARIABLE ledger

(* What an approved booking does to another: its pending rivals lose.       *)
DecidedBy(target, b) ==
  IF b.booking_id = target.booking_id THEN target
  ELSE IF b.status = PENDING /\ Overlap(b, target) THEN WithStatus(b, REJECTED)
  ELSE b

Enter(b) ==
  /\ b.room_id \in Rooms
  /\ b.status = PENDING
  /\ b.booking_id = NextId(ledger)
  /\ \A i \in DOMAIN ledger : ~is_booking_conflict(ledger[i], b)
  /\ ledger' = Append(ledger, b)

Approve(i) ==
  ledger' = [j \in DOMAIN ledger |->
               DecidedBy(WithStatus(ledger[i], APPROVED), ledger[j])]

Decide(i, status) == ledger' = [ledger EXCEPT ![i].status = status]

LedgerInit == ledger \in FirstLedgers

LedgerNext ==
  \/ Len(ledger') > Len(ledger) /\ Enter(ledger'[Len(ledger')])
  \/ \E i \in DOMAIN ledger :
       \/ Approve(i)
       \/ ledger[i].status = PENDING /\ Decide(i, REJECTED)
       \/ CanForce /\ \E status \in BookingStatus : Decide(i, status)

LedgerSpec == LedgerInit /\ [][LedgerNext]_ledger

=============================================================================
