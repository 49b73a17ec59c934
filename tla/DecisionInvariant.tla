------------------------- MODULE DecisionInvariant -------------------------
(***************************************************************************)
(* Why BookingStore implements Ledger, and why its decisions stand: what a *)
(* process that is about to write knows of the file, and what an approval  *)
(* in the middle of its rewriting has done so far.                         *)
(***************************************************************************)
EXTENDS StoreInvariant

(* Only users create, only superusers decide, and only what is asked for.   *)
RoleInv(c) ==
  /\ op[c] \in Ops \cup {"none"}
  /\ op[c] = "create" => RoleOf[c] = "USER"
  /\ op[c] \in {"approve", "reject", "force"} => RoleOf[c] = "SUPERUSER"

(* A request that reaches the lock is for a room that exists; the record    *)
(* that is going to be appended is still free of conflicts, its id new.     *)
CreateInv(c) ==
  /\ op[c] = "create" /\ pc[c] \in {"lock", "scan"} =>
       arg[c].room_id \in Rooms /\ arg[c].status = PENDING
  /\ wbuf[c].mode = "append" =>
       LET b == wbuf[c].rec IN
       /\ op[c] = "create" /\ b.room_id \in Rooms /\ b.status = PENDING
       /\ b.booking_id = NextId(bookings)
       /\ \A i \in DOMAIN bookings : ~is_booking_conflict(bookings[i], b)

(* What reject and force are about to write is the record that is there,    *)
(* with another status.                                                     *)
UpdateInv(c) ==
  /\ pc[c] = "flush" => wbuf[c].mode # "none"
  /\ pc[c] = "flush" /\ wbuf[c].mode = "over" =>
       LET b == bookings[wbuf[c].at]  rec == wbuf[c].rec IN
       /\ rec = WithStatus(b, rec.status) /\ rec = found[c]
       /\ \/ op[c] = "reject" /\ b.status = PENDING /\ rec.status = REJECTED
          \/ op[c] = "force"

(* In the middle of an approval the records before the position, with the   *)
(* buffered one, are decided; what is found by then is the approved one.    *)
RewriteInv(c) ==
  pc[c] = "rewrite" =>
    LET file == Written(bookings, wbuf[c]) IN
    /\ arg[c].status = APPROVED
    /\ wbuf[c].mode = "over" => wbuf[c].at < pos[c]
    /\ \A i \in DOMAIN bookings : i < pos[c] => file[i] = Decided(arg[c], bookings[i])
    /\ found[c].booking_id # 0 => found[c] = arg[c] /\ \E i \in DOMAIN bookings : file[i] = found[c]

(* A request finds nothing before it looks; an approval looks for its id.   *)
LookInv(c) ==
  /\ pc[c] \in {"idle", "find"} \/ (pc[c] \in {"lock", "scan"} /\ op[c] # "approve") =>
       found[c].booking_id = 0
  /\ pc[c] \in {"lock", "scan"} /\ op[c] = "approve" => found[c].booking_id = arg[c].booking_id

SoleSuperuser(c) ==
  RoleOf[c] = "SUPERUSER" /\ \A d \in Procs \ {c} : RoleOf[d] # "SUPERUSER"

(* What the only superuser is going to be told is in the file as it is.     *)
ToldInv(c) ==
  SoleSuperuser(c) =>
    /\ pc[c] \in {"unlock", "reply"} /\ found[c].booking_id # 0 =>
         \E i \in DOMAIN bookings : bookings[i] = found[c]
    /\ reply[c].ok => /\ pc[c] = "idle"
                      /\ \E i \in DOMAIN bookings : bookings[i] = reply[c].booking

WorkOf(c) ==
  /\ RoleInv(c) /\ CreateInv(c) /\ UpdateInv(c)
  /\ RewriteInv(c) /\ LookInv(c) /\ ToldInv(c)

WorkInv == \A c \in Procs : WorkOf(c)

-----------------------------------------------------------------------------
(* The discipline under which decisions stand: nobody forces a status, one  *)
(* superuser decides at a time, and approves only what is pending.          *)
Discipline ==
  /\ "force" \notin Ops
  /\ Approvable \subseteq {PENDING}
  /\ \A c, d \in Procs : RoleOf[c] = "SUPERUSER" /\ RoleOf[d] = "SUPERUSER" => c = d

(* What is being approved has not been decided before.                      *)
PendingInv(c) ==
  op[c] = "approve" =>
    \A i \in DOMAIN bookings : bookings[i].booking_id = arg[c].booking_id =>
      /\ pc[c] \in {"find", "lock", "scan"} => bookings[i].status = PENDING
      /\ pc[c] = "rewrite" => bookings[i].status # REJECTED

AllPending == \A c \in Procs : PendingInv(c)

(* A process that dies in the rewriting leaves an approval half done.       *)
NobodyDiesApproving == \A c \in Procs : Approving(c) => ~Crash(c)

(* The ledger promises no room twice and leaves no rival of an approved     *)
(* booking pending.                                                         *)
Settled(file) ==
  \A i, j \in DOMAIN file :
    i # j /\ file[i].status = APPROVED /\ file[j].status # REJECTED
    => ~Overlap(file[i], file[j])

SettledLedger == Settled(LedgerOf)

(* The inductive invariant of the decisions, under the discipline and as    *)
(* long as nobody dies in an approval.                                      *)
DecisionInv ==
  /\ StoreInv
  /\ WorkInv
  /\ AllPending
  /\ NoSelfOverlap
  /\ SettledLedger

=============================================================================
