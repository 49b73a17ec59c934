--------------------------- MODULE MCBookingStore ---------------------------
(* Small instances of BookingStore for TLC.  One time unit is one slot.     *)
EXTENDS DecisionInvariant, TLC

CONSTANTS alice, bob, carol, root, u1, u2, s1, s2, s3

(* u1 and u2 are sessions of users, s1, s2 and s3 of superusers.            *)
MCRoleOf == [c \in Procs |-> IF c \in {s1, s2, s3} THEN "SUPERUSER" ELSE "USER"]

(* alice is logged in twice, or alice and bob once each.                    *)
MCOneUserTwice == [c \in Procs |-> IF c \in {s1, s2, s3} THEN root ELSE alice]
MCTwoUsers == [c \in Procs |-> CASE c \in {s1, s2, s3} -> root
                                 [] c = u1 -> alice
                                 [] OTHER -> bob]

Stored(id, user, start, end, status) ==
  [booking_id |-> id, room_id |-> 1, username |-> user,
   start_time |-> start, end_time |-> end, status |-> status]

(* Two requests of other users that compete for the first slot.             *)
MCRivals == <<Stored(1, bob, 0, 1, PENDING), Stored(2, carol, 0, 2, PENDING)>>
(* Three in a row of which the middle one competes with both others.        *)
MCChain == <<Stored(1, bob, 0, 1, PENDING), Stored(2, carol, 0, 2, PENDING),
             Stored(3, bob, 1, 2, PENDING)>>
MCEmptyOrRivals == {<< >>, MCRivals}
MCOnlyRivals == {MCRivals}
MCRivalsOrChain == {MCRivals, MCChain}

(* Two single slots, one that spans both, and one that ends as it starts.   *)
MCIntervals == {<<0, 1>>, <<1, 2>>, <<0, 2>>, <<1, 1>>}
(* The like, from the time on that the clock starts at.                     *)
MCLaterIntervals == {<<1, 2>>, <<2, 3>>, <<1, 3>>, <<2, 2>>}
MCTwoIntervals == {<<0, 1>>, <<0, 2>>}
MCOneInterval == {<<0, 1>>}

(* Superusers are alike.                                                    *)
MCSuperusers == Permutations({s1, s2, s3})
=============================================================================
