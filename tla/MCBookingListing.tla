-------------------------- MODULE MCBookingListing --------------------------
(* Small instances of BookingListing for TLC.  One time unit is one slot.   *)
EXTENDS ListingInvariant

CONSTANTS alice, bob, carol, root, u1, s1

MCRoleOf == [c \in Procs |-> IF c = s1 THEN "SUPERUSER" ELSE "USER"]
MCUserOf == [c \in Procs |-> IF c = s1 THEN root ELSE alice]

Stored(id, user, start, end) ==
  [booking_id |-> id, room_id |-> 1, username |-> user,
   start_time |-> start, end_time |-> end, status |-> PENDING]

(* Two requests, of bob and of carol, for the first slot.                   *)
MCFiles == {<<Stored(1, bob, 0, 1), Stored(2, carol, 0, 2)>>}
MCIntervals == {<<2, 3>>}
MCTwoIntervals == {<<2, 3>>, <<3, 4>>}

Ask(kind) == [kind |-> kind, room |-> 1, id |-> 1, names |-> {bob, carol},
              status |-> PENDING, from |-> 0, to |-> 1]

(* All that a user may ask for, with the booking of another user and one of *)
(* its own to look up and a room that does not exist, and some of what a    *)
(* superuser may.                                                           *)
MCQueries ==
  [c \in Procs |-> IF c = s1 THEN {Ask("all")}
                   ELSE {Ask(kind) : kind \in Kinds}
                          \cup {[Ask("id") EXCEPT !.id = 3], [Ask("room") EXCEPT !.room = 2]}]
MCEveryKind == [c \in Procs |-> {Ask(kind) : kind \in Kinds}]
MCAllQuery == [c \in Procs |-> {Ask("all"), Ask("pick")}]
=============================================================================
