-------------------------- MODULE ListingInvariant --------------------------
(***************************************************************************)
(* Why a listing is a picture of one moment, and shows a user nothing but  *)
(* their own: what each process that lists holds, has asked and has sent.  *)
(***************************************************************************)
EXTENDS BookingListing

Listing == [step : Steps, query : Query \cup {NoQuery}, counted : Nat, at : Nat \ {0},
            sent : Seq([at : Nat, booking : Booking \cup Masked]), found : Booking]

Waiter == [waits : {"nothing", "header", "records", "noise"}, left : Nat]

Shapes ==
  /\ TypeOK
  /\ list \in [Procs -> Listing]
  /\ wire \in [Procs -> Seq(Message)]
  /\ client \in [Procs -> Waiter]

(* A process is at an operation or at a listing; it holds the write lock in *)
(* the one, the read lock in the other, and nobody reads beside a writer.   *)
Writing(c) == pc[c] \in {"scan", "rewrite", "flush", "unlock"}

HoldsInv(c) ==
  /\ list[c].step # "none" \/ client[c].waits # "nothing" => pc[c] = "idle"
  /\ lock[c] = IF At(c, "stream") THEN "read" ELSE IF Writing(c) THEN "write" ELSE "none"
  /\ Writing(c) => \A d \in Procs \ {c} : lock[d] = "none"

(* What is being listed was asked for by somebody who may ask for it, and   *)
(* what a lookup is going to send may be seen.                              *)
AskedInv(c) ==
  LET step == list[c].step  kind == list[c].query.kind IN
  /\ step \notin {"none", "details"} => list[c].query \in Query /\ MayAsk(c, kind)
  /\ step \in {"lookup", "found"} => kind = "id"
  /\ step = "lookup" => list[c].counted = 0
  /\ step \in {"count", "open", "stream", "sent"} => kind # "id" /\ HasRoom(list[c].query)
  /\ step = "found" => MayView(c, list[c].found)
  /\ step = "announce" /\ kind = "id" /\ list[c].counted # 0 => MayView(c, list[c].found)

SentInv(c) ==
  /\ list[c].step \in {"count", "lookup", "announce", "open", "found"} => list[c].sent = << >>
  /\ At(c, "stream") =>
       \A k \in DOMAIN list[c].sent :
         LET sent == list[c].sent[k]
         IN  /\ sent.at \in DOMAIN bookings
             /\ sent.booking = Shown(c, list[c].query, bookings[sent.at])

(* What is in the socket its reader may see.                                *)
Seen(c, m) ==
  m.kind = "record" =>
    \/ m.booking.username = UserOf[c]
    \/ m.booking.username = Stars /\ m.booking.booking_id = 0

WireInv(c) ==
  /\ Len(wire[c]) <= SockCap
  /\ ~IsSuperuser(c) => \A k \in DOMAIN wire[c] : Seen(c, wire[c][k])
  /\ client[c].waits = "records" => client[c].left # 0

ListingInv ==
  /\ Shapes
  /\ \A c \in Procs : HoldsInv(c) /\ AskedInv(c) /\ SentInv(c) /\ WireInv(c)

=============================================================================
