---------------------------- MODULE ListingProofs ----------------------------
(***************************************************************************)
(* Listings under any number of processes: ListingInv is inductive, so a   *)
(* listing is a picture of one moment, and a user is shown nobody else's   *)
(* bookings, whatever is created and decided meanwhile.                    *)
(***************************************************************************)
EXTENDS ListingInvariant, BookingStoreProofs

(* What a step of process c leaves alone of the others, and of the lock.    *)
Lists(c) ==
  /\ \A d \in Procs \ {c} :
       /\ list'[d] = list[d] /\ wire'[d] = wire[d] /\ client'[d] = client[d]
       /\ pc'[d] = pc[d] /\ lock'[d] = lock[d]
  /\ \/ lock'[c] = lock[c]
     \/ lock'[c] = "none"
     \/ \A d \in Procs \ {c} : lock[d] # "write"
  /\ bookings' = bookings \/ Writing(c)

LEMMA OthersList ==
  ASSUME ListingInv, NEW c \in Procs, NEW d \in Procs \ {c}, Lists(c), HoldsInv(c)'
  PROVE  HoldsInv(d)' /\ AskedInv(d)' /\ SentInv(d)' /\ WireInv(d)'
<1>1. /\ list'[d] = list[d] /\ wire'[d] = wire[d] /\ client'[d] = client[d]
      /\ pc'[d] = pc[d] /\ lock'[d] = lock[d]
      /\ \A e \in Procs \ {c} : lock'[e] = lock[e]
  BY DEF Lists
<1>2. HoldsInv(d) /\ HoldsInv(c) /\ AskedInv(d) /\ SentInv(d) /\ WireInv(d)
  BY DEF ListingInv
<1>3. HoldsInv(d)'
  <2>1. Writing(d) => lock[d] = "write" /\ lock[c] = "none"
    BY <1>2 DEF HoldsInv, At, Writing
  <2>2. Writing(d) => lock'[c] = "none"
    BY <2>1 DEF Lists
  <2> QED BY <1>1, <1>2, <2>2 DEF HoldsInv, At, Writing
<1>4. AskedInv(d)' /\ WireInv(d)'
  BY <1>1, <1>2 DEF AskedInv, WireInv
<1>5. SentInv(d)'
  <2>1. At(d, "stream") => bookings' = bookings
    BY <1>2 DEF HoldsInv, Lists
  <2> QED BY <1>1, <1>2, <2>1 DEF SentInv, At
<1> QED BY <1>3, <1>4, <1>5

LEMMA ListStepOf ==
  ASSUME ListingInv, Shapes', NEW c \in Procs, Lists(c),
         HoldsInv(c)', AskedInv(c)', SentInv(c)', WireInv(c)'
  PROVE  ListingInv'
<1>1. \A d \in Procs \ {c} : HoldsInv(d)' /\ AskedInv(d)' /\ SentInv(d)' /\ WireInv(d)'
  BY OthersList
<1> QED BY <1>1 DEF ListingInv

-----------------------------------------------------------------------------
(* The store's steps.                                                       *)

LEMMA StoreShape ==
  ASSUME TypeOK, NEW c \in Procs, Waiting(c) \/ Working(c)
  PROVE  /\ pc[c] # "idle"
         /\ \A d \in Procs \ {c} : pc'[d] = pc[d] /\ lock'[d] = lock[d]
         /\ bookings' = bookings \/ Writing(c)
         /\ \/ lock' = lock /\ (Writing(c)' <=> Writing(c))
            \/ lock'[c] = "none" /\ ~Writing(c)'
            \/ lock'[c] = "write" /\ Writing(c)' /\ \A d \in Procs \ {c} : lock[d] = "none"
<1>1. CASE FindBooking(c)
  BY <1>1 DEF FindBooking, Writing, TypeOK
<1>2. CASE LockWriting(c)
  BY <1>2 DEF LockWriting, CanLockWriting, Writing, TypeOK
<1>3. CASE CreateScan(c) \/ RejectScan(c) \/ ForceScan(c) \/ ApproveConflict(c) \/ ApproveStart(c)
  BY <1>3 DEF CreateScan, RejectScan, ForceScan, UpdateStatus, ApproveConflict, ApproveStart,
              Scanned, Writing, TypeOK
<1>4. CASE ApproveNext(c) \/ ApproveEnd(c) \/ Flush(c)
  BY <1>4 DEF ApproveNext, ApproveEnd, Flush, Scanned, Writing, TypeOK
<1>5. CASE Unlock(c)
  BY <1>5 DEF Unlock, Writing, TypeOK
<1>6. CASE Reply(c)
  BY <1>6 DEF Reply, Forget, Writing, TypeOK
<1> QED BY <1>1, <1>2, <1>3, <1>4, <1>5, <1>6 DEF Waiting, Working

LEMMA StoreStepLists ==
  ASSUME ListingInv, NEW c \in Procs, StoreStep(c)
  PROVE  ListingInv'
<1>0. /\ TypeOK /\ (Waiting(c) \/ Working(c)) /\ UNCHANGED <<list, wire, client>>
      /\ HoldsInv(c) /\ AskedInv(c) /\ SentInv(c) /\ WireInv(c)
  BY DEF ListingInv, Shapes, StoreStep, listVars
<1>1. /\ pc[c] # "idle"
      /\ \A d \in Procs \ {c} : pc'[d] = pc[d] /\ lock'[d] = lock[d]
      /\ bookings' = bookings \/ Writing(c)
      /\ \/ lock' = lock /\ (Writing(c)' <=> Writing(c))
         \/ lock'[c] = "none" /\ ~Writing(c)'
         \/ lock'[c] = "write" /\ Writing(c)' /\ \A d \in Procs \ {c} : lock[d] = "none"
  BY <1>0, StoreShape
<1>2. list[c].step = "none" /\ client[c].waits = "nothing"
  BY <1>0, <1>1 DEF HoldsInv
<1>3. Shapes'
  <2>1. TypeOK'
    BY <1>0, TypeStep DEF Next
  <2> QED BY <1>0, <2>1 DEF ListingInv, Shapes
<1>4. Lists(c)
  BY <1>0, <1>1 DEF Lists
<1>5. HoldsInv(c)'
  BY <1>0, <1>1, <1>2 DEF HoldsInv, At
<1>6. AskedInv(c)' /\ SentInv(c)' /\ WireInv(c)'
  BY <1>0, <1>2 DEF AskedInv, SentInv, WireInv, At
<1> QED BY <1>3, <1>4, <1>5, <1>6, ListStepOf

LEMMA NoListType ==
  NoList \in Listing /\ NoList.step = "none" /\ NoList.sent = << >> /\ NoList.counted = 0
BY ZeroBookingType DEF NoList, Listing, Steps

LEMMA RequestShape ==
  ASSUME TypeOK, NEW c \in Procs, Request(c)
  PROVE  /\ pc[c] = "idle" /\ pc'[c] \in {"find", "lock", "reply"}
         /\ \A d \in Procs \ {c} : pc'[d] = pc[d]
         /\ UNCHANGED <<bookings, lock>>
<1>1. \E operation, booking, next : next \in {"lock", "reply", "find"} /\ Receive(c, operation, booking, next)
  BY DEF Request, CreateRequest, ApproveRequest, RejectRequest, ForceRequest
<1> QED BY <1>1 DEF Receive, TypeOK

LEMMA RequestLists ==
  ASSUME ListingInv, NEW c \in Procs, Details(c) \/ StoreRequest(c)
  PROVE  ListingInv'
<1>0. /\ TypeOK /\ Request(c) /\ UNCHANGED <<wire, client>>
      /\ client[c].waits = "nothing" /\ list[c].step \in {"none", "details"}
      /\ HoldsInv(c) /\ AskedInv(c) /\ SentInv(c) /\ WireInv(c)
  BY DEF ListingInv, Shapes, Details, StoreRequest, Request, Free, At, listVars
<1>1. /\ list' \in [Procs -> Listing] /\ list'[c].step = "none"
      /\ \A d \in Procs \ {c} : list'[d] = list[d]
  <2>1. CASE Details(c)
    BY <2>1, NoListType DEF Details, ListingInv, Shapes
  <2>2. CASE StoreRequest(c)
    BY <2>2 DEF StoreRequest, Free, At, listVars, ListingInv, Shapes
  <2> QED BY <2>1, <2>2
<1>2. /\ pc[c] = "idle" /\ pc'[c] \in {"find", "lock", "reply"}
      /\ \A d \in Procs \ {c} : pc'[d] = pc[d]
      /\ UNCHANGED <<bookings, lock>>
  BY <1>0, RequestShape
<1>3. Shapes'
  <2>1. TypeOK'
    BY <1>0, TypeStep DEF Next
  <2> QED BY <1>0, <1>1, <2>1 DEF ListingInv, Shapes
<1>4. Lists(c)
  BY <1>0, <1>1, <1>2 DEF Lists
<1>5. HoldsInv(c)'
  BY <1>0, <1>1, <1>2 DEF HoldsInv, At, Writing
<1>6. AskedInv(c)' /\ SentInv(c)' /\ WireInv(c)'
  BY <1>0, <1>1 DEF AskedInv, SentInv, WireInv, At
<1> QED BY <1>3, <1>4, <1>5, <1>6, ListStepOf

-----------------------------------------------------------------------------
(* The listing's steps that leave the store and its locks alone.            *)

LEMMA SameStore ==
  ASSUME ListingInv, NEW c \in Procs, UNCHANGED vars,
         list' \in [Procs -> Listing], wire' \in [Procs -> Seq(Message)], client' \in [Procs -> Waiter],
         \A d \in Procs \ {c} : list'[d] = list[d] /\ wire'[d] = wire[d] /\ client'[d] = client[d],
         list'[c].step = "stream" <=> At(c, "stream"),
         list'[c].step # "none" \/ client'[c].waits # "nothing" => pc[c] = "idle",
         AskedInv(c)', SentInv(c)', WireInv(c)'
  PROVE  ListingInv'
<1>0. TypeOK /\ HoldsInv(c) /\ UNCHANGED <<bookings, pc, lock>>
  BY DEF ListingInv, Shapes, vars
<1>1. Shapes'
  BY <1>0 DEF Shapes, TypeOK, vars
<1>2. Lists(c)
  BY <1>0 DEF Lists
<1>3. HoldsInv(c)'
  BY <1>0 DEF HoldsInv, At, Writing
<1> QED BY <1>1, <1>2, <1>3, ListStepOf

(* What is shown of a booking to whom may ask for it.                       *)
LEMMA ShownType ==
  ASSUME NEW c, NEW q, NEW b \in Booking
  PROVE  Shown(c, q, b) \in Booking \cup Masked
<1>1. [b EXCEPT !.username = Stars, !.booking_id = 0] \in Masked
  BY DEF Booking, Masked
<1> QED BY <1>1 DEF Shown

LEMMA MessageTypes ==
  /\ \A n \in Nat : Header(n) \in Message /\ Header(n).kind = "header"
  /\ \A b \in Booking \cup Masked : /\ Record(b) \in Message /\ Record(b).kind = "record"
                                    /\ Record(b).booking = b
BY ZeroBookingType DEF Header, Record, Message

LEMMA ShownSeen ==
  ASSUME NEW c \in Procs, ~IsSuperuser(c), NEW q \in Query, MayAsk(c, q.kind), q.kind # "id",
         NEW b \in Booking, Matches(c, q, b)
  PROVE  Seen(c, Record(Shown(c, q, b)))
<1> DEFINE shown == Shown(c, q, b)
<1>1. Record(shown).booking = shown
  BY ShownType, MessageTypes
<1>2. q.kind \in {"mine", "pick", "room", "status", "range"}
  BY DEF Query, Kinds, MayAsk
<1>3. CASE ShouldMask(c, q) /\ b.username # UserOf[c]
  <2>1. shown = [b EXCEPT !.username = Stars, !.booking_id = 0]
    BY <1>3 DEF Shown
  <2>2. shown.username = Stars /\ shown.booking_id = 0
    BY <2>1 DEF Booking
  <2> QED BY <1>1, <2>2 DEF Seen
<1>4. CASE b.username = UserOf[c]
  <2>1. shown = b
    BY <1>4 DEF Shown
  <2> QED BY <1>1, <1>4, <2>1 DEF Seen
<1>5. ShouldMask(c, q) \/ b.username = UserOf[c]
  <2>1. CASE q.kind \in {"mine", "pick", "room"}
    BY <2>1 DEF ShouldMask
  <2>2. CASE q.kind = "status"
    BY <2>2 DEF Matches, match_by_status_from_current_time_user
  <2>3. CASE q.kind = "range"
    BY <2>3 DEF Matches, match_by_time_range_user
  <2> QED BY <1>2, <2>1, <2>2, <2>3
<1> QED BY <1>3, <1>4, <1>5

LEMMA ListRequestLists ==
  ASSUME ListingInv, NEW c \in Procs, ListRequest(c)
  PROVE  ListingInv'
<1>0. /\ list \in [Procs -> Listing] /\ client \in [Procs -> Waiter] /\ UNCHANGED <<vars, wire>>
      /\ pc[c] = "idle" /\ At(c, "none") /\ WireInv(c) /\ wire \in [Procs -> Seq(Message)]
  BY DEF ListingInv, Shapes, ListRequest, Free
<1>1. PICK q \in Queries[c] :
        /\ MayAsk(c, q.kind)
        /\ list' = [list EXCEPT ![c] = [NoList EXCEPT !.step = FirstStep(q), !.query = q]]
        /\ client' = [client EXCEPT ![c] = [waits |-> "header", left |-> 0]]
  BY DEF ListRequest
<1>2. q \in Query
  BY ListingAssumption
<1> DEFINE next == [NoList EXCEPT !.step = FirstStep(q), !.query = q]
<1>3. \/ FirstStep(q) = "lookup" /\ q.kind = "id"
      \/ FirstStep(q) = "announce"
      \/ FirstStep(q) = "count" /\ q.kind # "id" /\ HasRoom(q)
  BY DEF FirstStep, HasRoom
<1>4. /\ next \in Listing /\ next.query = q /\ next.sent = << >> /\ next.counted = 0
      /\ next.step = FirstStep(q)
  BY <1>2, <1>3, NoListType, ZeroBookingType DEF NoList, Listing, Steps
<1> HIDE DEF next
<1>5. /\ list' = [list EXCEPT ![c] = next] /\ list'[c] = next /\ client'[c].waits = "header"
      /\ client' \in [Procs -> Waiter]
  BY <1>0, <1>1 DEF next, Waiter
<1>6. AskedInv(c)'
  <2>1. /\ list'[c].query = q /\ q \in Query /\ MayAsk(c, q.kind) /\ list'[c].counted = 0
    BY <1>1, <1>2, <1>4, <1>5
  <2>2. \/ list'[c].step = "lookup" /\ q.kind = "id"
        \/ list'[c].step = "announce"
        \/ list'[c].step = "count" /\ q.kind # "id" /\ HasRoom(q)
    BY <1>3, <1>4, <1>5
  <2> QED BY <2>1, <2>2 DEF AskedInv
<1>7. SentInv(c)' /\ WireInv(c)'
  BY <1>0, <1>3, <1>4, <1>5 DEF SentInv, WireInv, At
<1>8. /\ list' \in [Procs -> Listing] /\ list'[c].step # "stream"
      /\ \A d \in Procs \ {c} : list'[d] = list[d] /\ client'[d] = client[d]
  BY <1>0, <1>1, <1>3, <1>4, <1>5
<1> QED BY <1>0, <1>5, <1>6, <1>7, <1>8, SameStore DEF At

LEMMA CountLists ==
  ASSUME ListingInv, NEW c \in Procs, Count(c)
  PROVE  ListingInv'
<1> DEFINE hits == {i \in DOMAIN bookings : Matches(c, list[c].query, bookings[i])}
<1>0. /\ list \in [Procs -> Listing] /\ client \in [Procs -> Waiter] /\ UNCHANGED <<vars, wire, client>>
      /\ At(c, "count") /\ wire \in [Procs -> Seq(Message)] /\ bookings \in Seq(Booking)
      /\ list' = [list EXCEPT ![c].step = "announce", ![c].counted = Cardinality(hits)]
      /\ HoldsInv(c) /\ AskedInv(c) /\ SentInv(c) /\ WireInv(c) /\ list[c] \in Listing
  BY DEF ListingInv, Shapes, TypeOK, Count
<1>1. Cardinality(hits) \in Nat
  <2>1. hits \in SUBSET DOMAIN bookings
    OBVIOUS
  <2> HIDE DEF hits
  <2>2. DOMAIN bookings = 1 .. Len(bookings) /\ Len(bookings) \in Nat
    BY <1>0
  <2>3. IsFiniteSet(DOMAIN bookings)
    BY <2>2, FS_Interval
  <2> QED BY <2>1, <2>3, FS_Subset, FS_CardinalityType
<1> HIDE DEF hits
<1>2. /\ list' \in [Procs -> Listing] /\ list'[c].step = "announce" /\ list'[c].query = list[c].query
      /\ list'[c].sent = list[c].sent /\ \A d \in Procs \ {c} : list'[d] = list[d]
  BY <1>0, <1>1 DEF Listing, Steps
<1>3. AskedInv(c)' /\ SentInv(c)' /\ WireInv(c)'
  BY <1>0, <1>2 DEF AskedInv, SentInv, WireInv, At
<1>4. pc[c] = "idle"
  BY <1>0 DEF HoldsInv, At
<1> QED BY <1>0, <1>2, <1>3, <1>4, SameStore DEF At

(* A message its reader may see is sent.                                    *)
LEMMA SendSeen ==
  ASSUME ListingInv, NEW c \in Procs, NEW m \in Message, Send(c, m), ~IsSuperuser(c) => Seen(c, m)
  PROVE  /\ wire' \in [Procs -> Seq(Message)] /\ \A d \in Procs \ {c} : wire'[d] = wire[d]
         /\ Len(wire'[c]) <= SockCap
         /\ ~IsSuperuser(c) => \A k \in DOMAIN wire'[c] : Seen(c, wire'[c][k])
<1>1. wire \in [Procs -> Seq(Message)] /\ WireInv(c) /\ SockCap \in Nat
  BY ListingAssumption DEF ListingInv, Shapes
<1> DEFINE queue == wire[c]
           after == Append(queue, m)
<1>2. wire' = [wire EXCEPT ![c] = after] /\ queue \in Seq(Message) /\ Len(queue) < SockCap
  BY <1>1 DEF Send
<1>3. wire'[c] = after
  BY <1>1, <1>2
<1>4. /\ after \in Seq(Message) /\ Len(after) = Len(queue) + 1 /\ after[Len(queue) + 1] = m
      /\ \A k \in DOMAIN after : k = Len(queue) + 1 \/ (k \in DOMAIN queue /\ after[k] = queue[k])
  BY <1>2
<1>5. ~IsSuperuser(c) => \A k \in DOMAIN queue : Seen(c, queue[k])
  BY <1>1 DEF WireInv
<1> HIDE DEF after, queue
<1> QED BY <1>1, <1>2, <1>3, <1>4, <1>5

LEMMA AnnounceLists ==
  ASSUME ListingInv, NEW c \in Procs, Announce(c)
  PROVE  ListingInv'
<1>0. /\ list \in [Procs -> Listing] /\ client \in [Procs -> Waiter] /\ UNCHANGED <<vars, client>>
      /\ At(c, "announce") /\ list[c] \in Listing /\ Send(c, Header(list[c].counted))
      /\ HoldsInv(c) /\ AskedInv(c) /\ SentInv(c) /\ WireInv(c)
  BY DEF ListingInv, Shapes, Announce
<1>1. Header(list[c].counted) \in Message /\ Seen(c, Header(list[c].counted))
  BY <1>0, MessageTypes DEF Listing, Seen
<1>2. /\ wire' \in [Procs -> Seq(Message)] /\ \A d \in Procs \ {c} : wire'[d] = wire[d]
      /\ Len(wire'[c]) <= SockCap
      /\ ~IsSuperuser(c) => \A k \in DOMAIN wire'[c] : Seen(c, wire'[c][k])
  BY <1>0, <1>1, SendSeen
<1>3. /\ list' \in [Procs -> Listing] /\ \A d \in Procs \ {c} : list'[d] = list[d]
      /\ \/ list'[c] = NoList
         \/ /\ list'[c].query = list[c].query /\ list'[c].found = list[c].found
            /\ list'[c].sent = list[c].sent
            /\ \/ /\ list[c].query.kind = "id" /\ list[c].counted # 0 /\ list'[c].step = "found"
               \/ /\ list[c].query.kind # "id" /\ HasRoom(list[c].query)
                  /\ list'[c].step = "open"
  BY <1>0, NoListType DEF Announce, Listing, Steps
<1>4. AskedInv(c)' /\ SentInv(c)'
  BY <1>0, <1>3, NoListType DEF AskedInv, SentInv, At
<1>5. WireInv(c)'
  BY <1>0, <1>2 DEF WireInv
<1>6. pc[c] = "idle" /\ list'[c].step # "stream"
  BY <1>0, <1>3, NoListType DEF HoldsInv, At
<1> QED BY <1>0, <1>2, <1>3, <1>4, <1>5, <1>6, SameStore DEF At

LEMMA LookupLists ==
  ASSUME ListingInv, NEW c \in Procs, Lookup(c)
  PROVE  ListingInv'
<1> DEFINE hits == {j \in DOMAIN bookings : match_by_booking_id(list[c].query, bookings[j])}
           i == FirstOf(hits)
<1>0. /\ list \in [Procs -> Listing] /\ client \in [Procs -> Waiter] /\ UNCHANGED <<vars, wire, client>>
      /\ At(c, "lookup") /\ wire \in [Procs -> Seq(Message)] /\ bookings \in Seq(Booking)
      /\ \/ /\ i # 0 /\ MayView(c, bookings[i])
            /\ list' = [list EXCEPT ![c].step = "announce", ![c].counted = 1, ![c].found = bookings[i]]
         \/ list' = [list EXCEPT ![c].step = "announce"]
      /\ HoldsInv(c) /\ AskedInv(c) /\ SentInv(c) /\ WireInv(c) /\ list[c] \in Listing
  BY DEF ListingInv, Shapes, TypeOK, Lookup
<1>1. i # 0 => bookings[i] \in Booking
  <2>1. hits \in SUBSET DOMAIN bookings
    OBVIOUS
  <2> HIDE DEF hits
  <2> QED BY <1>0, <2>1, FirstOfFile
<1> HIDE DEF i, hits
<1>2. \E next \in Listing :
        /\ list' = [list EXCEPT ![c] = next]
        /\ next.step = "announce" /\ next.query = list[c].query /\ next.sent = list[c].sent
        /\ MayView(c, next.found) \/ next.counted = 0
  <2>1. CASE /\ i # 0 /\ MayView(c, bookings[i])
             /\ list' = [list EXCEPT ![c].step = "announce", ![c].counted = 1, ![c].found = bookings[i]]
    <3> DEFINE granted == [list[c] EXCEPT !.step = "announce", !.counted = 1, !.found = bookings[i]]
    <3>1. list' = [list EXCEPT ![c] = granted]
      BY <1>0, <2>1
    <3>2. /\ granted \in Listing /\ granted.step = "announce" /\ granted.query = list[c].query
          /\ granted.sent = list[c].sent /\ granted.found = bookings[i]
      BY <1>0, <1>1, <2>1 DEF Listing, Steps
    <3> HIDE DEF granted
    <3> QED BY <2>1, <3>1, <3>2
  <2>2. CASE list' = [list EXCEPT ![c].step = "announce"]
    <3> DEFINE refused == [list[c] EXCEPT !.step = "announce"]
    <3>1. list' = [list EXCEPT ![c] = refused]
      BY <1>0, <2>2
    <3>2. /\ refused \in Listing /\ refused.step = "announce" /\ refused.query = list[c].query
          /\ refused.sent = list[c].sent /\ refused.counted = list[c].counted
      BY <1>0 DEF Listing, Steps
    <3>3. list[c].counted = 0
      BY <1>0 DEF AskedInv, At
    <3> HIDE DEF refused
    <3> QED BY <3>1, <3>2, <3>3
  <2> QED BY <1>0, <2>1, <2>2
<1>3. /\ list' \in [Procs -> Listing] /\ list'[c].step = "announce" /\ list'[c].query = list[c].query
      /\ list'[c].sent = list[c].sent /\ \A d \in Procs \ {c} : list'[d] = list[d]
      /\ MayView(c, list'[c].found) \/ list'[c].counted = 0
  BY <1>0, <1>2
<1>4. AskedInv(c)' /\ SentInv(c)' /\ WireInv(c)'
  BY <1>0, <1>3 DEF AskedInv, SentInv, WireInv, At, MayView, IsSuperuser
<1>5. pc[c] = "idle"
  BY <1>0 DEF HoldsInv, At
<1> QED BY <1>0, <1>3, <1>4, <1>5, SameStore DEF At

LEMMA SendFoundLists ==
  ASSUME ListingInv, NEW c \in Procs, SendFound(c)
  PROVE  ListingInv'
<1>0. /\ list \in [Procs -> Listing] /\ client \in [Procs -> Waiter] /\ UNCHANGED <<vars, client>>
      /\ At(c, "found") /\ list[c].found \in Booking /\ Send(c, Record(list[c].found))
      /\ HoldsInv(c) /\ AskedInv(c) /\ WireInv(c) /\ list' = [list EXCEPT ![c] = NoList]
  BY DEF ListingInv, Shapes, SendFound, Listing
<1>1. Record(list[c].found) \in Message /\ (~IsSuperuser(c) => Seen(c, Record(list[c].found)))
  BY <1>0, MessageTypes DEF AskedInv, At, MayView, Seen
<1>2. /\ wire' \in [Procs -> Seq(Message)] /\ \A d \in Procs \ {c} : wire'[d] = wire[d]
      /\ Len(wire'[c]) <= SockCap
      /\ ~IsSuperuser(c) => \A k \in DOMAIN wire'[c] : Seen(c, wire'[c][k])
  BY <1>0, <1>1, SendSeen
<1>3. /\ list' \in [Procs -> Listing] /\ list'[c] = NoList /\ \A d \in Procs \ {c} : list'[d] = list[d]
  BY <1>0, NoListType
<1>4. AskedInv(c)' /\ SentInv(c)' /\ WireInv(c)'
  BY <1>0, <1>2, <1>3, NoListType DEF AskedInv, SentInv, WireInv, At
<1>5. pc[c] = "idle"
  BY <1>0 DEF HoldsInv, At
<1> QED BY <1>0, <1>2, <1>3, <1>4, <1>5, NoListType, SameStore DEF At

LEMMA FinishLists ==
  ASSUME ListingInv, NEW c \in Procs, FinishList(c) \/ Cancel(c)
  PROVE  ListingInv'
<1>0. /\ list \in [Procs -> Listing] /\ client \in [Procs -> Waiter] /\ UNCHANGED <<vars, wire, client>>
      /\ list[c].step \in {"sent", "details"} /\ wire \in [Procs -> Seq(Message)]
      /\ HoldsInv(c) /\ WireInv(c)
  BY DEF ListingInv, Shapes, FinishList, Cancel, At
<1> DEFINE details == [NoList EXCEPT !.step = "details"]
<1>1. details \in Listing /\ details.step = "details"
  BY NoListType DEF Listing, Steps
<1> HIDE DEF details
<1>2. list' = [list EXCEPT ![c] = NoList] \/ list' = [list EXCEPT ![c] = details]
  BY DEF FinishList, Cancel, details
<1>3. /\ list' \in [Procs -> Listing] /\ list'[c].step \in {"none", "details"}
      /\ \A d \in Procs \ {c} : list'[d] = list[d]
  BY <1>0, <1>1, <1>2, NoListType
<1>4. AskedInv(c)' /\ SentInv(c)' /\ WireInv(c)'
  BY <1>0, <1>3 DEF AskedInv, SentInv, WireInv, At
<1>5. pc[c] = "idle"
  BY <1>0 DEF HoldsInv
<1> QED BY <1>0, <1>3, <1>4, <1>5, SameStore DEF At

(* The client's steps.                                                      *)
LEMMA CalmType ==
  ASSUME NEW n \in Nat
  PROVE  /\ Calm(n) \in Waiter
         /\ Calm(n).waits = "records" => Calm(n).left # 0
BY DEF Calm, Waiter

LEMMA ClientLists ==
  ASSUME ListingInv, NEW c \in Procs, ClientStep(c)
  PROVE  ListingInv'
<1>0. /\ list \in [Procs -> Listing] /\ client \in [Procs -> Waiter] /\ UNCHANGED <<vars, list>>
      /\ wire \in [Procs -> Seq(Message)] /\ wire[c] # << >> /\ wire' = [wire EXCEPT ![c] = Tail(wire[c])]
      /\ client[c].waits # "nothing"
      /\ HoldsInv(c) /\ AskedInv(c) /\ SentInv(c) /\ WireInv(c)
  BY DEF ListingInv, Shapes, ClientStep, ReadHeader, ReadRecord, Misread
<1> DEFINE queue == wire[c]
           after == Tail(queue)
<1>1. /\ queue \in Seq(Message) /\ after \in Seq(Message) /\ Len(after) = Len(queue) - 1
      /\ Head(queue) \in Message /\ Len(queue) \in Nat
      /\ \A k \in DOMAIN after : k + 1 \in DOMAIN queue /\ after[k] = queue[k + 1]
  BY <1>0
<1> HIDE DEF after
<1>2. wire' \in [Procs -> Seq(Message)] /\ wire'[c] = after /\ \A d \in Procs \ {c} : wire'[d] = wire[d]
  BY <1>0, <1>1 DEF after
<1>3. \E waiter \in Waiter : /\ client' = [client EXCEPT ![c] = waiter]
                             /\ waiter.waits = "records" => waiter.left # 0
  <2>1. CASE ReadHeader(c)
    <3>1. Head(wire[c]).count \in Nat
      BY <1>1 DEF Message
    <3> QED BY <2>1, <3>1, CalmType DEF ReadHeader
  <2>2. CASE ReadRecord(c)
    <3>1. client[c].left - 1 \in Nat
      BY <1>0, <2>2 DEF ReadRecord, WireInv, Waiter
    <3> QED BY <2>2, <3>1, CalmType DEF ReadRecord
  <2>3. CASE Misread(c)
    <3>1. [waits |-> "noise", left |-> 0] \in Waiter
      BY DEF Waiter
    <3> QED BY <2>3, <3>1 DEF Misread
  <2> QED BY <2>1, <2>2, <2>3 DEF ClientStep
<1>4. /\ client' \in [Procs -> Waiter] /\ \A d \in Procs \ {c} : client'[d] = client[d]
      /\ client'[c].waits = "records" => client'[c].left # 0
  BY <1>0, <1>3
<1>5. WireInv(c)'
  <2>1. \A k \in DOMAIN queue : ~IsSuperuser(c) => Seen(c, queue[k])
    BY <1>0 DEF WireInv
  <2>2. ~IsSuperuser(c) => \A k \in DOMAIN after : Seen(c, after[k])
    BY <1>1, <2>1
  <2>3. Len(after) <= SockCap
    BY <1>0, <1>1, ListingAssumption DEF WireInv
  <2> QED BY <1>2, <1>4, <2>2, <2>3 DEF WireInv
<1>6. AskedInv(c)' /\ SentInv(c)' /\ pc[c] = "idle"
  BY <1>0 DEF AskedInv, SentInv, HoldsInv, At, vars
<1> QED BY <1>0, <1>2, <1>4, <1>5, <1>6, SameStore DEF At

-----------------------------------------------------------------------------
(* The listing's steps that take the read lock, send under it, and give it  *)
(* back.                                                                    *)

LEMMA LockReadingLists ==
  ASSUME ListingInv, NEW c \in Procs, LockReading(c)
  PROVE  ListingInv'
<1>0. /\ Shapes /\ At(c, "open") /\ CanLockReading(c) /\ list[c] \in Listing
      /\ UNCHANGED <<bookings, now, op, pc, arg, found, pos, wbuf, reply, crashes, wire, client>>
      /\ HoldsInv(c) /\ AskedInv(c) /\ SentInv(c) /\ WireInv(c)
      /\ lock' = [lock EXCEPT ![c] = "read"] /\ list' = [list EXCEPT ![c].step = "stream"]
  BY DEF ListingInv, Shapes, LockReading, procVars
<1>1. /\ list' \in [Procs -> Listing] /\ list'[c].step = "stream" /\ list'[c].query = list[c].query
      /\ list'[c].sent = list[c].sent /\ \A d \in Procs \ {c} : list'[d] = list[d]
      /\ list \in [Procs -> Listing]
  BY <1>0 DEF Shapes, Listing, Steps
<1>2. lock'[c] = "read" /\ \A d \in Procs \ {c} : lock'[d] = lock[d]
  BY <1>0 DEF Shapes, TypeOK
<1>3. Shapes'
  BY <1>0, <1>1 DEF Shapes, TypeOK
<1>4. Lists(c)
  BY <1>0, <1>1, <1>2 DEF Lists, CanLockReading
<1>5. HoldsInv(c)'
  BY <1>0, <1>1, <1>2 DEF HoldsInv, At, Writing
<1>6. AskedInv(c)' /\ SentInv(c)' /\ WireInv(c)'
  BY <1>0, <1>1 DEF AskedInv, SentInv, WireInv, At
<1> QED BY <1>3, <1>4, <1>5, <1>6, ListStepOf

LEMMA UnlockReadingLists ==
  ASSUME ListingInv, NEW c \in Procs, UnlockReading(c)
  PROVE  ListingInv'
<1>0. /\ Shapes /\ At(c, "stream") /\ list[c] \in Listing
      /\ UNCHANGED <<bookings, now, op, pc, arg, found, pos, wbuf, reply, crashes, wire, client>>
      /\ HoldsInv(c) /\ AskedInv(c) /\ WireInv(c)
      /\ lock' = [lock EXCEPT ![c] = "none"] /\ list' = [list EXCEPT ![c].step = "sent"]
  BY DEF ListingInv, Shapes, UnlockReading, procVars
<1>1. /\ list' \in [Procs -> Listing] /\ list'[c].step = "sent" /\ list'[c].query = list[c].query
      /\ \A d \in Procs \ {c} : list'[d] = list[d]
      /\ list \in [Procs -> Listing]
  BY <1>0 DEF Shapes, Listing, Steps
<1>2. lock'[c] = "none" /\ \A d \in Procs \ {c} : lock'[d] = lock[d]
  BY <1>0 DEF Shapes, TypeOK
<1>3. Shapes'
  BY <1>0, <1>1 DEF Shapes, TypeOK
<1>4. Lists(c)
  BY <1>0, <1>1, <1>2 DEF Lists
<1>5. HoldsInv(c)'
  BY <1>0, <1>1, <1>2 DEF HoldsInv, At, Writing
<1>6. AskedInv(c)' /\ SentInv(c)' /\ WireInv(c)'
  BY <1>0, <1>1 DEF AskedInv, SentInv, WireInv, At
<1> QED BY <1>3, <1>4, <1>5, <1>6, ListStepOf

LEMMA NewConnectionLists ==
  ASSUME ListingInv, NEW c \in Procs, ExitShort(c) \/ Restart(c)
  PROVE  ListingInv'
<1>0. /\ Shapes /\ UNCHANGED <<bookings, now, op, pc, arg, found, pos, wbuf, crashes>>
      /\ list' = [list EXCEPT ![c] = NoList] /\ wire' = [wire EXCEPT ![c] = << >>]
      /\ client' = [client EXCEPT ![c] = [waits |-> "nothing", left |-> 0]]
      /\ lock' = [lock EXCEPT ![c] = "none"] /\ reply' = [reply EXCEPT ![c] = NoReply]
      /\ HoldsInv(c) /\ (At(c, "sent") \/ client[c].waits = "noise")
  BY DEF ListingInv, ExitShort, Restart, NewConnection, procVars
<1>1. NoReply \in Answer /\ [waits |-> "nothing", left |-> 0] \in Waiter
  BY ZeroBookingType DEF NoReply, Answer, Waiter
<1>2. /\ list' \in [Procs -> Listing] /\ list'[c] = NoList /\ wire' \in [Procs -> Seq(Message)]
      /\ wire'[c] = << >> /\ client' \in [Procs -> Waiter] /\ client'[c].waits = "nothing"
      /\ lock'[c] = "none"
      /\ \A d \in Procs \ {c} : list'[d] = list[d] /\ wire'[d] = wire[d] /\ client'[d] = client[d]
                                                 /\ lock'[d] = lock[d]
  BY <1>0, <1>1, NoListType DEF Shapes, TypeOK
<1>3. Shapes'
  BY <1>0, <1>1, <1>2 DEF Shapes, TypeOK
<1>4. Lists(c)
  BY <1>0, <1>2 DEF Lists
<1>5. pc[c] = "idle"
  BY <1>0 DEF HoldsInv, At
<1>6. HoldsInv(c)'
  BY <1>0, <1>2, <1>5, NoListType DEF HoldsInv, At, Writing
<1>7. AskedInv(c)' /\ SentInv(c)' /\ WireInv(c)'
  BY <1>2, NoListType, ListingAssumption DEF AskedInv, SentInv, WireInv, At
<1> QED BY <1>3, <1>4, <1>6, <1>7, ListStepOf

LEMMA SendNextLists ==
  ASSUME ListingInv, NEW c \in Procs, SendNext(c)
  PROVE  ListingInv'
<1>0. /\ list \in [Procs -> Listing] /\ client \in [Procs -> Waiter] /\ UNCHANGED <<vars, client>>
      /\ At(c, "stream") /\ list[c] \in Listing /\ bookings \in Seq(Booking)
      /\ HoldsInv(c) /\ AskedInv(c) /\ SentInv(c) /\ WireInv(c)
  BY DEF ListingInv, Shapes, TypeOK, SendNext
<1> DEFINE q == list[c].query
           before == list[c].sent
<1>1. PICK i \in NextMatches(c) :
        /\ Send(c, Record(Shown(c, q, bookings[i])))
        /\ list' = [list EXCEPT ![c].at = i + 1,
                                ![c].sent = Append(@, [at |-> i, booking |-> Shown(c, q, bookings[i])])]
  BY DEF SendNext
<1> DEFINE shown == Shown(c, q, bookings[i])
           entry == [at |-> i, booking |-> shown]
           after == Append(before, entry)
           next == [list[c] EXCEPT !.at = i + 1, !.sent = after]
<1>2. i \in DOMAIN bookings /\ i \in Nat \ {0} /\ bookings[i] \in Booking /\ Matches(c, q, bookings[i])
  BY <1>0 DEF NextMatches
<1>3. q \in Query /\ MayAsk(c, q.kind) /\ q.kind # "id"
  BY <1>0 DEF AskedInv, At
<1>4. shown \in Booking \cup Masked /\ Record(shown) \in Message
  BY <1>2, ShownType, MessageTypes
<1>5. ~IsSuperuser(c) => Seen(c, Record(shown))
  BY <1>2, <1>3, ShownSeen
<1> HIDE DEF shown, q
<1>6. /\ wire' \in [Procs -> Seq(Message)] /\ \A d \in Procs \ {c} : wire'[d] = wire[d]
      /\ Len(wire'[c]) <= SockCap
      /\ ~IsSuperuser(c) => \A k \in DOMAIN wire'[c] : Seen(c, wire'[c][k])
  BY <1>1, <1>4, <1>5, SendSeen DEF shown, q
<1>7. /\ entry \in [at : Nat, booking : Booking \cup Masked] /\ entry.at = i /\ entry.booking = shown
      /\ before \in Seq([at : Nat, booking : Booking \cup Masked])
  BY <1>0, <1>2, <1>4 DEF Listing
<1>8. list' = [list EXCEPT ![c] = next]
  BY <1>0, <1>1 DEF shown, q
<1> HIDE DEF entry
<1>9. /\ after \in Seq([at : Nat, booking : Booking \cup Masked])
      /\ \A k \in DOMAIN after : after[k] = entry \/ (k \in DOMAIN before /\ after[k] = before[k])
  BY <1>7
<1> HIDE DEF before, after
<1>10. /\ next \in Listing /\ next.step = "stream" /\ next.query = list[c].query /\ next.sent = after
  <2>1. list[c] \in Listing /\ list[c].step = "stream"
    BY <1>0 DEF At
  <2>2. i + 1 \in Nat \ {0}
    BY <1>2
  <2>3. after \in Seq([at : Nat, booking : Booking \cup Masked])
    BY <1>9
  <2> QED BY <2>1, <2>2, <2>3 DEF Listing
<1> HIDE DEF next
<1>11. /\ list' \in [Procs -> Listing] /\ list'[c] = next /\ \A d \in Procs \ {c} : list'[d] = list[d]
  BY <1>0, <1>8, <1>10
<1>12. AskedInv(c)'
  BY <1>0, <1>3, <1>10, <1>11 DEF AskedInv, At, q
<1>13. SentInv(c)'
  <2>1. \A k \in DOMAIN after : /\ after[k].at \in DOMAIN bookings
                               /\ after[k].booking = Shown(c, q, bookings[after[k].at])
    BY <1>0, <1>2, <1>7, <1>9 DEF SentInv, before, shown, q
  <2> QED BY <1>0, <1>10, <1>11, <2>1 DEF SentInv, At, q, vars
<1>14. WireInv(c)'
  BY <1>0, <1>6 DEF WireInv
<1>15. pc[c] = "idle"
  BY <1>0 DEF HoldsInv, At
<1> QED BY <1>0, <1>6, <1>10, <1>11, <1>12, <1>13, <1>14, <1>15, SameStore DEF At

-----------------------------------------------------------------------------
(* The invariant.                                                           *)

LEMMA CalmStep ==
  ASSUME ListingInv, UNCHANGED listVars, UNCHANGED <<bookings, pc, lock>>, TypeOK'
  PROVE  ListingInv'
<1>1. UNCHANGED <<list, wire, client, bookings, pc, lock>>
  BY DEF listVars
<1>2. Shapes'
  BY <1>1 DEF ListingInv, Shapes
<1>3. \A c \in Procs : HoldsInv(c)' /\ AskedInv(c)' /\ SentInv(c)' /\ WireInv(c)'
  BY <1>1 DEF ListingInv, HoldsInv, AskedInv, SentInv, WireInv, At, Writing
<1> QED BY <1>2, <1>3 DEF ListingInv

LEMMA ListingInit ==
  ASSUME ListInit
  PROVE  ListingInv
<1>1. TypeOK
  BY InitType DEF ListInit
<1>2. [waits |-> "nothing", left |-> 0] \in Waiter
  BY DEF Waiter
<1>3. Shapes
  BY <1>1, <1>2, NoListType DEF Shapes, ListInit
<1>4. ASSUME NEW c \in Procs
      PROVE  HoldsInv(c) /\ AskedInv(c) /\ SentInv(c) /\ WireInv(c)
  <2>1. pc[c] = "idle" /\ lock[c] = "none"
    BY DEF ListInit, Init
  <2>2. list[c] = NoList /\ wire[c] = << >> /\ client[c].waits = "nothing"
    BY DEF ListInit
  <2> QED BY <2>1, <2>2, NoListType, ListingAssumption
          DEF HoldsInv, AskedInv, SentInv, WireInv, At, Writing
<1> QED BY <1>3, <1>4 DEF ListingInv

LEMMA ListingStep ==
  ASSUME ListingInv, [ListNext]_allVars
  PROVE  ListingInv'
<1>0. TypeOK
  BY DEF ListingInv, Shapes
<1>1. CASE \E c \in Procs : \/ ListRequest(c) \/ Details(c) \/ Cancel(c) \/ StoreRequest(c) \/ StoreStep(c)
                           \/ ListWaiting(c) \/ ListWorking(c) \/ ClientStep(c) \/ Restart(c)
  BY <1>1, ListRequestLists, RequestLists, FinishLists, StoreStepLists, CountLists, LookupLists,
     LockReadingLists, AnnounceLists, SendNextLists, UnlockReadingLists, NewConnectionLists,
     SendFoundLists, ClientLists DEF ListWaiting, ListWorking
<1>2. CASE Tick /\ UNCHANGED listVars
  <2>1. TypeOK'
    BY <1>0, <1>2, TypeStep DEF Next
  <2>2. UNCHANGED <<bookings, pc, lock>>
    BY <1>2 DEF Tick, procVars
  <2> QED BY <1>2, <2>1, <2>2, CalmStep
<1>3. CASE UNCHANGED allVars
  <2>1. UNCHANGED vars /\ UNCHANGED listVars
    BY <1>3 DEF allVars
  <2>2. UNCHANGED <<bookings, pc, lock>>
    BY <2>1 DEF vars, procVars
  <2>3. TypeOK'
    BY <1>0, <2>1, TypeStep
  <2> QED BY <2>1, <2>2, <2>3, CalmStep
<1> QED BY <1>1, <1>2, <1>3 DEF ListNext

(* ListingInv holds however many processes list and change bookings at      *)
(* once: who streams holds the read lock and nobody writes beside it, what  *)
(* it has sent still is what the file says, and what it sends may be seen.  *)
THEOREM ListingHolds == ListSpec => []ListingInv
BY ListingInit, ListingStep, PTL DEF ListSpec

(* Types; a read lock is held exactly while a process streams, and no more  *)
(* messages are under way than the socket holds.                            *)
THEOREM ListTypeCorrect == ListSpec => []ListTypeOK
<1>1. ListingInv => ListTypeOK
  BY DEF ListingInv, Shapes, HoldsInv, WireInv, At, Writing, ListTypeOK, Listing, Waiter
<1> QED BY <1>1, ListingHolds, PTL

(* A listing is a picture of one moment: the read lock of                   *)
(* send_bookings_by_filter keeps the file as it was at the first record.    *)
THEOREM ListingsAreSnapshots == ListSpec => []ListingIsSnapshot
<1>1. ListingInv => ListingIsSnapshot
  BY DEF ListingInv, SentInv, ListingIsSnapshot
<1> QED BY <1>1, ListingHolds, PTL

(* Privacy: whatever is asked for, in whatever state the store is, no       *)
(* message to someone who is not a superuser names or identifies another    *)
(* user's booking.                                                          *)
THEOREM UsersSeeTheirOwn == ListSpec => []OwnBookingsOnly
<1>1. ListingInv => OwnBookingsOnly
  BY DEF ListingInv, WireInv, Seen, OwnBookingsOnly
<1> QED BY <1>1, ListingHolds, PTL

=============================================================================
