------------------------- MODULE RoomRegisterProofs -------------------------
(***************************************************************************)
(* rooms.dat for any number of processes, any names, any gaps in its first *)
(* ids and any crashes: ids and names are unique, rooms that clients know  *)
(* of stay, a refused room is not stored unless its name is empty, and the *)
(* file implements Register.                                               *)
(***************************************************************************)
EXTENDS RoomRegister, FiniteSetTheorems, FunctionTheorems, SequenceTheorems, TLAPS

-----------------------------------------------------------------------------
(* The inductive invariant.                                                 *)

OneWriter == \A c, d \in Procs : pc[c] = "store" /\ pc[d] = "store" => c = d

(* A process holds the lock, and has a room in its buffer, only between its *)
(* scan and its flush; what it found out about the file still holds.        *)
HolderInv(c) ==
  /\ lock[c] = "write" <=> pc[c] = "store"
  /\ pc[c] # "store" => buf[c] = << >>
  /\ pc[c] = "store" =>
       \/ buf[c] = << >> /\ result[c] = NoRoom
       \/ buf[c] = << NewRoom(c) >> /\ ~SameName(c) /\ result[c] = NewRoom(c)

(* What a process is about to answer, and what it has answered.             *)
AnswerInv(c) ==
  /\ pc[c] \in {"create", "store", "answer"} => c \in Superusers /\ answer[c] = "none"
  /\ pc[c] = "answer" => result[c] = NoRoom \/ result[c] \in Range(rooms)
  /\ pc[c] = "picked" => c \notin Superusers
  /\ c \notin Superusers => result[c] = NoRoom
  /\ answer[c] = "ERROR" => result[c].room_name = NoName

RoomsInv ==
  /\ RoomsTypeOK /\ OneWriter
  /\ UniqueRooms /\ ToldRoomsStay /\ KnownRoomsExist
  /\ \A c \in Procs : HolderInv(c) /\ AnswerInv(c)

-----------------------------------------------------------------------------
(* The greatest id.                                                         *)

From(S, m) == {n \in S : n >= m}

(* A finite set of naturals has a greatest element: the sets of what is not *)
(* below an element are finite, so one of them is minimal for inclusion.    *)
LEMMA GreatestOfFinite ==
  ASSUME NEW S \in SUBSET Nat, IsFiniteSet(S), S # {}
  PROVE  \E m \in S : \A n \in S : m >= n
<1> DEFINE Family == {From(S, m) : m \in S}
<1>1. Family \subseteq FiniteSubsetsOf(S) /\ Family # {}
  <2>1. \A m \in S : From(S, m) \in SUBSET S
    BY DEF From
  <2>2. Family \subseteq SUBSET S /\ Family # {}
    BY <2>1
  <2> QED BY <2>2, FS_FiniteSubsetsOfFinite
<1>2. \E F \in Family : \A G \in Family : ~(<<G, F>> \in StrictSubsetOrdering(S))
  <2> HIDE DEF Family
  <2>1. IsWellFoundedOn(StrictSubsetOrdering(S), FiniteSubsetsOf(S))
    BY FS_StrictSubsetOrderingWellFounded
  <2> QED BY <1>1, <2>1, WFMin
<1>3. PICK m \in S : \A G \in Family : ~(<<G, From(S, m)>> \in StrictSubsetOrdering(S))
  BY <1>2
<1>4. ASSUME NEW k \in S, k > m PROVE FALSE
  <2>1. From(S, k) \in SUBSET S /\ From(S, m) \in SUBSET S /\ From(S, k) \in Family
    BY DEF From
  <2>2. \A n \in S : n >= k => n >= m
    BY <1>4
  <2>3. From(S, k) \subseteq From(S, m)
    BY <2>2 DEF From
  <2>4. m \in From(S, m) /\ m \notin From(S, k)
    BY <1>4 DEF From
  <2>5. <<From(S, k), From(S, m)>> \in StrictSubsetOrdering(S)
    BY <2>1, <2>3, <2>4 DEF StrictSubsetOrdering
  <2> QED BY <1>3, <2>1, <2>5
<1> QED BY <1>4

LEMMA RecordTypes ==
  ASSUME NEW file \in Seq(StoredRoom), NEW i \in DOMAIN file
  PROVE  file[i] \in StoredRoom /\ file[i].room_id \in Nat \ {0}
<1>1. file[i] \in StoredRoom
  OBVIOUS
<1> QED BY <1>1 DEF StoredRoom

(* A file holds finitely many ids.                                          *)
LEMMA IdsFinite ==
  ASSUME NEW file \in Seq(StoredRoom)
  PROVE  IsFiniteSet(IdsOf(file)) /\ IdsOf(file) \in SUBSET Nat
<1> DEFINE id == [i \in DOMAIN file |-> file[i].room_id]
<1>1. IdsOf(file) = Range(id)
  <2>1. \A n : n \in IdsOf(file) <=> \E i \in DOMAIN file : n = file[i].room_id
    BY DEF IdsOf, Range
  <2>2. \A n : n \in Range(id) <=> \E i \in DOMAIN file : n = file[i].room_id
    BY DEF Range
  <2> HIDE DEF id
  <2> QED BY <2>1, <2>2
<1>2. \A i \in DOMAIN file : file[i].room_id \in Nat
  BY RecordTypes
<1>3. id \in [DOMAIN file -> Nat]
  BY <1>2
<1>4. id \in Surjection(DOMAIN file, Range(id)) /\ Range(id) \subseteq Nat
  BY <1>3, Fun_RangeProperties
<1>5. IsFiniteSet(DOMAIN file)
  <2>1. DOMAIN file = 1 .. Len(file) /\ Len(file) \in Int
    OBVIOUS
  <2> QED BY <2>1, FS_Interval
<1>6. IsFiniteSet(Range(id))
  <2> HIDE DEF id
  <2> QED BY <1>4, <1>5, FS_Surjection
<1> QED BY <1>1, <1>4, <1>6

(* The id of a new room is positive and above every id of the file, however *)
(* many gaps it has.                                                        *)
LEMMA GreatestIdBounds ==
  ASSUME NEW file \in Seq(StoredRoom)
  PROVE  /\ GreatestRoomId(file) \in Nat
         /\ \A i \in DOMAIN file : file[i].room_id <= GreatestRoomId(file)
<1> DEFINE ids == IdsOf(file) \cup {0}
<1>1. IsFiniteSet(ids) /\ ids \in SUBSET Nat /\ ids # {}
  BY IdsFinite, FS_AddElement
<1>2. \A i \in DOMAIN file : file[i].room_id \in ids
  BY DEF IdsOf, Range
<1>3. GreatestRoomId(file) = CHOOSE m \in ids : \A n \in ids : m >= n
  BY DEF GreatestRoomId, Max
<1>4. \E m \in ids : \A n \in ids : m >= n
  <2> HIDE DEF ids
  <2> QED BY <1>1, GreatestOfFinite
<1>5. GreatestRoomId(file) \in ids /\ \A n \in ids : GreatestRoomId(file) >= n
  <2> HIDE DEF ids
  <2> QED BY <1>3, <1>4
<1>6. \A n \in ids : n \in Nat
  BY <1>1
<1> HIDE DEF ids
<1> QED BY <1>2, <1>5, <1>6

-----------------------------------------------------------------------------
(* Types.                                                                   *)

LEMMA ConstantTypes ==
  /\ NoRoom \in Room /\ NoArg \in Room /\ StoredRoom \subseteq Room
  /\ \A name \in TypedNames : [NoArg EXCEPT !.room_name = name] \in Room
  /\ \A id \in TypedRooms : id \in Nat /\ [NoArg EXCEPT !.room_id = id] \in Room
BY RoomAssumption DEF NoArg, NoRoom, Room, StoredRoom

LEMMA NewRoomType ==
  ASSUME RoomsTypeOK, NEW c \in Procs
  PROVE  NewRoom(c) \in StoredRoom /\ NewRoom(c) \in Room
<1>1. GreatestRoomId(rooms) \in Nat
  BY GreatestIdBounds DEF RoomsTypeOK
<1>2. arg[c].room_name \in Names
  BY DEF RoomsTypeOK, Room
<1>3. Sanitized[arg[c].room_name] \in Names
  BY <1>2, RoomAssumption
<1> QED BY <1>1, <1>3 DEF NewRoom, StoredRoom, Room

LEMMA TypeInit == Init => RoomsTypeOK
BY ConstantTypes, RoomAssumption DEF Init, RoomsTypeOK, File!FileInit

LEMMA TypeStep ==
  ASSUME RoomsTypeOK, [Next]_vars
  PROVE  RoomsTypeOK'
<1> USE DEF RoomsTypeOK
<1>1. CASE UNCHANGED vars
  BY <1>1 DEF vars
<1>2. ASSUME NEW c \in Procs, CreateRequest(c) PROVE RoomsTypeOK'
  BY <1>2, ConstantTypes DEF CreateRequest, Goto, Says
<1>3. ASSUME NEW c \in Procs, CreateScan(c) PROVE RoomsTypeOK'
  <2>1. << NewRoom(c) >> \in Seq(StoredRoom) /\ << >> \in Seq(StoredRoom) /\ NewRoom(c) \in Room
    BY NewRoomType
  <2>2. buf' \in [Procs -> Seq(StoredRoom)]
    BY <1>3, <2>1 DEF CreateScan, File!LockAndScan
  <2>3. result' \in [Procs -> Room]
    BY <1>3, <2>1, ConstantTypes DEF CreateScan
  <2>4. lock' \in [Procs -> {"none", "write"}] /\ UNCHANGED rooms
    BY <1>3 DEF CreateScan, File!LockAndScan
  <2> QED BY <1>3, <2>2, <2>3, <2>4 DEF CreateScan, Goto
<1>4. ASSUME NEW c \in Procs, CreateStore(c) PROVE RoomsTypeOK'
  <2>1. rooms \o buf[c] \in Seq(StoredRoom)
    BY ConcatProperties
  <2> QED BY <1>4, <2>1 DEF CreateStore, File!FlushAndUnlock, Goto
<1>5. ASSUME NEW c \in Procs, CreateAnswer(c) PROVE RoomsTypeOK'
  <2>1. told' \subseteq told \cup {result[c]} /\ result[c] \in Room
    BY <1>5 DEF CreateAnswer
  <2> QED BY <1>5, <2>1, ConstantTypes DEF CreateAnswer, Goto, Forget, Says
<1>6. ASSUME NEW c \in Procs, ListRooms(c) PROVE RoomsTypeOK'
  BY <1>6, IdsFinite DEF ListRooms, Says
<1>7. ASSUME NEW c \in Procs, PickRoom(c) PROVE RoomsTypeOK'
  <2>1. \E id \in TypedRooms :
          \/ arg' = [arg EXCEPT ![c] = [NoArg EXCEPT !.room_id = id]]
             /\ pc' = [pc EXCEPT ![c] = "picked"]
          \/ UNCHANGED <<arg, pc>>
    BY <1>7 DEF PickRoom, Goto
  <2>2. arg' \in [Procs -> Room] /\ pc' \in [Procs -> {"idle", "create", "store", "answer", "picked"}]
    BY <2>1, ConstantTypes
  <2>3. answer' \in [Procs -> {"none", "OK", "ERROR"}]
    BY <1>7 DEF PickRoom, Says
  <2> QED BY <1>7, <2>2, <2>3 DEF PickRoom
<1>8. ASSUME NEW c \in Procs, BookRoom(c) PROVE RoomsTypeOK'
  <2>1. arg[c].room_id \in Nat
    BY DEF Room
  <2>2. booked' \subseteq booked \cup {arg[c].room_id}
    BY <1>8 DEF BookRoom
  <2> QED BY <1>8, <2>1, <2>2, ConstantTypes DEF BookRoom, Goto, Forget, Says
<1>9. ASSUME NEW c \in Procs, CancelBooking(c) PROVE RoomsTypeOK'
  BY <1>9, ConstantTypes DEF CancelBooking, Goto, Forget
<1>10. ASSUME NEW c \in Procs, Crash(c) PROVE RoomsTypeOK'
  <2>1. << >> \in Seq(StoredRoom)
    OBVIOUS
  <2> QED BY <1>10, <2>1, ConstantTypes DEF Crash, File!Die, Goto, Forget, Says
<1> QED BY <1>1, <1>2, <1>3, <1>4, <1>5, <1>6, <1>7, <1>8, <1>9, <1>10 DEF Next, Create

(* Every variable has its type, ids of stored rooms being positive.         *)
THEOREM TypeCorrect == Spec => []RoomsTypeOK
<1>1. RoomsTypeOK /\ [Next]_vars => RoomsTypeOK'
  BY TypeStep
<1> QED BY <1>1, TypeInit, PTL DEF Spec

-----------------------------------------------------------------------------
(* The file.                                                                *)

(* No room is lost or changed.                                              *)
RoomsKept == Range(rooms) \subseteq Range(rooms') /\ IdsOf(rooms) \subseteq IdsOf(rooms')

LEMMA UnchangedKeeps == UNCHANGED rooms => RoomsKept
BY DEF RoomsKept

(* What a flush does: nothing when the name was taken, else it enters a     *)
(* room under an id and a name that no other room has.                      *)
LEMMA StoreEnters ==
  ASSUME RoomsInv, NEW c \in Procs, CreateStore(c)
  PROVE  \/ rooms' = rooms /\ result[c] = NoRoom
         \/ /\ rooms' = Append(rooms, NewRoom(c))
            /\ ~SameName(c) /\ result[c] = NewRoom(c)
<1>1. rooms' = rooms \o buf[c] /\ pc[c] = "store" /\ HolderInv(c)
  BY DEF CreateStore, File!FlushAndUnlock, RoomsInv
<1>2. rooms \in Seq(StoredRoom) /\ NewRoom(c) \in StoredRoom
  BY NewRoomType DEF RoomsInv, RoomsTypeOK
<1>3. CASE buf[c] = << >> /\ result[c] = NoRoom
  BY <1>1, <1>2, <1>3, ConcatEmptySeq
<1>4. CASE buf[c] = << NewRoom(c) >> /\ ~SameName(c) /\ result[c] = NewRoom(c)
  BY <1>1, <1>2, <1>4, AppendIsConcat
<1> QED BY <1>1, <1>3, <1>4 DEF HolderInv

LEMMA AppendRoomProperties ==
  ASSUME NEW file \in Seq(StoredRoom), NEW room \in StoredRoom
  PROVE  /\ DOMAIN file = 1 .. Len(file) /\ Len(file) \in Nat
         /\ DOMAIN Append(file, room) = 1 .. Len(file) + 1
         /\ \A i \in 1 .. Len(file) : Append(file, room)[i] = file[i]
         /\ Append(file, room)[Len(file) + 1] = room
         /\ Append(file, room) # << >>
OBVIOUS

LEMMA AppendKeeps ==
  ASSUME rooms \in Seq(StoredRoom), NEW room \in StoredRoom, rooms' = Append(rooms, room)
  PROVE  RoomsKept /\ room \in Range(rooms')
<1>1. \A i \in DOMAIN rooms : i \in DOMAIN rooms' /\ rooms'[i] = rooms[i]
  BY AppendRoomProperties
<1>2. Range(rooms) \subseteq Range(rooms')
  BY <1>1 DEF Range
<1>3. IdsOf(rooms) \subseteq IdsOf(rooms')
  BY <1>2 DEF IdsOf
<1>4. Len(rooms) + 1 \in DOMAIN rooms' /\ rooms'[Len(rooms) + 1] = room
  BY AppendRoomProperties
<1>5. room \in Range(rooms')
  BY <1>4 DEF Range
<1> QED BY <1>2, <1>3, <1>5 DEF RoomsKept

(* Only a flush changes the file.                                           *)
LEMMA FileStep ==
  ASSUME [Next]_vars
  PROVE  UNCHANGED rooms \/ \E c \in Procs : CreateStore(c)
BY DEF Next, vars, Create, CreateRequest, CreateScan, File!LockAndScan, CreateAnswer, ListRooms,
       PickRoom, BookRoom, CancelBooking, Crash, File!Die

LEMMA StepKeeps ==
  ASSUME RoomsInv, [Next]_vars
  PROVE  RoomsKept
<1>1. ASSUME NEW c \in Procs, CreateStore(c) PROVE RoomsKept
  <2>1. rooms \in Seq(StoredRoom) /\ NewRoom(c) \in StoredRoom
    BY NewRoomType DEF RoomsInv, RoomsTypeOK
  <2> QED BY <1>1, <2>1, StoreEnters, AppendKeeps, UnchangedKeeps
<1> QED BY <1>1, FileStep, UnchangedKeeps

(* A new room's id is above the others', and its name is not among theirs.  *)
LEMMA UniqueStep ==
  ASSUME RoomsInv, [Next]_vars
  PROVE  UniqueRooms'
<1>1. CASE UNCHANGED rooms
  BY <1>1 DEF RoomsInv, UniqueRooms
<1>2. ASSUME NEW c \in Procs, rooms' = Append(rooms, NewRoom(c)), ~SameName(c)
      PROVE  UniqueRooms'
  <2>1. rooms \in Seq(StoredRoom) /\ NewRoom(c) \in StoredRoom
    BY NewRoomType DEF RoomsInv, RoomsTypeOK
  <2>2. \A i \in DOMAIN rooms : rooms[i].room_id # NewRoom(c).room_id
    <3>1. NewRoom(c).room_id = GreatestRoomId(rooms) + 1
      BY DEF NewRoom
    <3>2. \A i \in DOMAIN rooms : rooms[i].room_id \in Nat
      BY <2>1, RecordTypes
    <3> QED BY <2>1, <3>1, <3>2, GreatestIdBounds
  <2>3. \A i \in DOMAIN rooms : rooms[i].room_name # NewRoom(c).room_name
    BY <1>2 DEF SameName, NewRoom, Range
  <2>4. \A i, j \in DOMAIN rooms :
          (rooms[i].room_id = rooms[j].room_id \/ rooms[i].room_name = rooms[j].room_name) => i = j
    BY DEF RoomsInv, UniqueRooms
  <2>5. /\ DOMAIN rooms = 1 .. Len(rooms) /\ Len(rooms) \in Nat
        /\ DOMAIN rooms' = 1 .. Len(rooms) + 1
        /\ \A i \in DOMAIN rooms : rooms'[i] = rooms[i]
        /\ rooms'[Len(rooms) + 1] = NewRoom(c)
    BY <1>2, <2>1, AppendRoomProperties
  <2>6. \A i \in DOMAIN rooms' : i \in DOMAIN rooms \/ i = Len(rooms) + 1
    BY <2>5
  <2> QED BY <2>2, <2>3, <2>4, <2>5, <2>6 DEF UniqueRooms
<1> QED BY <1>1, <1>2, FileStep, StoreEnters

-----------------------------------------------------------------------------
(* The lock, the buffers and the answers.                                   *)

LEMMA OneWriterStep ==
  ASSUME RoomsInv, [Next]_vars
  PROVE  OneWriter'
<1> USE DEF RoomsInv, RoomsTypeOK
<1>1. ASSUME NEW c \in Procs, CreateScan(c) PROVE OneWriter'
  <2>1. \A d \in Procs \ {c} : pc[d] # "store"
    BY <1>1 DEF CreateScan, File!LockAndScan, File!LockIsFree, HolderInv
  <2>2. \A d \in Procs : pc'[d] = IF d = c THEN "store" ELSE pc[d]
    BY <1>1 DEF CreateScan, Goto
  <2> QED BY <2>1, <2>2 DEF OneWriter
<1>2. CASE \A d \in Procs : pc'[d] = "store" => pc[d] = "store"
  BY <1>2 DEF OneWriter
<1>3. ASSUME \A c \in Procs : ~CreateScan(c)
      PROVE  \A d \in Procs : pc'[d] = "store" => pc[d] = "store"
  BY <1>3 DEF Next, vars, Create, CreateRequest, CreateStore, CreateAnswer, ListRooms, PickRoom,
              BookRoom, CancelBooking, Crash, Goto
<1> QED BY <1>1, <1>2, <1>3

(* A step of another process changes the file only when it holds the lock,  *)
(* so what a process found out in its scan holds until its flush.           *)
LEMMA OthersKeep ==
  ASSUME RoomsInv, NEW c \in Procs, NEW d \in Procs, d # c,
         lock'[d] = lock[d], buf'[d] = buf[d], pc'[d] = pc[d], arg'[d] = arg[d],
         result'[d] = result[d], rooms' = rooms \/ pc[c] = "store"
  PROVE  HolderInv(d)'
<1>1. rooms' # rooms => pc[d] # "store"
  BY DEF RoomsInv, OneWriter
<1>2. rooms' = rooms => NewRoom(d)' = NewRoom(d) /\ (SameName(d)' <=> SameName(d))
  BY DEF NewRoom, SameName
<1> QED BY <1>1, <1>2 DEF RoomsInv, HolderInv

LEMMA HolderStep ==
  ASSUME RoomsInv, [Next]_vars, NEW d \in Procs
  PROVE  HolderInv(d)'
<1> USE DEF RoomsInv, RoomsTypeOK
<1>1. CASE UNCHANGED vars
  BY <1>1 DEF vars, HolderInv, NewRoom, SameName
<1>2. ASSUME NEW c \in Procs, CreateScan(c) PROVE HolderInv(d)'
  <2>1. CASE d # c
    BY <1>2, <2>1, OthersKeep DEF CreateScan, File!LockAndScan, Goto
  <2>2. CASE d = c
    <3>1. NewRoom(c)' = NewRoom(c) /\ (SameName(c)' <=> SameName(c))
      BY <1>2 DEF CreateScan, File!LockAndScan, NewRoom, SameName
    <3>2. pc'[c] = "store" /\ lock'[c] = "write"
      BY <1>2 DEF CreateScan, File!LockAndScan, Goto
    <3>3. \/ buf'[c] = << >> /\ result'[c] = NoRoom
          \/ buf'[c] = << NewRoom(c) >> /\ ~SameName(c) /\ result'[c] = NewRoom(c)
      BY <1>2 DEF CreateScan, File!LockAndScan
    <3> QED BY <2>2, <3>1, <3>2, <3>3 DEF HolderInv
  <2> QED BY <2>1, <2>2
<1>3. ASSUME NEW c \in Procs, CreateStore(c) PROVE HolderInv(d)'
  BY <1>3, OthersKeep DEF CreateStore, File!FlushAndUnlock, Goto, HolderInv
<1>4. ASSUME NEW c \in Procs, Crash(c) PROVE HolderInv(d)'
  BY <1>4, OthersKeep DEF Crash, File!Die, Goto, Forget, HolderInv
<1>5. ASSUME NEW c \in Procs, pc[c] # "store", pc'[c] # "store", UNCHANGED <<rooms, lock, buf>>,
             \A e \in Procs \ {c} :
               pc'[e] = pc[e] /\ arg'[e] = arg[e] /\ result'[e] = result[e]
      PROVE  HolderInv(d)'
  BY <1>5, OthersKeep DEF HolderInv
<1>6. ASSUME NEW c \in Procs, CreateRequest(c) \/ CreateAnswer(c) \/ ListRooms(c)
      PROVE  HolderInv(d)'
  BY <1>5, <1>6 DEF CreateRequest, CreateAnswer, ListRooms, Goto, Forget
<1>7. ASSUME NEW c \in Procs, PickRoom(c) \/ BookRoom(c) \/ CancelBooking(c) PROVE HolderInv(d)'
  BY <1>5, <1>7 DEF PickRoom, BookRoom, CancelBooking, Goto, Forget
<1> QED BY <1>1, <1>2, <1>3, <1>4, <1>6, <1>7 DEF Next, Create

LEMMA StoredIsAnswered ==
  ASSUME RoomsInv, NEW c \in Procs, CreateStore(c)
  PROVE  result[c] = NoRoom \/ result[c] \in Range(rooms')
<1>1. rooms \in Seq(StoredRoom) /\ NewRoom(c) \in StoredRoom
  BY NewRoomType DEF RoomsInv, RoomsTypeOK
<1> QED BY <1>1, StoreEnters, AppendKeeps

LEMMA AnswerStep ==
  ASSUME RoomsInv, [Next]_vars, NEW d \in Procs
  PROVE  AnswerInv(d)'
<1> USE DEF RoomsInv, RoomsTypeOK
<1>0. Range(rooms) \subseteq Range(rooms') /\ AnswerInv(d)
  BY StepKeeps DEF RoomsKept
<1>1. ASSUME NEW c \in Procs, d # c, UNCHANGED <<pc[d], result[d], answer[d]>>
      PROVE  AnswerInv(d)'
  BY <1>0, <1>1 DEF AnswerInv
<1>2. CASE UNCHANGED vars
  BY <1>0, <1>2 DEF vars, AnswerInv
<1>3. ASSUME NEW c \in Procs, CreateRequest(c) PROVE AnswerInv(d)'
  BY <1>0, <1>1, <1>3 DEF CreateRequest, Goto, Says, AnswerInv
<1>4. ASSUME NEW c \in Procs, CreateScan(c) PROVE AnswerInv(d)'
  BY <1>0, <1>1, <1>4 DEF CreateScan, Goto, AnswerInv
<1>5. ASSUME NEW c \in Procs, CreateStore(c) PROVE AnswerInv(d)'
  BY <1>0, <1>1, <1>5, StoredIsAnswered DEF CreateStore, Goto, AnswerInv
<1>6. ASSUME NEW c \in Procs, CreateAnswer(c) PROVE AnswerInv(d)'
  BY <1>0, <1>1, <1>6 DEF CreateAnswer, Succeeded, Goto, Says, AnswerInv
<1>7. ASSUME NEW c \in Procs, ListRooms(c) PROVE AnswerInv(d)'
  BY <1>0, <1>1, <1>7 DEF ListRooms, Says, AnswerInv
<1>8. ASSUME NEW c \in Procs, PickRoom(c) \/ BookRoom(c) \/ CancelBooking(c) PROVE AnswerInv(d)'
  BY <1>0, <1>1, <1>8 DEF PickRoom, BookRoom, CancelBooking, Goto, Says, AnswerInv, NoRoom
<1>9. ASSUME NEW c \in Procs, Crash(c) PROVE AnswerInv(d)'
  BY <1>0, <1>1, <1>9 DEF Crash, Goto, Says, AnswerInv, NoRoom
<1> QED BY <1>2, <1>3, <1>4, <1>5, <1>6, <1>7, <1>8, <1>9 DEF Next, Create

LEMMA ToldStep ==
  ASSUME RoomsInv, [Next]_vars
  PROVE  ToldRoomsStay'
<1>1. told' \subseteq told \/ \E c \in Procs : CreateAnswer(c)
  BY DEF Next, vars, Create, CreateRequest, CreateScan, CreateStore, ListRooms, PickRoom,
         BookRoom, CancelBooking, Crash
<1>2. ASSUME NEW c \in Procs, CreateAnswer(c) PROVE told' \subseteq Range(rooms)
  <2>1. \A room \in told' : room \in told \/ (room = result[c] /\ room.room_name # NoName)
    BY <1>2 DEF CreateAnswer, Succeeded
  <2>2. result[c] = NoRoom \/ result[c] \in Range(rooms)
    BY <1>2 DEF CreateAnswer, RoomsInv, AnswerInv
  <2>3. NoRoom.room_name = NoName
    BY DEF NoRoom
  <2> QED BY <2>1, <2>2, <2>3 DEF RoomsInv, ToldRoomsStay
<1> QED BY <1>1, <1>2, StepKeeps DEF RoomsInv, ToldRoomsStay, RoomsKept

(* An id that a client knows is in the file, and the file only grows.       *)
LEMMA KnownStep ==
  ASSUME RoomsInv, [Next]_vars
  PROVE  KnownRoomsExist'
<1> USE DEF RoomsInv, RoomsTypeOK
<1>0. IdsOf(rooms) \subseteq IdsOf(rooms') /\ IdsOf(rooms)' = IdsOf(rooms')
  BY StepKeeps DEF RoomsKept, IdsOf
<1>1. listed' \subseteq listed \cup IdsOf(rooms)
  BY DEF Next, vars, Create, CreateRequest, CreateScan, CreateStore, CreateAnswer, ListRooms,
         PickRoom, BookRoom, CancelBooking, Crash
<1>2. booked' \subseteq booked \cup IdsOf(rooms)
  <2>1. ASSUME NEW c \in Procs, BookRoom(c) PROVE booked' \subseteq booked \cup IdsOf(rooms)
    BY <2>1 DEF BookRoom, is_room_exists
  <2> QED BY <2>1 DEF Next, vars, Create, CreateRequest, CreateScan, CreateStore, CreateAnswer,
                      ListRooms, PickRoom, CancelBooking, Crash
<1>3. ASSUME NEW d \in Procs, pc'[d] = "picked" PROVE arg'[d].room_id \in IdsOf(rooms)
  <2>1. CASE pc'[d] = pc[d] /\ arg'[d] = arg[d]
    BY <1>3, <2>1 DEF KnownRoomsExist, is_room_exists
  <2>2. ASSUME NEW c \in Procs, PickRoom(c) PROVE arg'[d].room_id \in IdsOf(rooms)
    <3>1. CASE d # c
      BY <2>1, <2>2, <3>1 DEF PickRoom, Goto
    <3>2. CASE d = c /\ UNCHANGED <<arg, pc>>
      BY <2>1, <3>2
    <3>3. CASE /\ d = c
               /\ \E id \in TypedRooms :
                    /\ is_room_exists(id)
                    /\ arg' = [arg EXCEPT ![c] = [NoArg EXCEPT !.room_id = id]]
      <4>1. PICK id \in TypedRooms :
              /\ is_room_exists(id)
              /\ arg' = [arg EXCEPT ![c] = [NoArg EXCEPT !.room_id = id]]
        BY <3>3
      <4>2. arg'[d] = [NoArg EXCEPT !.room_id = id]
        BY <3>3, <4>1
      <4>3. arg'[d].room_id = id
        BY <4>2 DEF NoArg, NoRoom
      <4> QED BY <4>1, <4>3 DEF is_room_exists
    <3> QED BY <2>2, <3>1, <3>2, <3>3 DEF PickRoom
  <2>3. ASSUME NEW c \in Procs, CreateRequest(c) \/ CreateScan(c) \/ CreateStore(c)
        PROVE  arg'[d].room_id \in IdsOf(rooms)
    BY <1>3, <2>1, <2>3 DEF CreateRequest, CreateScan, CreateStore, Goto
  <2>4. ASSUME NEW c \in Procs, CreateAnswer(c) \/ ListRooms(c) \/ BookRoom(c)
        PROVE  arg'[d].room_id \in IdsOf(rooms)
    BY <1>3, <2>1, <2>4 DEF CreateAnswer, ListRooms, BookRoom, Goto, Forget
  <2>5. ASSUME NEW c \in Procs, CancelBooking(c) \/ Crash(c)
        PROVE  arg'[d].room_id \in IdsOf(rooms)
    BY <1>3, <2>1, <2>5 DEF CancelBooking, Crash, Goto, Forget
  <2>6. CASE UNCHANGED vars
    BY <2>1, <2>6 DEF vars
  <2> QED BY <2>2, <2>3, <2>4, <2>5, <2>6 DEF Next, Create
<1>4. listed' \cup booked' \subseteq IdsOf(rooms')
  BY <1>0, <1>1, <1>2 DEF KnownRoomsExist
<1>5. \A d \in Procs : pc'[d] = "picked" => arg'[d].room_id \in IdsOf(rooms')
  BY <1>0, <1>3
<1> QED BY <1>0, <1>4, <1>5 DEF KnownRoomsExist, is_room_exists

-----------------------------------------------------------------------------
(* The theorems.                                                            *)

LEMMA InvInit == Init => RoomsInv
<1> SUFFICES ASSUME Init PROVE RoomsInv
  OBVIOUS
<1>1. \A c \in Procs : pc[c] = "idle" /\ result[c] = NoRoom /\ answer[c] = "none"
  BY DEF Init
<1>2. RoomsTypeOK
  BY TypeInit
<1>3. UniqueRooms
  BY RoomAssumption DEF Init, UniqueRooms
<1>4. OneWriter /\ ToldRoomsStay /\ KnownRoomsExist
  BY <1>1 DEF Init, OneWriter, ToldRoomsStay, KnownRoomsExist
<1>5. \A c \in Procs : HolderInv(c) /\ AnswerInv(c)
  BY <1>1 DEF Init, File!FileInit, HolderInv, AnswerInv
<1> QED BY <1>2, <1>3, <1>4, <1>5 DEF RoomsInv

LEMMA InvStep ==
  ASSUME RoomsInv, [Next]_vars
  PROVE  RoomsInv'
<1>1. RoomsTypeOK'
  BY TypeStep DEF RoomsInv
<1>2. \A c \in Procs : HolderInv(c)' /\ AnswerInv(c)'
  BY HolderStep, AnswerStep
<1> QED BY <1>1, <1>2, OneWriterStep, UniqueStep, ToldStep, KnownStep DEF RoomsInv

LEMMA InvHolds == Spec => []RoomsInv
<1>1. RoomsInv /\ [Next]_vars => RoomsInv'
  BY InvStep
<1> QED BY <1>1, InvInit, PTL DEF Spec

(* create_room() never stores an id or a name twice, however many           *)
(* superusers run it and whatever gaps the first file has.                  *)
THEOREM RoomsAreUnique == Spec => []UniqueRooms
<1>1. RoomsInv => UniqueRooms
  BY DEF RoomsInv
<1> QED BY <1>1, InvHolds, PTL

(* OPCODE_OK to a create request is a promise that crashes keep.            *)
THEOREM PromisedRoomsStay == Spec => []ToldRoomsStay
<1>1. RoomsInv => ToldRoomsStay
  BY DEF RoomsInv
<1> QED BY <1>1, InvHolds, PTL

(* Between a listing, is_room_exists, and is_room_exists once more, the     *)
(* room does not go away.                                                   *)
THEOREM KnownRoomsStay == Spec => []KnownRoomsExist
<1>1. RoomsInv => KnownRoomsExist
  BY DEF RoomsInv
<1> QED BY <1>1, InvHolds, PTL

(* Only a room with an empty name is stored and refused.                    *)
THEOREM OnlyTheEmptyNameIsRefused == Spec => []RefusalsAreTrue
<1>1. RoomsInv => RefusalsAreTrue
  BY DEF RoomsInv, AnswerInv, RefusalsAreTrue
<1> QED BY <1>1, InvHolds, PTL

-----------------------------------------------------------------------------
(* The refinement.  A room is entered when its record reaches the file; no  *)
(* other step touches the list.                                             *)

LEMMA EntriesOfAppend ==
  ASSUME NEW file \in Seq(StoredRoom), NEW room \in StoredRoom
  PROVE  EntriesOf(Append(file, room)) = Append(EntriesOf(file), << room.room_name, room >>)
<1> DEFINE entry == << room.room_name, room >>
           longer == Append(file, room)
<1>1. \A r \in StoredRoom : << r.room_name, r >> \in Names \X StoredRoom
  BY DEF StoredRoom
<1>2. EntriesOf(file) \in Seq(Names \X StoredRoom) /\ Len(EntriesOf(file)) = Len(file)
  <2>1. EntriesOf(file) \in [1 .. Len(file) -> Names \X StoredRoom]
    BY <1>1 DEF EntriesOf
  <2>2. Len(file) \in Nat
    OBVIOUS
  <2> QED BY <2>1, <2>2
<1>3. longer \in Seq(StoredRoom) /\ DOMAIN longer = 1 .. Len(file) + 1
  OBVIOUS
<1>4. EntriesOf(longer) = [i \in 1 .. Len(file) + 1 |-> << longer[i].room_name, longer[i] >>]
  BY <1>3 DEF EntriesOf
<1>5. Append(EntriesOf(file), entry) =
        [i \in 1 .. Len(file) + 1 |-> IF i = Len(file) + 1 THEN entry ELSE EntriesOf(file)[i]]
  BY <1>1, <1>2
<1>6. \A i \in 1 .. Len(file) + 1 :
        << longer[i].room_name, longer[i] >> =
          IF i = Len(file) + 1 THEN entry ELSE EntriesOf(file)[i]
  BY DEF EntriesOf
<1> QED BY <1>4, <1>5, <1>6

LEMMA RegisterInit == Init => RoomNames!RegInit
BY DEF Init, RoomNames!RegInit

LEMMA RegisterStep ==
  ASSUME RoomsInv, [Next]_vars
  PROVE  [RoomNames!RegNext]_(RoomNames!regVars)
<1>1. CASE UNCHANGED rooms
  BY <1>1 DEF RoomNames!regVars, EntriesOf
<1>2. ASSUME NEW c \in Procs, rooms' = Append(rooms, NewRoom(c)), ~SameName(c)
      PROVE  RoomNames!Enter
  <2> DEFINE room == NewRoom(c)
             entry == << room.room_name, room >>
  <2>1. rooms \in Seq(StoredRoom) /\ room \in StoredRoom
    BY NewRoomType DEF RoomsInv, RoomsTypeOK
  <2>2. EntriesOf(rooms') = Append(EntriesOf(rooms), entry) /\ EntriesOf(rooms)' = EntriesOf(rooms')
    BY <1>2, <2>1, EntriesOfAppend DEF EntriesOf
  <2>3. EntriesOf(rooms') # << >> /\ EntriesOf(rooms')[Len(EntriesOf(rooms'))] = entry
    <3>1. \A r \in StoredRoom : << r.room_name, r >> \in Names \X StoredRoom
      BY DEF StoredRoom
    <3>2. EntriesOf(rooms) \in Seq(Names \X StoredRoom) /\ entry \in Names \X StoredRoom
      <4>1. EntriesOf(rooms) \in [1 .. Len(rooms) -> Names \X StoredRoom] /\ Len(rooms) \in Nat
        BY <2>1, <3>1 DEF EntriesOf
      <4> QED BY <2>1, <3>1, <4>1
    <3> HIDE DEF entry
    <3> QED BY <2>2, <3>2
  <2>4. ~RoomNames!Taken(entry[1])
    <3>1. \A i \in DOMAIN rooms : rooms[i].room_name # room.room_name
      BY <1>2 DEF SameName, NewRoom, Range
    <3> QED BY <3>1 DEF RoomNames!Taken, EntriesOf
  <2> QED BY <2>2, <2>3, <2>4 DEF RoomNames!Enter
<1> QED BY <1>1, <1>2, FileStep, StoreEnters DEF RoomNames!RegNext

(* rooms.dat under any number of processes that create rooms and die is a   *)
(* register of names.                                                       *)
THEOREM RoomsAreARegister == Spec => ImplementsRegister
<1>1. RoomsInv /\ [Next]_vars => [RoomNames!RegNext]_(RoomNames!regVars)
  BY RegisterStep
<1> QED BY <1>1, RegisterInit, InvHolds, PTL DEF Spec, ImplementsRegister, RoomNames!RegSpec

=============================================================================
