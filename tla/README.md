# WouldstThouLikeToBook in TLA+

This directory specifies the room-booking server in `src/`: what its processes
do to the file of bookings, what they promise to their clients, and which of
those promises they keep. TLC checks the specifications on small instances;
TLAPS proves the most important statements for every instance.

## 1. The system

A TCP server (`server.c`) forks and execs one `server_child` per connection.
A child reads a header (opcode, payload size), looks the handler up in a table
(`server_utils.c`), and answers; it shares nothing with other children but
three files of fixed-size records, which they guard with `fcntl()` locks. The
client (`client.c`, `client_utils.c`) is an interactive program that sends one
request at a time and reads its answer.

| Component | State | Operations | Right when |
|---|---|---|---|
| Booking store | `bookings.dat`, a lock per process, a stdio buffer per open file | create, approve, reject, force | ids are unique; no record is lost; a slot is approved for one booking; an approval rejects its rivals; decisions stand; what was answered OK is stored |
| Booking listings | nothing of their own: two read-locked scans | mine, room, all, by username, status, time range, id; the listing that begins a creation | a listing is one state of the file; as many records as announced; a user is shown only their own bookings; a slow reader hinders nobody |
| Accounts | `users.dat`; username and role of the connection | login, sign-up, logout | names are unique; a role is only what the file gave |
| Rooms | `rooms.dat` | create, list, exists | ids and names are unique; what is stored is acknowledged |
| Session protocol | two byte streams per connection | header, payload, opcode check per role | both ends agree where a message begins |
| Server main | listening socket | accept, fork, exec | each connection has its own process |
| Client | the user it is logged in as | one handler per opcode | it reads exactly the answers to what it sent |
| Populate tool, configuration | - | sample data | - |

What is hard here: several processes at work on one file; a read under one lock
used under a later lock; approvals that rewrite many records one by one; a
process that dies between two of them; a listing counted in one state of the
file and sent in another; `send()` called while a lock is held. `PROJECT.json`
lists these hazards line by line.

## 2. Modules

| Module | Models |
|---|---|
| `BookingRecords` | the `Booking` record, the predicates of `server_utils.c` 426-452, the next id |
| `Ledger` | the abstract specification of `bookings.dat`: every operation at once |
| `BookingStore` | create, approve, reject, force as the processes execute them |
| `StoreInvariant` | the inductive invariant of `BookingStore`: locks, buffers, ids |
| `DecisionInvariant` | what a process that is going to write knows of the file, what an approval in the making has done; the discipline under which decisions stand |
| `BookingListing` | `BookingStore` composed with the listings, the sockets and the clients that read them |
| `ListingInvariant` | the inductive invariant of `BookingListing`: what each process that lists holds, was asked for, has sent |
| `Register` | the abstract specification of `users.dat` and `rooms.dat`: names, first come, first served |
| `RecordFile` | the lock and the buffer of a process that appends to one of these files |
| `Accounts` | `users.dat`: the main process, accepted connections, sign-up, login, logout, populate |
| `RoomRegister` | `rooms.dat`: create, list, and `is_room_exists` twice in the making of a booking |
| `Protocol` | opcodes, who may send them, payload sizes, the two streams of a connection |
| `SessionClient`, `SessionServer` | the sixteen dialogues of `client_utils.c`; the request loop and handlers of `server_child.c` and `server_utils.c` |
| `Session` | both ends composed, with their deaths, the loss of a host, keepalive, reconnection |
| `SessionInvariant` | the inductive invariant of `Session`: what is on its way, and what each end knows of the other |
| `MCBookingStore`, `MCBookingListing`, `MCAccounts`, `MCRoomRegister` | instances for TLC |
| `RecordTheorems`, `BookingStoreProofs`, `StoreInvariantProofs`, `DecisionProofs`, `ListingProofs`, `AccountsProofs`, `RoomRegisterProofs`, `SessionProofs` | theorems and their proofs |

**`BookingStore`.** `bookings` is the sequence of records in the file, `lock`
the `fcntl` lock each process has on it, `now` the clock. A process handles one
request at a time: `op` says which, `pc` where it is, `arg` is its `Booking`
argument, `found` the `Booking` it read or is going to return, `wbuf` the
record in its stdio buffer. Steps are cut wherever another process, or a death,
can tell the difference:

* `create_booking`: `CreateRequest` (room and time checks, before the file is
  opened), `LockWriting`, `CreateScan` (conflicts, greatest id, `fwrite`),
  `Flush` and `Unlock` (`unlock_writing_for_file`), `Reply`.
* `reject_booking`, `force_booking_status`: the same with `RejectScan`,
  `ForceScan`.
* `approve_booking`: `FindBooking` (its own read lock, taken and given back),
  `LockWriting`, then either `ApproveConflict` or `ApproveStart` and one
  `ApproveNext` per record, `ApproveEnd`, `Unlock`. A read after a buffered write
  puts the record into the file first, so each round publishes the record of
  the round before; that is what glibc does with an update stream, and the code
  relies on it (no `fflush` or `fseek` between `fwrite` and `fread`).
* `Crash`: a process dies in the middle of a request; the kernel drops its lock,
  its buffer is lost, and its client gets a new process.

A scan under a lock that writes nothing is one step: nobody can change the file
meanwhile. A `Booking` with `booking_id` 0 is what the code returns for failure.
`WireForms` says what an approve request carries: `"blank"` is the shipped client,
which fills in the id alone; `"full"` is a client that sends back the record it
was shown, as the conflict test of `approve_booking` presumes.

**`Ledger`.** `Enter`, `Approve`, `Decide` happen at once. `BookingStore` maps to it by
`LedgerOf`: the file itself, or, while an approval is being rewritten under the
write lock, the file as it will be.

**`BookingListing`** adds to each process the listing it is at (`list`: counted,
announced, lock taken, records sent), the socket to its client (`wire`, at most
`SockCap` messages) and what the client waits for. `ShouldMask` and `Matches` are
the seven listings' filters and masks, `MayAsk` who may ask for which. The lookup
of one booking by id is the eighth kind: `Lookup` finds it under a read lock,
`MayView` decides, `SendFound` sends it. Whoever picks or lists a room that does not exist
(`HasRoom`) is answered ERROR before the file is opened. A record read where a header is due makes
the client's stream noise until it is started anew (`Restart`), whereupon its process
dies where it sends, and its lock goes with it. `Overflows` is a process with more records
than it announced, in `send()` on a full socket whose client has read all it was told of.

**`Accounts`.** `users` is the sequence of records in the file; `session` the user each
child acts for; the main process is one more process, which signs the administrator
up before it accepts. `SignupScan` is `signup` from the lock to the `fwrite`,
`SignupStore` is `unlock_writing_for_file`; `Login` is one read-locked scan. What is
typed is sanitized by the client and once more by the server, and names are compared
after that. `Crash` kills any process, the main process included, whose children live
on; `Populate` replaces the file while nothing runs. `open` of the abstract
`Register` is that something runs.

**`RoomRegister`.** `CreateScan` and `CreateStore` are cut like a sign-up. `CreateAnswer`
tells a success by the name that comes back, as `handle_create_room` does, so a
room with an empty name is stored and refused. `PickRoom` and `BookRoom` are the two
`is_room_exists` of `handle_create_booking`, between which other processes run.

**`Session`.** The streams `up` and `down` are sequences of pieces: a header, one
struct of a payload, or what is left of a struct whose first bytes were read as something
else (`Torn`). `Read` takes as many bytes as its reader asks for, whatever lies there. A
request of the client is the dialogue of its handler, whose checks of the response header
(`Fails`, `Accepts`) differ as the handlers' do; the server's outcome (`Fail`, `Announce`)
is a choice, since it depends on the files, which the other modules model. A record that
was not announced (`SendSurplus`, the hazard that `BookingListing` shows to be real) is read
as a header where the next one is due: its id is taken for the opcode, its room for the
size (`Looks`). The client's handler then rejects it and exits, or takes it for
an answer, done or failed, and goes on. From there on it is `astray`, and what it reads, tells its
user and sends follows from the bytes that it finds. If it now asks for what its user may not
do, the server refuses, leaves the payload in the stream and reads it as headers (`Commands`).
`Cut` loses what was in flight when an end dies. A process whose client's host is lost reads
nothing until keepalive ends the connection.

## 3. Runs

Time is counted in slots, rooms are one (bookings of different rooms never
meet: every predicate asks for the same room first), ids are bounded by
`IdLimit`, requests to create stop at `MaxBookings` records, the clock at
`MaxTime`, deaths at `MaxCrashes`.

| Run | Instance | Shows |
|---|---|---|
| `decisions` | one user twice, one superuser who approves and rejects pending bookings | `NoDoubleBooking`, `SettledBookings`, `NoSelfOverlap`, `DecisionsFinal`, `DecisionInv`, `EveryRequestAnswered` |
| `concurrent` | two users, two superusers, ids modulo 4 | `UniqueIds`, `WorkInv`, `ImplementsLedger` |
| `crashes` | a user, a superuser, all operations, two deaths | `AckedStored`, `AckedDecision`, `RecordsKept`, `StoreInv` |
| `full_payload` | three superusers, full payloads, a death | `NoRivalsApproved` |
| `listing` | a user who asks for every kind of listing and lookup, a superuser for all bookings, clients that read, the file changes, bookings end, up to two are created behind a count | `ListingInv`, `ListingIsSnapshot`, `OwnBookingsOnly`, `EverybodyServed` |
| `accounts` | two connections and the main process, names that collide once sanitized, deaths and restarts, populate | `AccountsTypeOK`, `UniqueNames`, `SessionIsRecorded`, `ToldAccountsStay`, `AdministratorExists`, `AttemptsEnd`, `ImplementsRegister` |
| `rooms` | two superusers and a user, names that collide, an empty name, a first file with gaps, deaths | `RoomsTypeOK`, `UniqueRooms`, `ToldRoomsStay`, `KnownRoomsExist`, `RefusalsAreTrue`, `CreatesEnd`, `ImplementsRegister` |
| `session` | one connection, all operations, all user types, faults at both ends, a client astray | `SessionInv`, `Agreement`, `NeverRefused`, `RequestsAligned`, `AnswersAligned`, `ReportsAreTrue`, `RequestsEnd`, `ProcessesEnd` |

The bounds are chosen for the interesting cases: two or three bookings of which
one overlaps two others are enough for every branch of the approval loop
(approved, rival before it, rival after it, bystander), and `decisions` also starts
from a chain of three of which the middle one competes with both others; `crashes`
starts from an empty file as well; two processes per role
for every race on the lock, which only ever has one writer; two deaths for a death
during the repair of what the first left; ids modulo 4 for a wrap-around.
Where nobody dies it takes three superusers (`full_payload`) for two copies of a booking to be
approved: one who approves its rival, one whose conflict branch puts a copy in the
rival's place, and one who found it pending before.
A socket of one message (`listing`) fills up, and empties, in the
middle of a listing; a step of the clock lets a booking end between the count and
the sending, so that the process finds fewer records than it announced and exits
(`ExitShort`). The runs of `BookingListing` have no other deaths than those of `Restart` and
`ExitShort`; those of a process in the middle of an operation are `BookingStore`'s.
`listing` lets two bookings be created between a count and the sending, one more than the
socket holds. Then (`server_utils.c:664`) a process waits in `send()` with the read lock for a client
that has read all it was told of and waits for nothing, and writers wait with it
until that client asks again or goes. A real socket holds thousands of bookings, so that this
takes as many creations in one listing; `EverybodyServed` names it as its one exception.
An interval that ends as it starts stands for a slot count whose
product with 3600 wraps around in the client's `int`.

`accounts` and `rooms` have no bound on deaths. Two connections are every race for one
name, with the main process as a third writer; two spellings of a name, and the
administrator's, are every collision; `users.dat` cannot grow beyond the names, so it needs
no bound. `rooms` starts from an empty file or from one whose greatest id
comes first and leaves a gap, and stops creating at `MaxRooms` records. In `session` lists
have up to two records and one may come unannounced: enough for "none", "one", "more to
come", and for a record read where a header is due; the streams are as long as the
dialogues make them. A surplus record has any id, and as its room one of `RoomIds`: the
sizes of a user and of one or two rooms or bookings, and one that is no size. The user of a client
astray asks for more when at most `MaxUnread` pieces are unread and the server waits
(`AsksInTime`): without that the streams grow for ever. What begins with zeros announces
nothing, so `Commands` has no sizes but 0.

Four runs expect a violation. Each shows a promise of the repository that the code
does not keep (`findings` in `PROJECT.json` quotes it):

* `re_approval`: `approve_booking` never asks whether the booking is pending, so
  a rejected booking can be approved (comment at `server_utils.c:829`).
* `race`: the booking is read before the write lock and written, approved, under
  it; two superusers who approve two rivals at once both succeed. With the shipped
  client's blank payload the conflict test compares a booking of no length.
* `framing`: a booking created between the count and the sending is sent on
  top of the announced payload size.
* `stalled_client`: a client that stops reading holds up all writers.

Hence the conditions of the passing runs: `NoDoubleBooking`, `SettledBookings` and
`DecisionsFinal` hold with one superuser at a time who approves only what is
pending (`Approvable`) and nobody dying in an approval. `ImplementsLedger` needs
neither, because the ledger's `Approve` does not ask for a status either; it needs
blank payloads.

Four more consequences of the code deserve a word:

* In the conflict branch of `approve_booking` (`server_utils.c` 839-846) the record that
  is overwritten is the conflicting one, the last that was read. It is replaced by a
  rejected copy of the booking that was to be approved, so a record is lost and an id is
  there twice. Only a full payload gets there; `RecordsKept` and `UniqueIds` are
  therefore stated for blank payloads. Full payloads do not free superusers from
  taking turns: s1 and s3 both find B pending, s2 approves its rival A, s1 meets A and
  overwrites it with a rejected B, s3 then finds nothing that conflicts and approves both
  copies of B, which overlap. A death in a rewrite does the same. What is left is
  `NoRivalsApproved`: approved bookings that overlap are copies of one booking. It is
  checked where only what is pending or approved is approved, and nobody books
  meanwhile: a rejected booking conflicts with nothing, and the id of an overwritten
  record may be given to a new one.
* A death in the rewriting loop (`server_utils.c:851`) leaves the approved booking
  beside rivals that are still pending, and nothing repairs that later.
  `SettledBookings` is therefore stated where no process dies.
* A room whose name is empty is stored, and its superuser is told "Create room failed"
  (`server_utils.c:392`, `client_utils.c:248`). `RefusalsAreTrue` says that this is the
  only such refusal.
* An empty list by status or by time range is printed as a failure by the client
  (`client_utils.c:840`, `887`). `ReportsAreTrue` says that nothing else is misreported until
  the client takes part of an unannounced record for an answer. After that anything may be:
  the handler of FORCE takes a record with id 201 for an ERROR of any size
  (`client_utils.c:947-950`) and reports a failure for a status that was stored. A
  listing takes id 200 and the room of a suitable size for the header of a list, and reads
  on in the middle of a record.

**Fairness.** Every process is scheduled (weak fairness of its own steps). A process
that waits in `F_SETLKW` is granted a lock that becomes free again and again
(strong fairness): the kernel wakes all waiters at an unlock, and a model in which
one loses every race forever would refute any lock. A process is at one step at a
time, so one condition of each kind per process says this of all its steps; `Accounts` and
`RoomRegister` state it step by step. No client is ever assumed to
send a request, nobody to connect, no server to be started. `ReadingSpec` assumes in
addition that clients read what they asked for, which the shipped client does;
`StallingSpec` does not. In `Session` the client goes on by itself only in the middle of a
request, what was sent arrives, and so does the end of a stream whose sender has gone; for
a lost host that is what `SO_KEEPALIVE` provides (`server.c` 65-78).

## 4. Theorems

`RecordTheorems` proves what the scans return: the first matching index, a greatest
id above all others, a next id that is new unless it is 0.

`BookingStoreProofs!TypeCorrect` proves `Spec => []TypeOK` with no hypothesis but the
constants' assumptions: `TypeOK` is inductive, one lemma per group of actions.

`AccountsProofs`, `RoomRegisterProofs`, `ListingProofs` and `SessionProofs` have
the like for their module.

`StoreInvariantProofs` proves, for any number of processes, requests and deaths:

* `MutualExclusion`: `lock[c]` is the write lock exactly between `LockWriting` and
  `Unlock`, and one process at most is there.
* `InvariantHolds`: `Spec => []StoreInv`, from which `IdsAreUnique` (`UniqueIds`),
  `AcknowledgedIsStored` (`AckedStored`) and `RecordsAreKept` (`RecordsKept`).

None of the three is inductive alone. That an overwrite keeps a record needs that
what is buffered is still about the record at its position (`BufferInv`), which
needs that nobody else writes meanwhile (`LockInv`). That an approval
overwrites the right record needs that its target, read before the lock, still is in
the file under the same id (`ApprovalInv`, `FoundInv`), and only unique ids make
the record with that id the target's. That ids are unique needs that no record is
turned into another's. `StoreInv` is the conjunction; `ProcessStep` reduces a step to
what it does to the process that takes it, and `WrittenKept` to what its buffer does
to the file. TLC checks `StoreInv` in the run `crashes`.

`AccountsProofs` and `RoomRegisterProofs` prove every safety property of their
module, for any number of processes, any names, any deaths:

* `AccountsInv` is inductive: one process at most is between scan and flush
  (`OneWriter`), what it found out about the name still holds (`HolderInv`), a child
  answers OK only with an account that its client's credentials open (`ChildInv`), and
  the administrator's name is in the file before anybody is accepted (`AdminInv`).
  `UsersKept` says what each step but populate does to the file. `NamesAreUnique`,
  `SessionsAreRecorded`, `PromisedAccountsStay` and `AdministratorIsThere` are parts of it;
  `AccountsAreARegister` maps each step to one of `Register` or to none.
* `RoomsInv` is of the same make. That ids are unique needs that the id computed in the
  scan is above all others, whatever gaps the file has: `GreatestIdBounds`, which rests on
  `GreatestOfFinite`, a finite set of naturals has a greatest element. `RoomsAreUnique`,
  `PromisedRoomsStay`, `KnownRoomsStay`, `OnlyTheEmptyNameIsRefused` and
  `RoomsAreARegister` follow.

Both use only their module's assumption on its constants: what is sanitized twice is
sanitized, populate writes each name once and not the administrator's, the rooms a server
starts with have distinct ids and names.

`DecisionProofs` is about what the store decides:

* `WorkIsKnown`: `WorkInv` holds in every state. Its parts are one per kind of work.
  What `create_booking` is going to append is free of conflicts and its id is new
  (`CreateInv`); what reject and force are going to write is the record that is
  there with another status (`UpdateInv`); an approval has decided all records
  before its position, the buffered one included, and what it found among them is
  the approved booking (`RewriteInv`); a request has found nothing before it looks
  (`LookInv`); what the only superuser was told is in the file (`ToldInv`);
  requests come from those who may make them (`RoleInv`). `DecisionIsStored`
  (`AckedDecision`) is a consequence.
* `StoreIsALedger`: every step of the processes is one of `Ledger` on `LedgerOf` or
  leaves it as it is, so `Spec` implements `ImplementsLedger`. An approval takes
  place where it starts to rewrite, a creation, rejection or force where the buffer
  is written; that each record the loop writes is the one the ledger already has is
  `RewriteInv`. The hypothesis `[][NobodyDiesApproving]_vars` leaves out a death in the
  rewriting loop, and only that: such an approval is half done and no `Approve`.
* `DecisionsAreFinal` (`DecisionsFinal`) and `NoSlotTwice` (`NoSelfOverlap`) under
  `Discipline`: nobody forces, one superuser decides at a time and approves only what
  is pending. The loop would overwrite a decided record if its target were not
  pending any more; `PendingIsApproved` says that it still is when the loop
  starts, and is not rejected until the loop has met it. Deaths are allowed anywhere.
* `NoRoomTwice` (`NoDoubleBooking`) and `RivalsAreRejected` (`SettledBookings`) need
  both hypotheses. Neither is inductive in the middle of an approval, when rivals
  behind the position are as yet pending; `LedgerStaysSettled` proves instead that
  `LedgerOf` is settled (`Settled`), using the refinement, and reads off what this says
  of the file, record by record, before and behind the position. `DecisionsHold` puts it
  all together in one inductive invariant, `DecisionInv`.

`NoSlotTwice`, `NoRoomTwice` and `RivalsAreRejected` ask of the first file what they prove of
all later ones (`NoSelfOverlap`, or `NoDoubleBooking /\ SettledBookings`, on the left of
`=>`): a file left by an earlier run of the server is what it is. The empty file has it all.

`ListingProofs` proves `ListingHolds`, for any number of processes, listings and clients,
any socket size, with no hypothesis. That a listing is a snapshot needs that nobody
writes while it streams (`HoldsInv`: a lock is a read lock exactly in a stream, and nobody
holds any beside a writer). That a user is shown only their own needs to be known at each
place from the request to the socket: what is asked for may be (`AskedInv`), what
was sent is the masked record (`SentInv`), what is in the socket its reader may see
(`WireInv`). `ListTypeCorrect`, `ListingsAreSnapshots` and `UsersSeeTheirOwn` follow.

`SessionProofs` proves `KeepsStep`, for lists of any length (`MaxRecords`), any number of
surplus records (`MaxSurplus`), any cuts and reconnections, from the
constants' assumption alone, that `SessionInv` holds until the client is astray. `GoesAstray`
shows that nothing but a surplus record leads there; from then on only the types (`Shapes`) and
that there was a surplus are left; four of the five properties below say `~astray`, and
`AnswersAligned`, which asks for no surplus, implies it. Agreement and alignment say nothing of what is in
the streams behind their heads, so none is inductive. `SessionInv` says, for each place of
the server, what is left in its stream even if the client has gone (`UpInv`: a
request and perhaps its payload, a cancellation with a request behind it); for each place of
the client what it finds even if the server has gone (`DownInv`); and, while both
are up, where the one may be while the other is here, and how many records are still due
(`BothInv`, `Balance`). The three parts are apart because a `Cut` takes away the third alone.
Surplus records (`Stale`) are what `DownInv` has to admit. The sixteen handlers and dialogues are not proved one by one: `ServerOps` and
`ClientOps` show that each has the form `Serves(op)` or `Converses(op)`, and the step lemmas are
about these. `EndsAgree`, `ClientNeverRefused`, `ServerKeepsPlace`, `ClientKeepsPlace`,
`ClientTellsTheTruth` and the types are consequences.

The hypothesis `WireForms \subseteq {"blank"}` of the booking theorems is what the shipped
client sends. The theorems of `StoreInvariantProofs` other than `MutualExclusion`, and those of
`DecisionProofs`, fail without it, for the reason given at the end of section 3.

Each inductive invariant is an invariant of a run too: `StoreInv` of `crashes`, `WorkInv` of
`concurrent`, `DecisionInv` of `decisions` (with `SettledLedger`), `ListingInv` of `listing`,
`SessionInv` of `session`. The type invariants `TypeOK`, `ListTypeOK` and `SessionTypeOK` follow from
`StoreInv`, `ListingInv` and `SessionInv`, and are not checked beside them.

Model-checked only: `NoRivalsApproved` (the run `full_payload`), and liveness:
`EveryRequestAnswered`, `EverybodyServed`, `AttemptsEnd`, `CreatesEnd`, `RequestsEnd` and
`ProcessesEnd` rest on fairness and `ENABLED`, which the provers do not reach. Nothing is
proved by induction over data: where the code's loop is an induction (the approval), the
position in the file is part of the invariant.

## 5. Not modelled

* The bytes of messages. The streams of `Session` are cut where the code reads and writes;
  `read_exact` and `send_all` are one step per struct, and byte order is not taken apart (the
  status of a listing by status is sent in host order, `server_utils.c:1083`). Where one thing
  is read as another, the number of bytes is right and their content is one of those
  that `Looks` and `Commands` list.
* How `sanitize_string` rewrites a string: only that doing it twice is doing it once, and that
  different spellings may become one name.
* The modules of the three files are not composed with each other: a handler uses one
  file at a time and never holds two locks. The role and name of a process are constants
  in `BookingStore`, the room ids there a set; `Accounts` shows where a role comes from, and
  `RoomRegister` that rooms never go away.
* A process that is killed from outside in the middle of a listing: to the file that is the
  end of a read lock, to its client the end of a stream, which `Session` has.
* Failures of `fopen`, `malloc`, `fork` and of `fcntl` itself; a full disk; a write torn in
  the middle of a record (records are far smaller than a page, and one `write(2)` each).
* populate or `make clean-data` beside a running server (`README.md:110` has them run
  before it).
* Prompts, dates, printing and parsing of what is typed; `configuration.h` and the build.

## 6. Plan

1. *Done:* all components: `BookingRecords`, `Ledger`, `BookingStore`, `BookingListing`,
   `Register`, `RecordFile`, `Accounts`, `RoomRegister`, `Protocol`, `SessionClient`,
   `SessionServer`, `Session`.
2. *Done:* an inductive invariant of each module with processes; from these, every safety
   property that the runs check, for every value of the constants.
3. *Done:* refinement: `BookingStore` of `Ledger`, `Accounts` and `RoomRegister` of `Register`.
4. *Done:* listings and session: snapshots, privacy, agreement and alignment.
5. *Open:* a proof of `NoRivalsApproved`. With full payloads ids do not stay unique, so it takes an
   invariant of its own, about records by position instead of by id: which position was
   overwritten by a copy of which booking, and who still holds what was there.
