\* A user and a superuser list and change the file, up to two bookings beyond those counted; bookings end.
CONSTANTS
  alice = alice
  bob = bob
  carol = carol
  root = root
  u1 = u1
  s1 = s1
  Usernames = {alice, bob, carol, root}
  NoName = nobody
  Stars = stars
  SlotLength = 1
  IdLimit = 8
  Procs = {u1, s1}
  UserOf <- MCUserOf
  RoleOf <- MCRoleOf
  Rooms = {1}
  TypedRooms = {1}
  Intervals <- MCTwoIntervals
  TypedIds = {1}
  Ops = {"create", "approve"}
  Approvable = {0}
  WireForms = {"blank"}
  InitFiles <- MCFiles
  StartTime = 1
  MaxBookings = 4
  MaxTime = 2
  MaxCrashes = 0
  Queries <- MCQueries
  SockCap = 1
SPECIFICATION ReadingSpec
INVARIANTS ListingInv ListingIsSnapshot OwnBookingsOnly
PROPERTIES EverybodyServed
