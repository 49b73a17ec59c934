\* A user books while the superuser lists all bookings.
CONSTANTS
  alice = alice
  bob = bob
  carol = carol
  root = root
  u1 = u1
  s1 = s1
  Usernames = {alice, bob, carol, root}
  NoName = nobody
  Stars = stars
  SlotLength = 1
  IdLimit = 8
  Procs = {u1, s1}
  UserOf <- MCUserOf
  RoleOf <- MCRoleOf
  Rooms = {1}
  TypedRooms = {1}
  Intervals <- MCIntervals
  TypedIds = {1}
  Ops = {"create", "approve"}
  Approvable = {0, 1, 2}
  WireForms = {"blank"}
  InitFiles <- MCFiles
  StartTime = 0
  MaxBookings = 3
  MaxTime = 0
  MaxCrashes = 0
  Queries <- MCEveryKind
  SockCap = 2
SPECIFICATION ListSpec
INVARIANTS WellFramed
