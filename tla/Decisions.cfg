\* One superuser who decides pending bookings only, one user with two sessions.
CONSTANTS
  alice = alice
  bob = bob
  carol = carol
  root = root
  u1 = u1
  u2 = u2
  s1 = s1
  s2 = s2
  s3 = s3
  Usernames = {alice, bob, carol, root}
  NoName = nobody
  SlotLength = 1
  IdLimit = 8
  Procs = {u1, u2, s1}
  UserOf <- MCOneUserTwice
  RoleOf <- MCRoleOf
  Rooms = {1}
  TypedRooms = {1}
  Intervals <- MCLaterIntervals
  TypedIds = {1, 2, 3}
  Ops = {"create", "approve", "reject"}
  Approvable = {0}
  WireForms = {"blank"}
  InitFiles <- MCRivalsOrChain
  StartTime = 1
  MaxBookings = 3
  MaxTime = 2
  MaxCrashes = 0
SPECIFICATION LiveSpec
INVARIANTS NoDoubleBooking SettledBookings NoSelfOverlap DecisionInv
PROPERTIES DecisionsFinal EveryRequestAnswered
