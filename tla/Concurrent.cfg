\* Two superusers and two users, any booking decided again, ids that wrap around.
CONSTANTS
  alice = alice
  bob = bob
  carol = carol
  root = root
  u1 = u1
  u2 = u2
  s1 = s1
  s2 = s2
  s3 = s3
  Usernames = {alice, bob, carol, root}
  NoName = nobody
  SlotLength = 1
  IdLimit = 4
  Procs = {u1, u2, s1, s2}
  UserOf <- MCTwoUsers
  RoleOf <- MCRoleOf
  Rooms = {1}
  TypedRooms = {1}
  Intervals <- MCTwoIntervals
  TypedIds = {1, 2}
  Ops = {"create", "approve", "reject"}
  Approvable = {0, 1, 2}
  WireForms = {"blank"}
  InitFiles <- MCOnlyRivals
  StartTime = 0
  MaxBookings = 3
  MaxTime = 0
  MaxCrashes = 0
SPECIFICATION Spec
INVARIANTS UniqueIds WorkInv
PROPERTIES ImplementsLedger
