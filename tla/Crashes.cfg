\* Processes die anywhere; all operations.
CONSTANTS
  alice = alice
  bob = bob
  carol = carol
  root = root
  u1 = u1
  u2 = u2
  s1 = s1
  s2 = s2
  s3 = s3
  Usernames = {alice, bob, carol, root}
  NoName = nobody
  SlotLength = 1
  IdLimit = 8
  Procs = {u1, s1}
  UserOf <- MCTwoUsers
  RoleOf <- MCRoleOf
  Rooms = {1}
  TypedRooms = {1}
  Intervals <- MCTwoIntervals
  TypedIds = {1, 2, 3}
  Ops = {"create", "approve", "reject", "force"}
  Approvable = {0, 1, 2}
  WireForms = {"blank"}
  InitFiles <- MCEmptyOrRivals
  StartTime = 0
  MaxBookings = 3
  MaxTime = 2
  MaxCrashes = 2
SPECIFICATION Spec
INVARIANTS AckedDecision AckedStored StoreInv
PROPERTIES RecordsKept
