\* Three superusers whose clients send back the whole record they listed; processes die.
CONSTANTS
  alice = alice
  bob = bob
  carol = carol
  root = root
  u1 = u1
  u2 = u2
  s1 = s1
  s2 = s2
  s3 = s3
  Usernames = {alice, bob, carol, root}
  NoName = nobody
  SlotLength = 1
  IdLimit = 8
  Procs = {s1, s2, s3}
  UserOf <- MCTwoUsers
  RoleOf <- MCRoleOf
  Rooms = {1}
  TypedRooms = {1}
  Intervals <- MCOneInterval
  TypedIds = {1, 2, 3}
  Ops = {"approve", "reject"}
  Approvable = {0, 1}
  WireForms = {"full"}
  InitFiles <- MCRivalsOrChain
  StartTime = 0
  MaxBookings = 3
  MaxTime = 0
  MaxCrashes = 1
SYMMETRY MCSuperusers
SPECIFICATION Spec
INVARIANTS NoRivalsApproved
