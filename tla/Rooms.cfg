\* Two superusers create rooms under colliding names, a user lists, picks and books.
CONSTANTS
  Procs = {s1, s2, u1}
  Superusers = {s1, s2}
  TypedNames = {"", "a 1", "a.1"}
  Sanitized <- MCSanitized
  NoName = ""
  TypedRooms = {1, 2}
  InitFiles <- MCInitFiles
  MaxRooms = 3
SPECIFICATION LiveSpec
INVARIANTS RoomsTypeOK UniqueRooms ToldRoomsStay KnownRoomsExist RefusalsAreTrue
PROPERTIES CreatesEnd ImplementsRegister
