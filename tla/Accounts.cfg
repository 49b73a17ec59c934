\* Two clients log in and sign up with names that collide; the server is restarted.
CONSTANTS
  Conns = {c1, c2}
  Main = main
  Typed <- MCTyped
  Sanitized <- MCSanitized
  Short = {"anna"}
  Admin <- MCAdmin
  Guest = "guest"
  Populated <- MCPopulated
SPECIFICATION LiveSpec
INVARIANTS AccountsTypeOK UniqueNames SessionIsRecorded ToldAccountsStay AdministratorExists
PROPERTIES AttemptsEnd ImplementsRegister
