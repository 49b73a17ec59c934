------------------------------ MODULE Accounts ------------------------------
(***************************************************************************)
(* users.dat and who each connection acts for.  The main process enters    *)
(* the administrator before it listens, forks one child per connection,    *)
(* and may be stopped and started again while children of its earlier life *)
(* still serve.  A child lets its client sign up, log in and log out.      *)
(***************************************************************************)
EXTENDS Naturals, Sequences, Functions

CONSTANTS
  Conns,        \* connections; each child process has the name of its own
  Main,         \* the main process
  Typed,        \* the credentials users may type
  Sanitized,    \* what sanitize_string makes of a name or a password
  Short,        \* the names and passwords too short to sign up with
  Admin,        \* the administrator's credentials
  Guest,        \* the name of a connection that is not logged in
  Populated     \* the accounts that populate writes

Words == DOMAIN Sanitized
Credentials == [username : Words, password : Words]
UserSave == [username : Words, password : Words, user_type : {"USER", "SUPERUSER"}]

ASSUME AccountsAssumption ==
  /\ Main \notin Conns
  /\ Typed \subseteq Credentials /\ Admin \in Credentials
  /\ Sanitized \in [Words -> Words]
  /\ \A w \in Words : Sanitized[Sanitized[w]] = Sanitized[w]
  /\ Guest \in Words /\ Short \subseteq Words
  /\ Populated \in Seq(UserSave)
  /\ \A i, j \in DOMAIN Populated :
       Populated[i].username = Populated[j].username => i = j
  /\ \A i \in DOMAIN Populated : Populated[i].username # Admin.username

Holders == Conns \cup {Main}

VARIABLES
  users,      \* the records of users.dat
  lock, buf,  \* see RecordFile
  pc,         \* where each process is; "none": it does not exist
  arg,        \* the credentials it was last given
  result,     \* the User that login or signup returns
  session,    \* the User each child acts for
  told        \* credentials that some client was told are valid (history)

vars == <<users, lock, buf, pc, arg, result, session, told>>

File == INSTANCE RecordFile WITH file <- users

User == [username : Words, user_type : {"GUEST", "USER", "SUPERUSER"}]
NoUser == [username |-> Guest, user_type |-> "GUEST"]
NoCredentials == [username |-> Guest, password |-> Guest]

(* Faulty variant: the record of the file is handed out, password and all.  *)
WholeRecord(account) == account

UserOf(account) == [username |-> account.username, user_type |-> account.user_type]

(* make clean-data, or the first start: no file, and nothing is running.    *)
Init ==
  /\ users = << >>
  /\ File!FileInit
  /\ pc = [h \in Holders |-> "none"]
  /\ arg = [h \in Holders |-> NoCredentials]
  /\ result = [h \in Holders |-> NoUser]
  /\ session = [h \in Holders |-> NoUser]
  /\ told = {}

Running(h) == pc[h] # "none"
Goto(h, next) == pc' = [pc EXCEPT ![h] = next]

-----------------------------------------------------------------------------
(* The main process.                                                        *)

(* Faulty variant: listens without entering the administrator.              *)
StartListening ==
  /\ ~Running(Main)
  /\ Goto(Main, "serve")
  /\ UNCHANGED <<users, lock, buf, arg, result, session, told>>

(* initialize_server signs the administrator up, whatever comes of it.      *)
Start ==
  /\ ~Running(Main)
  /\ Goto(Main, "signup")
  /\ arg' = [arg EXCEPT ![Main] = Admin]
  /\ UNCHANGED <<users, lock, buf, result, session, told>>

Listen ==
  /\ pc[Main] = "answer"
  /\ Goto(Main, "serve")
  /\ UNCHANGED <<users, lock, buf, arg, result, session, told>>

(* accept(), fork(), and execl() of server_child, which begins as a guest.  *)
Accept(c) ==
  /\ pc[Main] = "serve" /\ ~Running(c)
  /\ Goto(c, "idle")
  /\ session' = [session EXCEPT ![c] = NoUser]
  /\ UNCHANGED <<users, lock, buf, arg, result, told>>

-----------------------------------------------------------------------------
(* Requests.  Both ends sanitize what was typed.                            *)

sanitize_credentials(credentials) ==
  [username |-> Sanitized[credentials.username],
   password |-> Sanitized[credentials.password]]

TooShort(credentials) == credentials.username \in Short \/ credentials.password \in Short

Request(c, op) ==
  /\ pc[c] = "idle" /\ session[c].user_type = "GUEST"
  /\ \E typed \in Typed :
       LET sent == sanitize_credentials(typed)
           credentials == sanitize_credentials(sent)
       IN  /\ arg' = [arg EXCEPT ![c] = credentials]
           /\ Goto(c, IF op = "signup" /\ TooShort(credentials) THEN "answer" ELSE op)
  /\ result' = [result EXCEPT ![c] = NoUser]
  /\ UNCHANGED <<users, lock, buf, session, told>>

LoginRequest(c) == Request(c, "login")
SignupRequest(c) == Request(c, "signup")

Logout(c) ==
  /\ pc[c] = "idle" /\ session[c].user_type # "GUEST"
  /\ session' = [session EXCEPT ![c] = NoUser]
  /\ UNCHANGED <<users, lock, buf, pc, arg, result, told>>

(* The client closes the connection, and the process reads its end.         *)
Leave(c) ==
  /\ pc[c] = "idle"
  /\ Goto(c, "none")
  /\ arg' = [arg EXCEPT ![c] = NoCredentials]
  /\ result' = [result EXCEPT ![c] = NoUser]
  /\ session' = [session EXCEPT ![c] = NoUser]
  /\ UNCHANGED <<users, lock, buf, told>>

-----------------------------------------------------------------------------
(* login: the first record with that name decides.                          *)

IsFirst(i, name) ==
  /\ users[i].username = name
  /\ \A j \in DOMAIN users : users[j].username = name => i <= j

(* Faulty variant: the password is not compared.                            *)
AnyPassword(i, credentials) == IsFirst(i, credentials.username)

Admits(i, credentials) ==
  IsFirst(i, credentials.username) /\ users[i].password = credentials.password

Login(c) ==
  /\ pc[c] = "login"
  /\ File!LockIsFree(c)
  /\ \/ \E i \in DOMAIN users :
          /\ Admits(i, arg[c])
          /\ result' = [result EXCEPT ![c] = UserOf(users[i])]
     \/ /\ \A i \in DOMAIN users : ~Admits(i, arg[c])
        /\ UNCHANGED result
  /\ Goto(c, "answer")
  /\ UNCHANGED <<users, lock, buf, arg, session, told>>

-----------------------------------------------------------------------------
(* signup, which the main process calls for the administrator.              *)

NewAccount(h) ==
  [username |-> arg[h].username, password |-> arg[h].password,
   user_type |-> IF h = Main THEN "SUPERUSER" ELSE "USER"]

NameTaken(name) == \E i \in DOMAIN users : users[i].username = name

SignupScan(h) ==
  /\ pc[h] = "signup"
  /\ \/ /\ NameTaken(arg[h].username)
        /\ File!LockAndScan(h, << >>)
        /\ UNCHANGED result
     \/ /\ ~NameTaken(arg[h].username)
        /\ File!LockAndScan(h, << NewAccount(h) >>)
        /\ result' = [result EXCEPT ![h] = UserOf(NewAccount(h))]
  /\ Goto(h, "store")
  /\ UNCHANGED <<arg, session, told>>

SignupStore(h) ==
  /\ pc[h] = "store"
  /\ File!FlushAndUnlock(h)
  /\ Goto(h, "answer")
  /\ UNCHANGED <<arg, result, session, told>>

(* OPCODE_OK with the User, whom the child acts for from now on, or ERROR.  *)
Answer(c) ==
  /\ pc[c] = "answer"
  /\ \/ /\ result[c] # NoUser
        /\ session' = [session EXCEPT ![c] = result[c]]
        /\ told' = told \cup {arg[c]}
     \/ /\ result[c] = NoUser
        /\ UNCHANGED <<session, told>>
  /\ Goto(c, "idle")
  /\ UNCHANGED <<users, lock, buf, arg, result>>

-----------------------------------------------------------------------------
(* A process is killed: a child, or the main process alone.                 *)
Crash(h) ==
  /\ Running(h)
  /\ File!Die(h)
  /\ Goto(h, "none")
  /\ arg' = [arg EXCEPT ![h] = NoCredentials]
  /\ result' = [result EXCEPT ![h] = NoUser]
  /\ session' = [session EXCEPT ![h] = NoUser]
  /\ UNCHANGED told

(* populate "RESETS ALL DATA", and is run before the server is started.     *)
Populate ==
  /\ \A h \in Holders : ~Running(h)
  /\ users' = Populated
  /\ told' = {}
  /\ UNCHANGED <<lock, buf, pc, arg, result, session>>

ChildStep(c) == Login(c) \/ SignupScan(c) \/ SignupStore(c) \/ Answer(c)
MainStep == SignupScan(Main) \/ SignupStore(Main) \/ Listen

Next ==
  \/ Start \/ MainStep \/ Crash(Main) \/ Populate
  \/ \E c \in Conns :
       \/ Accept(c) \/ LoginRequest(c) \/ SignupRequest(c) \/ Logout(c) \/ Leave(c)
       \/ ChildStep(c) \/ Crash(c)

Spec == Init /\ [][Next]_vars

(* Processes run (WF); one that waits for a lock that becomes free again    *)
(* and again gets it (SF).  Nobody need ever connect or type anything.      *)
LiveSpec ==
  /\ Spec
  /\ WF_vars(SignupStore(Main)) /\ WF_vars(Listen) /\ SF_vars(SignupScan(Main))
  /\ \A c \in Conns :
       /\ WF_vars(SignupStore(c)) /\ WF_vars(Answer(c))
       /\ SF_vars(SignupScan(c)) /\ SF_vars(Login(c))

-----------------------------------------------------------------------------
(* Properties.                                                              *)

Places == {"none", "idle", "login", "signup", "store", "answer", "serve"}

(* Types of the file, of what each process holds and of what was answered.  *)
AccountsTypeOK ==
  /\ users \in Seq(UserSave)
  /\ lock \in [Holders -> {"none", "write"}]
  /\ buf \in [Holders -> Seq(UserSave)]
  /\ pc \in [Holders -> Places]
  /\ arg \in [Holders -> Credentials]
  /\ result \in [Holders -> User]
  /\ session \in [Holders -> User]
  /\ told \subseteq Credentials

(* Two accounts never have one name, however many clients sign up with it   *)
(* at once, and however differently they spell it.                          *)
UniqueNames ==
  \A i, j \in DOMAIN users : users[i].username = users[j].username => i = j

(* Nobody acts in a role that users.dat does not give to the name and the   *)
(* password they have typed.                                                *)
SessionIsRecorded ==
  \A c \in Conns : session[c].user_type # "GUEST" =>
    [username |-> session[c].username, password |-> arg[c].password,
     user_type |-> session[c].user_type] \in Range(users)

(* What a client was told is their account is in users.dat, and lets them   *)
(* in again, whatever processes have died since.                            *)
ToldAccountsStay ==
  \A credentials \in told : \E i \in DOMAIN users : Admits(i, credentials)

(* As long as anybody is served, also by children of an earlier server, the *)
(* administrator's account is there, and is a superuser's.                  *)
AdministratorExists ==
  (\E c \in Conns : Running(c)) =>
    \E account \in Range(users) :
      account.username = Admin.username /\ account.user_type = "SUPERUSER"

(* Every attempt to log in or to sign up, and every start of the server,    *)
(* comes to an end.                                                         *)
AttemptsEnd ==
  \A h \in Holders :
    pc[h] \in {"login", "signup", "store", "answer"} ~> pc[h] \in {"none", "idle", "serve"}

(* Whatever the processes do, users.dat is a register of names: first come, *)
(* first served, nothing lost, nothing changed.                             *)
EntriesOf(file) == [i \in DOMAIN file |-> <<file[i].username, file[i]>>]

Names == INSTANCE Register WITH
  entries <- EntriesOf(users), open <- \E h \in Holders : Running(h),
  FirstEntries <- {<< >>, EntriesOf(Populated)}

ImplementsRegister == Names!RegSpec

=============================================================================
