--------------------------- MODULE AccountsProofs ---------------------------
(***************************************************************************)
(* users.dat for any number of connections, any credentials and any        *)
(* crashes: names are unique, sessions are those of recorded accounts,     *)
(* whoever was told of an account keeps it, there is an administrator, and *)
(* the file implements Register.                                           *)
(***************************************************************************)
EXTENDS Accounts, SequenceTheorems, TLAPS

-----------------------------------------------------------------------------
(* The inductive invariant.                                                 *)

OneWriter == \A h, d \in Holders : pc[h] = "store" /\ pc[d] = "store" => h = d

(* A process holds the lock, and has a record in its buffer, only between   *)
(* its scan and its flush; what it found out about the name still holds.    *)
HolderInv(h) ==
  /\ lock[h] = "write" <=> pc[h] = "store"
  /\ pc[h] = "none" => session[h] = NoUser
  /\ pc[h] # "store" => buf[h] = << >>
  /\ pc[h] = "store" =>
       \/ buf[h] = << >> /\ NameTaken(arg[h].username)
       \/ buf[h] = << NewAccount(h) >> /\ ~NameTaken(arg[h].username)

(* A child answers OK only with the account that its client's credentials   *)
(* open.                                                                    *)
ChildInv(c) ==
  /\ pc[c] \in {"login", "signup"} => result[c] = NoUser
  /\ pc[c] = "store" => result[c] = IF buf[c] = << >> THEN NoUser ELSE UserOf(NewAccount(c))
  /\ pc[c] = "answer" /\ result[c] # NoUser =>
       \E i \in DOMAIN users : Admits(i, arg[c]) /\ result[c] = UserOf(users[i])

(* The administrator's name is given away before anybody can ask for it.    *)
AdminInv ==
  /\ pc[Main] \in {"none", "signup", "store", "answer", "serve"}
  /\ pc[Main] \in {"signup", "store"} => arg[Main] = Admin
  /\ pc[Main] \in {"answer", "serve"} \/ (\E c \in Conns : Running(c)) =>
       NameTaken(Admin.username)
  /\ \A i \in DOMAIN users :
       users[i].username = Admin.username => users[i].user_type = "SUPERUSER"

AccountsInv ==
  /\ AccountsTypeOK /\ OneWriter /\ AdminInv
  /\ UniqueNames /\ SessionIsRecorded /\ ToldAccountsStay
  /\ \A h \in Holders : HolderInv(h)
  /\ \A c \in Conns : ChildInv(c)

-----------------------------------------------------------------------------
(* Types.                                                                   *)

LEMMA ConstantTypes ==
  /\ Admin \in Credentials /\ Guest \in Words /\ Main \notin Conns
  /\ NoUser \in User /\ NoCredentials \in Credentials
  /\ \A credentials \in Typed :
       sanitize_credentials(sanitize_credentials(credentials)) \in Credentials
  /\ \A account \in UserSave : UserOf(account) \in User
BY AccountsAssumption DEF Credentials, NoUser, User, NoCredentials, sanitize_credentials,
   UserSave, UserOf

LEMMA NewAccountType ==
  ASSUME NEW h \in Holders, arg[h] \in Credentials
  PROVE  NewAccount(h) \in UserSave
BY DEF NewAccount, Credentials, UserSave

LEMMA TypeInit == Init => AccountsTypeOK
BY ConstantTypes DEF Init, AccountsTypeOK, File!FileInit, Places

LEMMA TypeStep ==
  ASSUME AccountsTypeOK, [Next]_vars
  PROVE  AccountsTypeOK'
<1> USE DEF AccountsTypeOK
<1>1. CASE UNCHANGED vars
  BY <1>1 DEF vars
<1>2. CASE Start \/ Listen
  BY <1>2, ConstantTypes DEF Start, Listen, Goto, Places, Holders
<1>3. CASE Populate
  BY <1>3, AccountsAssumption DEF Populate
<1>4. ASSUME NEW h \in Holders, SignupScan(h) PROVE AccountsTypeOK'
  <2>1. NewAccount(h) \in UserSave /\ UserOf(NewAccount(h)) \in User
    BY NewAccountType, ConstantTypes
  <2>2. << NewAccount(h) >> \in Seq(UserSave) /\ << >> \in Seq(UserSave)
    BY <2>1
  <2>3. buf' \in [Holders -> Seq(UserSave)] /\ lock' \in [Holders -> {"none", "write"}]
    BY <1>4, <2>2 DEF SignupScan, File!LockAndScan
  <2>4. result' \in [Holders -> User]
    BY <1>4, <2>1 DEF SignupScan
  <2> QED BY <1>4, <2>3, <2>4 DEF SignupScan, File!LockAndScan, Goto, Places
<1>5. ASSUME NEW h \in Holders, SignupStore(h) PROVE AccountsTypeOK'
  <2>1. users \o buf[h] \in Seq(UserSave)
    BY ConcatProperties
  <2> QED BY <1>5, <2>1 DEF SignupStore, File!FlushAndUnlock, Goto, Places
<1>6. ASSUME NEW h \in Holders, Crash(h) PROVE AccountsTypeOK'
  BY <1>6, ConstantTypes DEF Crash, File!Die, Goto, Places
<1>7. ASSUME NEW c \in Conns, Accept(c) \/ Logout(c) \/ Leave(c) PROVE AccountsTypeOK'
  <2>1. CASE Accept(c)
    BY <2>1, ConstantTypes DEF Accept, Goto, Places, Holders
  <2>2. CASE Logout(c)
    BY <2>2, ConstantTypes DEF Logout, Holders
  <2>3. CASE Leave(c)
    BY <2>3, ConstantTypes DEF Leave, Goto, Places, Holders
  <2> QED BY <1>7, <2>1, <2>2, <2>3
<1>8. ASSUME NEW c \in Conns, LoginRequest(c) \/ SignupRequest(c) PROVE AccountsTypeOK'
  <2>1. /\ UNCHANGED <<users, lock, buf, session, told>>
        /\ result' = [result EXCEPT ![c] = NoUser]
        /\ \E typed \in Typed, next \in {"login", "signup", "answer"} :
             /\ arg' = [arg EXCEPT ![c] = sanitize_credentials(sanitize_credentials(typed))]
             /\ pc' = [pc EXCEPT ![c] = next]
    BY <1>8 DEF LoginRequest, SignupRequest, Request, Goto
  <2> QED BY <2>1, ConstantTypes DEF Places, Holders
<1>9. ASSUME NEW c \in Conns, Login(c) PROVE AccountsTypeOK'
  <2>1. \A i \in DOMAIN users : UserOf(users[i]) \in User
    BY ConstantTypes
  <2>2. result' \in [Holders -> User]
    BY <1>9, <2>1 DEF Login, Holders
  <2>3. pc' \in [Holders -> Places] /\ UNCHANGED <<users, lock, buf, arg, session, told>>
    BY <1>9 DEF Login, Goto, Places, Holders
  <2> QED BY <2>2, <2>3
<1>10. ASSUME NEW c \in Conns, Answer(c) PROVE AccountsTypeOK'
  BY <1>10 DEF Answer, Goto, Places, Holders
<1> QED BY <1>1, <1>2, <1>3, <1>4, <1>5, <1>6, <1>7, <1>8, <1>9, <1>10
        DEF Next, MainStep, ChildStep, Holders

(* Every variable has its type, in every step of any number of connections. *)
THEOREM TypeCorrect == Spec => []AccountsTypeOK
<1>1. AccountsTypeOK /\ [Next]_vars => AccountsTypeOK'
  BY TypeStep
<1> QED BY <1>1, TypeInit, PTL DEF Spec

-----------------------------------------------------------------------------
(* The file.                                                                *)

(* No record is lost or changed, and whoever was let in still is.           *)
UsersKept ==
  /\ DOMAIN users \subseteq DOMAIN users'
  /\ \A i \in DOMAIN users : users'[i] = users[i]
  /\ \A i \in DOMAIN users, credentials \in Credentials :
       Admits(i, credentials) => Admits(i, credentials)'

LEMMA AppendKeeps ==
  ASSUME users \in Seq(UserSave), NEW account \in UserSave, users' = Append(users, account)
  PROVE  UsersKept
<1>1. DOMAIN users = 1 .. Len(users) /\ DOMAIN users' = 1 .. Len(users) + 1
  OBVIOUS
<1>2. \A i \in DOMAIN users : users'[i] = users[i]
  OBVIOUS
<1>3. ASSUME NEW i \in DOMAIN users, NEW credentials \in Credentials, Admits(i, credentials)
      PROVE  Admits(i, credentials)'
  <2>1. \A j \in DOMAIN users' : users'[j].username = credentials.username => i <= j
    BY <1>1, <1>2, <1>3 DEF Admits, IsFirst
  <2> QED BY <1>1, <1>2, <1>3, <2>1 DEF Admits, IsFirst
<1> QED BY <1>1, <1>2, <1>3 DEF UsersKept

LEMMA UnchangedKeeps == UNCHANGED users => UsersKept
BY DEF UsersKept, Admits, IsFirst

(* What a flush does: nothing for a name that was taken, else it enters the *)
(* new account under a name that nobody else has.                           *)
LEMMA StoreEnters ==
  ASSUME AccountsInv, NEW h \in Holders, SignupStore(h)
  PROVE  \/ users' = users /\ NameTaken(arg[h].username)
         \/ /\ users' = Append(users, NewAccount(h))
            /\ NewAccount(h) \in UserSave
            /\ ~NameTaken(arg[h].username)
<1>1. users' = users \o buf[h] /\ pc[h] = "store" /\ HolderInv(h)
  BY DEF SignupStore, File!FlushAndUnlock, AccountsInv
<1>2. users \in Seq(UserSave) /\ NewAccount(h) \in UserSave
  BY NewAccountType DEF AccountsInv, AccountsTypeOK
<1>3. CASE buf[h] = << >> /\ NameTaken(arg[h].username)
  BY <1>1, <1>2, <1>3, ConcatEmptySeq
<1>4. CASE buf[h] = << NewAccount(h) >> /\ ~NameTaken(arg[h].username)
  BY <1>1, <1>2, <1>4, AppendIsConcat
<1> QED BY <1>1, <1>3, <1>4 DEF HolderInv

LEMMA StepKeeps ==
  ASSUME AccountsInv, [Next]_vars, ~Populate
  PROVE  UsersKept
<1>1. ASSUME NEW h \in Holders, SignupStore(h) PROVE UsersKept
  BY <1>1, StoreEnters, AppendKeeps, UnchangedKeeps DEF AccountsInv, AccountsTypeOK
<1>2. UNCHANGED users \/ \E h \in Holders : SignupStore(h)
  BY DEF Next, vars, Start, MainStep, SignupScan, File!LockAndScan, Listen, Crash, File!Die, Accept,
         LoginRequest, SignupRequest, Request, Logout, Leave, ChildStep, Login, Answer, Holders
<1> QED BY <1>1, <1>2, UnchangedKeeps

-----------------------------------------------------------------------------
(* The lock and the buffers.                                                *)

LEMMA OneWriterStep ==
  ASSUME AccountsInv, [Next]_vars
  PROVE  OneWriter'
<1>1. ASSUME NEW h \in Holders, SignupScan(h) PROVE OneWriter'
  <2>1. \A d \in Holders \ {h} : pc[d] # "store"
    BY <1>1 DEF SignupScan, File!LockAndScan, File!LockIsFree, AccountsInv, HolderInv
  <2>2. \A d \in Holders : pc'[d] = IF d = h THEN "store" ELSE pc[d]
    BY <1>1 DEF SignupScan, Goto, AccountsInv, AccountsTypeOK
  <2> QED BY <2>1, <2>2 DEF OneWriter
<1>2. (\A d \in Holders : pc'[d] = "store" => pc[d] = "store") => OneWriter'
  BY DEF OneWriter, AccountsInv
<1>3. ASSUME \A h \in Holders : ~SignupScan(h)
      PROVE  \A d \in Holders : pc'[d] = "store" => pc[d] = "store"
  <2>1. \/ UNCHANGED pc
        \/ \E h \in Holders, next \in Places \ {"store"} : pc' = [pc EXCEPT ![h] = next]
    <3>1. CASE UNCHANGED pc
      BY <3>1
    <3>2. ASSUME NEW c \in Conns, LoginRequest(c) \/ SignupRequest(c)
          PROVE  \E next \in {"login", "signup", "answer"} : pc' = [pc EXCEPT ![c] = next]
      BY <3>2 DEF LoginRequest, SignupRequest, Request, Goto
    <3>3. ASSUME NEW h \in Holders, SignupStore(h) \/ Crash(h)
          PROVE  \E next \in Places \ {"store"} : pc' = [pc EXCEPT ![h] = next]
      BY <3>3 DEF SignupStore, Crash, Goto, Places
    <3>4. ASSUME NEW c \in Conns, Accept(c) \/ Leave(c) \/ Login(c) \/ Answer(c)
          PROVE  \E next \in Places \ {"store"} : pc' = [pc EXCEPT ![c] = next]
      BY <3>4 DEF Accept, Leave, Login, Answer, Goto, Places
    <3>5. ASSUME Start \/ Listen
          PROVE  \E next \in Places \ {"store"} : pc' = [pc EXCEPT ![Main] = next]
      BY <3>5 DEF Start, Listen, Goto, Places
    <3>6. ASSUME Populate \/ \E c \in Conns : Logout(c) PROVE UNCHANGED pc
      BY <3>6 DEF Populate, Logout
    <3> QED BY <1>3, <3>1, <3>2, <3>3, <3>4, <3>5, <3>6
            DEF Next, vars, MainStep, ChildStep, Holders, Places
  <2> QED BY <2>1 DEF AccountsInv, AccountsTypeOK
<1> QED BY <1>1, <1>2, <1>3

(* A step of h leaves the other processes as they are: it changes the file, *)
(* if at all, under the lock, when none of them has a record in its buffer. *)
LEMMA OthersKeep ==
  ASSUME AccountsInv, NEW h \in Holders, NEW d \in Holders, d # h,
         lock'[d] = lock[d], buf'[d] = buf[d], pc'[d] = pc[d], arg'[d] = arg[d],
         session'[d] = session[d], users' = users \/ pc[h] = "store"
  PROVE  HolderInv(d)'
<1>1. users' # users => pc[d] # "store"
  BY DEF AccountsInv, OneWriter
<1>2. NewAccount(d)' = NewAccount(d)
  BY DEF NewAccount
<1>3. users' = users => (NameTaken(arg[d].username)' <=> NameTaken(arg[d].username))
  BY DEF NameTaken
<1> QED BY <1>1, <1>2, <1>3 DEF AccountsInv, HolderInv

LEMMA HolderStep ==
  ASSUME AccountsInv, [Next]_vars, NEW d \in Holders
  PROVE  HolderInv(d)'
<1> USE DEF AccountsInv, AccountsTypeOK
<1>1. CASE UNCHANGED vars
  BY <1>1 DEF vars, HolderInv, NewAccount, NameTaken
<1>2. CASE Start \/ Listen
  <2>1. CASE d # Main
    BY <1>2, <2>1, OthersKeep DEF Start, Listen, Goto, Holders
  <2>2. CASE d = Main
    BY <1>2, <2>2 DEF Start, Listen, Goto, Running, Holders, HolderInv
  <2> QED BY <2>1, <2>2
<1>3. CASE Populate
  BY <1>3 DEF Populate, Running, HolderInv
<1>4. ASSUME NEW h \in Holders, SignupScan(h) PROVE HolderInv(d)'
  <2>1. CASE d # h
    BY <1>4, <2>1, OthersKeep DEF SignupScan, File!LockAndScan, Goto
  <2>2. CASE d = h
    <3>1. NameTaken(arg[h].username)' <=> NameTaken(arg[h].username)
      BY <1>4 DEF SignupScan, File!LockAndScan, NameTaken
    <3>2. NewAccount(h)' = NewAccount(h)
      BY <1>4 DEF SignupScan, NewAccount
    <3> QED BY <1>4, <2>2, <3>1, <3>2 DEF SignupScan, File!LockAndScan, Goto, HolderInv
  <2> QED BY <2>1, <2>2
<1>5. ASSUME NEW h \in Holders, SignupStore(h) PROVE HolderInv(d)'
  BY <1>5, OthersKeep DEF SignupStore, File!FlushAndUnlock, Goto, HolderInv
<1>6. ASSUME NEW h \in Holders, Crash(h) PROVE HolderInv(d)'
  BY <1>6, OthersKeep DEF Crash, File!Die, Goto, HolderInv
<1>7. ASSUME NEW c \in Conns, Accept(c) \/ Logout(c) \/ Leave(c) PROVE HolderInv(d)'
  <2>1. CASE d # c
    BY <1>7, <2>1, OthersKeep DEF Accept, Logout, Leave, Goto, Holders
  <2>2. CASE d = c
    BY <1>7, <2>2 DEF Accept, Logout, Leave, Goto, Holders, HolderInv, Running
  <2> QED BY <2>1, <2>2
<1>8. ASSUME NEW c \in Conns, LoginRequest(c) \/ SignupRequest(c) PROVE HolderInv(d)'
  <2>1. /\ pc[c] = "idle" /\ UNCHANGED <<users, lock, buf, session>>
        /\ \E credentials \in Credentials, next \in {"login", "signup", "answer"} :
             /\ arg' = [arg EXCEPT ![c] = credentials]
             /\ pc' = [pc EXCEPT ![c] = next]
    BY <1>8, ConstantTypes DEF LoginRequest, SignupRequest, Request, Goto
  <2>2. CASE d # c
    BY <2>1, <2>2, OthersKeep DEF Holders
  <2>3. CASE d = c
    <3>1. pc'[c] # "store" /\ pc'[c] # "none" /\ UNCHANGED <<lock, buf>> /\ pc[c] = "idle"
      BY <2>1 DEF Holders
    <3>2. HolderInv(c) /\ c \in Holders
      BY DEF Holders
    <3> QED BY <2>3, <3>1, <3>2 DEF HolderInv
  <2> QED BY <2>2, <2>3
<1>9. ASSUME NEW c \in Conns, Login(c) \/ Answer(c) PROVE HolderInv(d)'
  <2>1. CASE d # c
    BY <1>9, <2>1, OthersKeep DEF Login, Answer, Goto, Holders
  <2>2. CASE d = c
    BY <1>9, <2>2 DEF Login, Answer, Goto, Holders, HolderInv
  <2> QED BY <2>1, <2>2
<1> QED BY <1>1, <1>2, <1>3, <1>4, <1>5, <1>6, <1>7, <1>8, <1>9
        DEF Next, MainStep, ChildStep, Holders

-----------------------------------------------------------------------------
(* What the children are about to answer.                                   *)

(* No step of another process changes what a child is about to answer.      *)
LEMMA OtherAnswersKeep ==
  ASSUME AccountsInv, UsersKept, NEW c \in Conns,
         pc'[c] = pc[c], buf'[c] = buf[c], arg'[c] = arg[c], result'[c] = result[c]
  PROVE  ChildInv(c)'
<1>1. ChildInv(c) /\ arg[c] \in Credentials
  BY DEF AccountsInv, AccountsTypeOK, Holders
<1>2. NewAccount(c)' = NewAccount(c)
  BY DEF NewAccount
<1>3. ASSUME NEW i \in DOMAIN users, Admits(i, arg[c]), result[c] = UserOf(users[i])
      PROVE  \E j \in DOMAIN users' : Admits(j, arg[c])' /\ result'[c] = UserOf(users'[j])
  <2>1. i \in DOMAIN users' /\ users'[i] = users[i] /\ Admits(i, arg[c])'
    BY <1>1, <1>3 DEF UsersKept, Admits, IsFirst
  <2> QED BY <1>3, <2>1
<1> QED BY <1>1, <1>2, <1>3 DEF ChildInv, UserOf

(* The account that a sign-up has just stored lets its client in.           *)
LEMMA StoredAdmits ==
  ASSUME AccountsInv, NEW c \in Conns, SignupStore(c), result[c] # NoUser
  PROVE  \E i \in DOMAIN users' : Admits(i, arg[c])' /\ result'[c] = UserOf(users'[i])
<1>1. /\ pc[c] = "store" /\ arg' = arg /\ result' = result /\ users \in Seq(UserSave)
      /\ HolderInv(c) /\ ChildInv(c) /\ c \in Holders
  BY DEF SignupStore, AccountsInv, AccountsTypeOK, Holders
<1>2. buf[c] = << NewAccount(c) >> /\ ~NameTaken(arg[c].username)
  BY <1>1 DEF ChildInv, HolderInv
<1>3. users' = users \o << NewAccount(c) >>
  BY <1>2 DEF SignupStore, File!FlushAndUnlock
<1>4. users' = Append(users, NewAccount(c))
  BY <1>1, <1>3, NewAccountType, AppendIsConcat DEF AccountsInv, AccountsTypeOK
<1>5. PICK n \in Nat :
        /\ n \in DOMAIN users' /\ users'[n] = NewAccount(c)
        /\ DOMAIN users = 1 .. n - 1 /\ DOMAIN users' = 1 .. n
        /\ \A j \in 1 .. n - 1 : users'[j] = users[j]
  <2>1. Len(users) + 1 \in Nat
    BY <1>1
  <2> QED BY <1>1, <1>4, <2>1
<1>6. \A j \in DOMAIN users' : users'[j].username = arg[c].username => n <= j
  <2>1. \A j \in 1 .. n - 1 : users'[j].username # arg[c].username
    BY <1>1, <1>2, <1>5 DEF NameTaken
  <2> QED BY <1>1, <1>5, <2>1
<1>7. Admits(n, arg[c])'
  BY <1>1, <1>5, <1>6 DEF Admits, IsFirst, NewAccount
<1>8. result'[c] = UserOf(users'[n])
  BY <1>1, <1>2, <1>5 DEF ChildInv
<1> QED BY <1>5, <1>7, <1>8

LEMMA ChildStepKeeps ==
  ASSUME AccountsInv, [Next]_vars, NEW d \in Conns
  PROVE  ChildInv(d)'
<1> USE DEF AccountsInv, AccountsTypeOK
<1>0. d \in Holders /\ d # Main
  BY AccountsAssumption DEF Holders
<1>1. CASE Populate
  BY <1>0, <1>1 DEF Populate, Running, ChildInv
<1> SUFFICES ASSUME ~Populate PROVE ChildInv(d)'
  BY <1>1
<1>2. UsersKept
  BY StepKeeps
<1>3. CASE UNCHANGED vars \/ Start \/ Listen
  BY <1>0, <1>2, <1>3, OtherAnswersKeep DEF vars, Start, Listen, Goto
<1>4. ASSUME NEW h \in Holders, SignupScan(h) PROVE ChildInv(d)'
  <2>1. CASE d # h
    BY <1>2, <1>4, <2>1, OtherAnswersKeep DEF SignupScan, File!LockAndScan, Goto, Holders
  <2>2. CASE d = h
    <3>1. ChildInv(d) /\ pc[d] = "signup" /\ pc'[d] = "store"
      BY <1>4, <2>2 DEF SignupScan, Goto
    <3>2. UserOf(NewAccount(d))' = UserOf(NewAccount(d)) /\ result[d] = NoUser
      BY <1>4, <3>1 DEF SignupScan, NewAccount, UserOf, ChildInv
    <3>3. \/ buf'[d] = << >> /\ result'[d] = result[d]
          \/ buf'[d] = << NewAccount(d) >> /\ result'[d] = UserOf(NewAccount(d))
      BY <1>0, <1>4, <2>2 DEF SignupScan, File!LockAndScan
    <3>4. << NewAccount(d) >> # << >>
      OBVIOUS
    <3>5. result'[d] = IF buf'[d] = << >> THEN NoUser ELSE UserOf(NewAccount(d))'
      BY <3>2, <3>3, <3>4
    <3> QED BY <3>1, <3>5 DEF ChildInv
  <2> QED BY <2>1, <2>2
<1>5. ASSUME NEW h \in Holders, SignupStore(h) PROVE ChildInv(d)'
  <2>1. CASE d # h
    BY <1>2, <1>5, <2>1, OtherAnswersKeep DEF SignupStore, File!FlushAndUnlock, Goto, Holders
  <2>2. CASE d = h
    <3>1. pc'[d] = "answer" /\ result' = result
      BY <1>0, <1>5, <2>2 DEF SignupStore, Goto
    <3> QED BY <1>5, <2>2, <3>1, StoredAdmits DEF ChildInv
  <2> QED BY <2>1, <2>2
<1>6. ASSUME NEW h \in Holders, Crash(h) PROVE ChildInv(d)'
  <2>1. CASE d # h
    BY <1>2, <1>6, <2>1, OtherAnswersKeep DEF Crash, File!Die, Goto, Holders
  <2>2. CASE d = h
    BY <1>0, <1>6, <2>2 DEF Crash, Goto, ChildInv
  <2> QED BY <2>1, <2>2
<1>7. ASSUME NEW c \in Conns, Accept(c) \/ Leave(c) \/ Logout(c) PROVE ChildInv(d)'
  <2>1. CASE d # c \/ Logout(c)
    BY <1>2, <1>7, <2>1, OtherAnswersKeep DEF Accept, Leave, Logout, Goto, Holders
  <2>2. CASE d = c /\ ~Logout(c)
    <3>1. pc'[d] \in {"idle", "none"}
      BY <1>0, <1>7, <2>2 DEF Accept, Leave, Goto
    <3> QED BY <3>1 DEF ChildInv
  <2> QED BY <2>1, <2>2
<1>8. ASSUME NEW c \in Conns, LoginRequest(c) \/ SignupRequest(c) PROVE ChildInv(d)'
  <2>1. /\ UNCHANGED <<users, buf>> /\ result' = [result EXCEPT ![c] = NoUser]
        /\ \E credentials \in Credentials, next \in {"login", "signup", "answer"} :
             /\ arg' = [arg EXCEPT ![c] = credentials]
             /\ pc' = [pc EXCEPT ![c] = next]
    BY <1>8, ConstantTypes DEF LoginRequest, SignupRequest, Request, Goto
  <2>2. CASE d # c
    BY <1>2, <2>1, <2>2, OtherAnswersKeep DEF Holders
  <2>3. CASE d = c
    <3>1. pc'[d] \in {"login", "signup", "answer"} /\ result'[d] = NoUser
      BY <1>0, <2>1, <2>3
    <3> QED BY <3>1 DEF ChildInv
  <2> QED BY <2>2, <2>3
<1>9. ASSUME NEW c \in Conns, Login(c) PROVE ChildInv(d)'
  <2>1. CASE d # c
    BY <1>2, <1>9, <2>1, OtherAnswersKeep DEF Login, Goto, Holders
  <2>2. CASE d = c
    <3>1. pc[d] = "login" /\ pc'[d] = "answer" /\ result[d] = NoUser /\ UNCHANGED <<users, arg>>
      BY <1>0, <1>9, <2>2 DEF Login, Goto, ChildInv
    <3>2. \/ result'[d] = NoUser
          \/ \E i \in DOMAIN users : Admits(i, arg[d]) /\ result'[d] = UserOf(users[i])
      BY <1>0, <1>9, <2>2, <3>1 DEF Login
    <3> QED BY <3>1, <3>2 DEF ChildInv, Admits, IsFirst
  <2> QED BY <2>1, <2>2
<1>10. ASSUME NEW c \in Conns, Answer(c) PROVE ChildInv(d)'
  <2>1. CASE d # c
    BY <1>2, <1>10, <2>1, OtherAnswersKeep DEF Answer, Goto, Holders
  <2>2. CASE d = c
    BY <1>0, <1>10, <2>2 DEF Answer, Goto, ChildInv
  <2> QED BY <2>1, <2>2
<1> QED BY <1>3, <1>4, <1>5, <1>6, <1>7, <1>8, <1>9, <1>10
        DEF Next, MainStep, ChildStep, Holders

-----------------------------------------------------------------------------
(* Names, the administrator, sessions, promises.                            *)

LEMMA NamesStep ==
  ASSUME AccountsInv, [Next]_vars
  PROVE  UniqueNames'
<1>1. CASE Populate
  BY <1>1, AccountsAssumption DEF Populate, UniqueNames
<1>2. CASE UNCHANGED users
  BY <1>2 DEF AccountsInv, UniqueNames
<1>3. ASSUME NEW h \in Holders, SignupStore(h) PROVE UniqueNames'
  <2>1. CASE users' = Append(users, NewAccount(h)) /\ ~NameTaken(arg[h].username)
    <3>1. users \in Seq(UserSave) /\ NewAccount(h).username = arg[h].username
      BY DEF AccountsInv, AccountsTypeOK, NewAccount
    <3>2. /\ DOMAIN users = 1 .. Len(users) /\ DOMAIN users' = 1 .. Len(users) + 1
          /\ \A i \in 1 .. Len(users) : users'[i] = users[i]
          /\ users'[Len(users) + 1].username = arg[h].username
      BY <2>1, <3>1
    <3>3. \A i \in 1 .. Len(users) : users'[i].username # arg[h].username
      BY <2>1, <3>2 DEF NameTaken
    <3> QED BY <3>2, <3>3 DEF AccountsInv, UniqueNames
  <2> QED BY <1>2, <1>3, <2>1, StoreEnters
<1>4. Populate \/ UNCHANGED users \/ \E h \in Holders : SignupStore(h)
  BY DEF Next, vars, Start, MainStep, SignupScan, File!LockAndScan, Listen, Crash, File!Die, Accept,
         LoginRequest, SignupRequest, Request, Logout, Leave, ChildStep, Login, Answer, Holders
<1> QED BY <1>1, <1>2, <1>3, <1>4

LEMMA KeptNames ==
  ASSUME UsersKept, NEW name, NameTaken(name)
  PROVE  NameTaken(name)'
BY DEF UsersKept, NameTaken

(* A child that signs up finds the administrator's name taken.              *)
LEMMA AdminStep ==
  ASSUME AccountsInv, [Next]_vars
  PROVE  AdminInv'
<1> USE DEF AccountsInv, AccountsTypeOK
<1>0. Main \in Holders /\ \A c \in Conns : c \in Holders /\ c # Main
  BY AccountsAssumption DEF Holders
<1>1. CASE Populate
  BY <1>0, <1>1, AccountsAssumption DEF Populate, Running, AdminInv, Holders
<1> SUFFICES ASSUME ~Populate PROVE AdminInv'
  BY <1>1
<1>2. UsersKept
  BY StepKeeps
<1>3. ASSUME NEW h \in Holders, SignupStore(h) PROVE AdminInv'
  <2>1. /\ pc[h] = "store" /\ pc' = [pc EXCEPT ![h] = "answer"] /\ arg' = arg
        /\ h = Main => arg[h] = Admin
    BY <1>3 DEF SignupStore, Goto, AdminInv
  <2>2. \/ users' = users /\ NameTaken(arg[h].username)
        \/ /\ users' = Append(users, NewAccount(h))
           /\ ~NameTaken(arg[h].username)
    BY <1>3, StoreEnters
  <2>3. NameTaken(arg[h].username)'
    <3>1. CASE users' = users /\ NameTaken(arg[h].username)
      BY <2>1, <3>1 DEF NameTaken
    <3>2. CASE users' = Append(users, NewAccount(h))
      <4>0. users \in Seq(UserSave) /\ Len(users) + 1 \in Nat
        OBVIOUS
      <4>1. Len(users) + 1 \in DOMAIN users' /\ users'[Len(users) + 1] = NewAccount(h)
        BY <3>2, <4>0
      <4> QED BY <2>1, <4>1 DEF NameTaken, NewAccount
    <3> QED BY <2>2, <3>1, <3>2
  <2>4. /\ pc'[Main] \in {"none", "signup", "store", "answer", "serve"}
        /\ pc'[Main] \in {"signup", "store"} => arg'[Main] = Admin
    BY <1>0, <2>1 DEF AdminInv
  <2>5. pc'[Main] \in {"answer", "serve"} \/ (\E c \in Conns : Running(c)') =>
          NameTaken(Admin.username)'
    <3>1. CASE h = Main
      BY <2>1, <2>3, <3>1
    <3>2. CASE h # Main
      <4>1. NameTaken(Admin.username)
        BY <2>1, <3>2 DEF AdminInv, Running, Holders
      <4> QED BY <1>2, <4>1, KeptNames
    <3> QED BY <3>1, <3>2
  <2>6. \A i \in DOMAIN users' :
          users'[i].username = Admin.username => users'[i].user_type = "SUPERUSER"
    <3>1. CASE users' = users
      BY <3>1 DEF AdminInv
    <3>2. CASE users' = Append(users, NewAccount(h)) /\ ~NameTaken(arg[h].username)
      <4>1. h # Main => arg[h].username # Admin.username
        BY <2>1, <3>2 DEF AdminInv, Running, Holders
      <4>2. NewAccount(h).username = Admin.username => NewAccount(h).user_type = "SUPERUSER"
        BY <4>1 DEF NewAccount
      <4> QED BY <3>2, <4>2 DEF AdminInv
    <3> QED BY <2>2, <3>1, <3>2
  <2> QED BY <2>4, <2>5, <2>6 DEF AdminInv
<1>4. ASSUME \A h \in Holders : ~SignupStore(h) PROVE AdminInv'
  <2>1. users' = users
    BY <1>4 DEF Next, vars, Start, MainStep, SignupScan, File!LockAndScan, Listen, Crash, File!Die,
                Accept, LoginRequest, SignupRequest, Request, Logout, Leave, ChildStep, Login, Answer,
                Holders
  <2>2. NameTaken(Admin.username)' <=> NameTaken(Admin.username)
    BY <2>1 DEF NameTaken
  <2>3. CASE Start
    BY <1>0, <2>1, <2>2, <2>3 DEF Start, Goto, AdminInv, Running
  <2>4. CASE Listen
    BY <1>0, <2>1, <2>2, <2>4 DEF Listen, Goto, AdminInv, Running
  <2>5. CASE SignupScan(Main)
    BY <1>0, <2>1, <2>2, <2>5 DEF SignupScan, Goto, AdminInv, Running
  <2>6. CASE Crash(Main)
    BY <1>0, <2>1, <2>2, <2>6 DEF Crash, Goto, AdminInv, Running
  <2>7. ASSUME NEW c \in Conns, pc'[Main] = pc[Main], arg'[Main] = arg[Main],
               \A d \in Conns : Running(d)' => Running(d) \/ pc[Main] = "serve"
        PROVE  AdminInv'
    BY <2>1, <2>2, <2>7 DEF AdminInv
  <2>8. ASSUME NEW c \in Conns, Accept(c) \/ Leave(c) \/ Logout(c) PROVE AdminInv'
    BY <1>0, <2>7, <2>8 DEF Accept, Leave, Logout, Goto, Running
  <2>9. ASSUME NEW c \in Conns, SignupScan(c) \/ Login(c) \/ Answer(c) \/ Crash(c) PROVE AdminInv'
    BY <1>0, <2>7, <2>9 DEF SignupScan, Login, Answer, Crash, Goto, Running
  <2>10. ASSUME NEW c \in Conns, LoginRequest(c) \/ SignupRequest(c) PROVE AdminInv'
    <3>1. /\ pc[c] = "idle"
          /\ \E credentials \in Credentials, next \in {"login", "signup", "answer"} :
               /\ arg' = [arg EXCEPT ![c] = credentials]
               /\ pc' = [pc EXCEPT ![c] = next]
      BY <2>10, ConstantTypes DEF LoginRequest, SignupRequest, Request, Goto
    <3> QED BY <1>0, <2>7, <3>1 DEF Running
  <2>11. CASE UNCHANGED vars
    BY <2>2, <2>11 DEF vars, AdminInv, Running
  <2> QED BY <1>4, <2>3, <2>4, <2>5, <2>6, <2>8, <2>9, <2>10, <2>11
          DEF Next, MainStep, ChildStep, Holders
<1> QED BY <1>3, <1>4

LEMMA SessionStep ==
  ASSUME AccountsInv, [Next]_vars
  PROVE  SessionIsRecorded'
<1> USE DEF AccountsInv, AccountsTypeOK
<1> SUFFICES ASSUME NEW c \in Conns, session'[c].user_type # "GUEST"
             PROVE  [username |-> session'[c].username, password |-> arg'[c].password,
                     user_type |-> session'[c].user_type] \in Range(users')
  BY DEF SessionIsRecorded
<1>0. c \in Holders /\ c # Main /\ NoUser.user_type = "GUEST"
  BY AccountsAssumption DEF Holders, NoUser
<1>1. ~Populate
  <2>1. Populate => session'[c] = NoUser
    BY <1>0 DEF Populate, Running, HolderInv
  <2> QED BY <1>0, <2>1
<1>2. UsersKept
  BY <1>1, StepKeeps
<1>3. CASE session'[c] = session[c] /\ arg'[c] = arg[c]
  <2>1. PICK i \in DOMAIN users :
          users[i] = [username |-> session[c].username, password |-> arg[c].password,
                      user_type |-> session[c].user_type]
    BY <1>3 DEF SessionIsRecorded, Range
  <2> QED BY <1>2, <1>3, <2>1 DEF UsersKept, Range
<1>4. CASE Answer(c) /\ result[c] # NoUser
  <2>1. /\ ChildInv(c) /\ pc[c] = "answer" /\ users' = users /\ arg' = arg
        /\ session'[c] = result[c]
    BY <1>0, <1>4 DEF Answer
  <2>2. PICK i \in DOMAIN users : Admits(i, arg[c]) /\ result[c] = UserOf(users[i])
    BY <1>4, <2>1 DEF ChildInv
  <2>3. users[i] \in UserSave /\ users[i].password = arg[c].password
    BY <2>2 DEF Admits
  <2>4. users[i] = [username |-> session'[c].username, password |-> arg'[c].password,
                    user_type |-> session'[c].user_type]
    BY <2>1, <2>2, <2>3 DEF UserSave, UserOf
  <2> QED BY <2>1, <2>4 DEF Range
<1>5. \/ session'[c] = session[c] /\ arg'[c] = arg[c]
      \/ Answer(c) /\ result[c] # NoUser
      \/ session'[c] = NoUser
  <2>1. ASSUME NEW h \in Holders, SignupScan(h) \/ SignupStore(h) \/ Crash(h)
        PROVE  (session'[c] = session[c] /\ arg'[c] = arg[c]) \/ session'[c] = NoUser
    BY <1>0, <2>1 DEF SignupScan, SignupStore, Crash
  <2>2. ASSUME NEW d \in Conns, Accept(d) \/ Logout(d) \/ Leave(d)
        PROVE  (session'[c] = session[c] /\ arg'[c] = arg[c]) \/ session'[c] = NoUser
    BY <1>0, <2>2 DEF Accept, Logout, Leave
  <2>3. ASSUME NEW d \in Conns, LoginRequest(d) \/ SignupRequest(d)
        PROVE  session'[c] = session[c] /\ arg'[c] = arg[c]
    <3>1. /\ session' = session /\ session[d].user_type = "GUEST"
          /\ \E credentials \in Credentials : arg' = [arg EXCEPT ![d] = credentials]
      BY <2>3, ConstantTypes DEF LoginRequest, SignupRequest, Request
    <3> QED BY <1>0, <3>1
  <2>4. ASSUME NEW d \in Conns, Login(d) \/ Answer(d)
        PROVE  \/ session'[c] = session[c] /\ arg'[c] = arg[c]
               \/ Answer(c) /\ result[c] # NoUser
    BY <1>0, <2>4 DEF Login, Answer, Holders
  <2>5. CASE Start \/ Listen \/ UNCHANGED vars
    BY <1>0, <2>5 DEF Start, Listen, vars
  <2> QED BY <1>1, <2>1, <2>2, <2>3, <2>4, <2>5 DEF Next, MainStep, ChildStep, Holders
<1> QED BY <1>0, <1>3, <1>4, <1>5

LEMMA ToldStep ==
  ASSUME AccountsInv, [Next]_vars
  PROVE  ToldAccountsStay'
<1>1. CASE Populate
  BY <1>1 DEF Populate, ToldAccountsStay
<1> SUFFICES ASSUME ~Populate, NEW credentials \in told'
             PROVE  \E i \in DOMAIN users' : Admits(i, credentials)'
  BY <1>1 DEF ToldAccountsStay
<1>2. UsersKept
  BY StepKeeps
<1>3. \/ credentials \in told
      \/ \E c \in Conns : Answer(c) /\ result[c] # NoUser /\ credentials = arg[c]
  BY DEF Next, vars, Start, MainStep, SignupScan, SignupStore, Listen, Crash, Accept, LoginRequest,
         SignupRequest, Request, Logout, Leave, ChildStep, Login, Answer
<1>4. \E i \in DOMAIN users : Admits(i, credentials)
  <2>1. CASE credentials \in told
    BY <2>1 DEF AccountsInv, ToldAccountsStay
  <2>2. ASSUME NEW c \in Conns, Answer(c), result[c] # NoUser, credentials = arg[c]
        PROVE  \E i \in DOMAIN users : Admits(i, credentials)
    BY <2>2 DEF Answer, AccountsInv, ChildInv
  <2> QED BY <1>3, <2>1, <2>2
<1>5. credentials \in Credentials
  BY <1>3 DEF AccountsInv, AccountsTypeOK, Holders
<1> QED BY <1>2, <1>4, <1>5 DEF UsersKept

-----------------------------------------------------------------------------
(* The theorems.                                                            *)

LEMMA InvInit == Init => AccountsInv
<1> SUFFICES ASSUME Init PROVE AccountsInv
  OBVIOUS
<1>1. users = << >> /\ told = {} /\ \A h \in Holders : pc[h] = "none" /\ session[h] = NoUser
  BY DEF Init
<1>2. Main \in Holders /\ \A c \in Conns : c \in Holders
  BY DEF Holders
<1>3. AccountsTypeOK
  BY TypeInit
<1>4. OneWriter /\ AdminInv /\ UniqueNames /\ ToldAccountsStay
  BY <1>1, <1>2 DEF OneWriter, AdminInv, UniqueNames, ToldAccountsStay, Running
<1>5. SessionIsRecorded
  BY <1>1, <1>2 DEF SessionIsRecorded, NoUser
<1>6. \A h \in Holders : HolderInv(h)
  BY <1>1 DEF HolderInv, Init, File!FileInit
<1>7. \A c \in Conns : ChildInv(c)
  BY <1>1, <1>2 DEF ChildInv
<1> QED BY <1>3, <1>4, <1>5, <1>6, <1>7 DEF AccountsInv

LEMMA InvStep ==
  ASSUME AccountsInv, [Next]_vars
  PROVE  AccountsInv'
<1>1. AccountsTypeOK'
  BY TypeStep DEF AccountsInv
<1>2. \A h \in Holders : HolderInv(h)'
  BY HolderStep
<1>3. \A c \in Conns : ChildInv(c)'
  BY ChildStepKeeps
<1> QED BY <1>1, <1>2, <1>3, OneWriterStep, AdminStep, NamesStep, SessionStep, ToldStep
        DEF AccountsInv

LEMMA InvHolds == Spec => []AccountsInv
<1>1. AccountsInv /\ [Next]_vars => AccountsInv'
  BY InvStep
<1> QED BY <1>1, InvInit, PTL DEF Spec

(* signup() never stores a name twice, however many processes run it.       *)
THEOREM NamesAreUnique == Spec => []UniqueNames
<1>1. AccountsInv => UniqueNames
  BY DEF AccountsInv
<1> QED BY <1>1, InvHolds, PTL

(* login() and signup() give nobody a role that users.dat does not.         *)
THEOREM SessionsAreRecorded == Spec => []SessionIsRecorded
<1>1. AccountsInv => SessionIsRecorded
  BY DEF AccountsInv
<1> QED BY <1>1, InvHolds, PTL

(* OPCODE_OK to a sign-up or a log-in is a promise that crashes keep.       *)
THEOREM PromisedAccountsStay == Spec => []ToldAccountsStay
<1>1. AccountsInv => ToldAccountsStay
  BY DEF AccountsInv
<1> QED BY <1>1, InvHolds, PTL

(* initialize_server has entered the administrator before anybody is        *)
(* served, and nobody can take that name.                                   *)
THEOREM AdministratorIsThere == Spec => []AdministratorExists
<1>1. AccountsInv => AdministratorExists
  <2> SUFFICES ASSUME AccountsInv, NEW c \in Conns, Running(c)
               PROVE  \E account \in Range(users) :
                        account.username = Admin.username /\ account.user_type = "SUPERUSER"
    BY DEF AdministratorExists
  <2>1. PICK i \in DOMAIN users : users[i].username = Admin.username
    BY DEF AccountsInv, AdminInv, NameTaken
  <2> QED BY <2>1 DEF AccountsInv, AdminInv, Range
<1> QED BY <1>1, InvHolds, PTL

-----------------------------------------------------------------------------
(* The refinement.  An account is entered when its record reaches the file; *)
(* populate replaces the list while nothing runs; no other step touches it. *)

LEMMA EntriesOfAppend ==
  ASSUME NEW file \in Seq(UserSave), NEW account \in UserSave
  PROVE  /\ EntriesOf(file) \in Seq(Words \X UserSave)
         /\ Len(EntriesOf(file)) = Len(file)
         /\ EntriesOf(Append(file, account)) =
              Append(EntriesOf(file), << account.username, account >>)
<1> DEFINE entry == << account.username, account >>
           longer == Append(file, account)
<1>1. \A a \in UserSave : << a.username, a >> \in Words \X UserSave
  BY DEF UserSave
<1>2. EntriesOf(file) \in Seq(Words \X UserSave) /\ Len(EntriesOf(file)) = Len(file)
  <2>1. EntriesOf(file) \in [1 .. Len(file) -> Words \X UserSave]
    BY <1>1 DEF EntriesOf
  <2>2. Len(file) \in Nat
    OBVIOUS
  <2> QED BY <2>1, <2>2
<1>3. longer \in Seq(UserSave) /\ DOMAIN longer = 1 .. Len(file) + 1
  OBVIOUS
<1>4. EntriesOf(longer) = [i \in 1 .. Len(file) + 1 |-> << longer[i].username, longer[i] >>]
  BY <1>3 DEF EntriesOf
<1>5. Append(EntriesOf(file), entry) =
        [i \in 1 .. Len(file) + 1 |-> IF i = Len(file) + 1 THEN entry ELSE EntriesOf(file)[i]]
  BY <1>1, <1>2
<1>6. \A i \in 1 .. Len(file) + 1 :
        << longer[i].username, longer[i] >> =
          IF i = Len(file) + 1 THEN entry ELSE EntriesOf(file)[i]
  BY DEF EntriesOf
<1> QED BY <1>2, <1>4, <1>5, <1>6

LEMMA RegisterInit == Init => Names!RegInit
<1> SUFFICES ASSUME Init PROVE Names!RegInit
  OBVIOUS
<1>1. EntriesOf(users) = << >>
  BY DEF Init, EntriesOf
<1> QED BY <1>1 DEF Names!RegInit

LEMMA RegisterEnter ==
  ASSUME AccountsInv, NEW h \in Holders, SignupStore(h), users' # users
  PROVE  Names!Enter
<1> DEFINE account == NewAccount(h)
           entry == << account.username, account >>
<1>1. users' = Append(users, account) /\ account \in UserSave /\ ~NameTaken(account.username)
  BY StoreEnters DEF NewAccount
<1>2. users \in Seq(UserSave)
  BY DEF AccountsInv, AccountsTypeOK
<1>3. pc[h] = "store" /\ pc'[h] = "answer"
  BY DEF SignupStore, Goto, AccountsInv, AccountsTypeOK
<1>4. /\ EntriesOf(users) \in Seq(Words \X UserSave)
      /\ EntriesOf(users') = Append(EntriesOf(users), entry)
  BY <1>1, <1>2, EntriesOfAppend
<1>5. EntriesOf(users)' = EntriesOf(users')
  BY DEF EntriesOf
<1>6. entry \in Words \X UserSave
  BY <1>1 DEF UserSave
<1>7. EntriesOf(users') # << >> /\ EntriesOf(users')[Len(EntriesOf(users'))] = entry
  <2> HIDE DEF entry
  <2> QED BY <1>4, <1>6
<1>8. ~Names!Taken(entry[1])
  BY <1>1, <1>2 DEF Names!Taken, NameTaken, EntriesOf
<1>9. (\E d \in Holders : Running(d)) /\ (\E d \in Holders : Running(d))'
  BY <1>3 DEF Running
<1> QED BY <1>4, <1>5, <1>7, <1>8, <1>9 DEF Names!Enter

LEMMA RegisterStep ==
  ASSUME AccountsInv, [Next]_vars
  PROVE  [Names!RegNext]_(Names!regVars)
<1>1. CASE UNCHANGED users
  BY <1>1 DEF Names!RegNext, Names!OpenOrShut, EntriesOf
<1>2. CASE Populate
  <2>1. EntriesOf(users)' = EntriesOf(Populated)
    BY <1>2 DEF Populate, EntriesOf
  <2>2. ~(\E h \in Holders : Running(h)) /\ ~(\E h \in Holders : Running(h))'
    BY <1>2 DEF Populate, Running
  <2> QED BY <2>1, <2>2 DEF Names!RegNext, Names!Replace
<1>3. ASSUME NEW h \in Holders, SignupStore(h), users' # users PROVE Names!RegNext
  BY <1>3, RegisterEnter DEF Names!RegNext
<1>4. Populate \/ UNCHANGED users \/ \E h \in Holders : SignupStore(h)
  BY DEF Next, vars, Start, MainStep, SignupScan, File!LockAndScan, Listen, Crash, File!Die, Accept,
         LoginRequest, SignupRequest, Request, Logout, Leave, ChildStep, Login, Answer, Holders
<1> QED BY <1>1, <1>2, <1>3, <1>4

(* users.dat under any number of processes that sign up, log in and die is  *)
(* a register of names.                                                     *)
THEOREM AccountsAreARegister == Spec => ImplementsRegister
<1>1. AccountsInv /\ [Next]_vars => [Names!RegNext]_(Names!regVars)
  BY RegisterStep
<1> QED BY <1>1, RegisterInit, InvHolds, PTL DEF Spec, ImplementsRegister, Names!RegSpec

=============================================================================
