----------------------------- MODULE MCAccounts -----------------------------
(* Small instances of Accounts for TLC.                                     *)
EXTENDS Accounts

(* "mario r" is spelled "mario.r" in users.dat; "anna", a short password,   *)
(* gets into the file through populate only.                                *)
MCSanitized ==
  [w \in {"mario r", "mario.r", "anna", "admin", "guest", "secret"} |->
     IF w = "mario r" THEN "mario.r" ELSE w]

Typing(name, password) == [username |-> name, password |-> password]

MCAdmin == Typing("admin", "admin")
MCPopulated ==
  << [username |-> "mario.r", password |-> "anna", user_type |-> "USER"] >>

MCTyped == {Typing("mario r", "secret"), Typing("mario.r", "admin"),
            Typing("mario.r", "anna"), MCAdmin}
=============================================================================
