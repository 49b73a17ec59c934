----------------------------- MODULE RecordFile -----------------------------
(***************************************************************************)
(* A file of records to which processes append: users.dat and rooms.dat.   *)
(* A writer takes the fcntl() write lock, scans the file, puts at most one *)
(* record into its stdio buffer, and gives the lock back through           *)
(* unlock_writing_for_file, which flushes the buffer first.  Nobody can    *)
(* see the file between the lock and the scan, nor between the flush and   *)
(* the unlock, so each pair is one step; a writer can die between them.    *)
(* A read-locked scan changes nothing and is a step of its reader's.       *)
(***************************************************************************)
EXTENDS Sequences

CONSTANT Holders    \* the processes that open the file

VARIABLES
  file,    \* the records
  lock,    \* the lock each process holds between its steps: "none" or "write"
  buf      \* the record in each process's buffer: a sequence of at most one

FileInit ==
  /\ lock = [h \in Holders |-> "none"]
  /\ buf = [h \in Holders |-> << >>]

(* Faulty variant: a write lock that excludes nobody.                       *)
AlwaysFree(h) == h \in Holders

(* No other process holds the write lock: a reader and a writer may go on.  *)
LockIsFree(h) == \A d \in Holders \ {h} : lock[d] = "none"

(* Lock, scan, and fwrite of "appended".                                    *)
LockAndScan(h, appended) ==
  /\ LockIsFree(h)
  /\ lock' = [lock EXCEPT ![h] = "write"]
  /\ buf' = [buf EXCEPT ![h] = appended]
  /\ UNCHANGED file

(* Faulty variants: the buffer is dropped; the file was opened "wb+"; the   *)
(* error path, which has nothing to write, returns without the unlock.      *)
UnlockUnflushed(h) ==
  /\ lock' = [lock EXCEPT ![h] = "none"]
  /\ buf' = [buf EXCEPT ![h] = << >>]
  /\ UNCHANGED file
TruncateAndUnlock(h) ==
  /\ file' = IF buf[h] = << >> THEN file ELSE buf[h]
  /\ lock' = [lock EXCEPT ![h] = "none"]
  /\ buf' = [buf EXCEPT ![h] = << >>]
FlushUnlockIfWritten(h) ==
  /\ file' = file \o buf[h]
  /\ lock' = [lock EXCEPT ![h] = IF buf[h] = << >> THEN "write" ELSE "none"]
  /\ buf' = [buf EXCEPT ![h] = << >>]

(* unlock_writing_for_file.                                                 *)
FlushAndUnlock(h) ==
  /\ file' = file \o buf[h]
  /\ lock' = [lock EXCEPT ![h] = "none"]
  /\ buf' = [buf EXCEPT ![h] = << >>]

(* The process dies: the kernel drops its lock, its buffer is lost.         *)
Die(h) ==
  /\ lock' = [lock EXCEPT ![h] = "none"]
  /\ buf' = [buf EXCEPT ![h] = << >>]
  /\ UNCHANGED file
=============================================================================
