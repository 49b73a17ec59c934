------------------------------ MODULE Register ------------------------------
(***************************************************************************)
(* What users.dat and rooms.dat promise, with no processes and no locks: a *)
(* list of entries <<name, content>> in which a name, once entered, stays  *)
(* with its content and is refused to everybody else.  Only while the      *)
(* system is shut down may the whole list be replaced.                     *)
(***************************************************************************)
EXTENDS Sequences

CONSTANT FirstEntries    \* the lists it may start from or be replaced with

VARIABLES
  entries,
  open            \* is anything running

regVars == <<entries, open>>

RegInit == entries \in FirstEntries /\ open \in BOOLEAN

Taken(name) == \E i \in DOMAIN entries : entries[i][1] = name

(* Any entry whose name is free may come next, whatever its content.        *)
Enter ==
  /\ open /\ entries' # << >>
  /\ LET entry == entries'[Len(entries')]
     IN  entries' = Append(entries, entry) /\ ~Taken(entry[1])
  /\ UNCHANGED open

Replace ==
  /\ ~open
  /\ entries' \in FirstEntries
  /\ UNCHANGED open

OpenOrShut == open' \in BOOLEAN /\ UNCHANGED entries

RegNext == Enter \/ Replace \/ OpenOrShut

RegSpec == RegInit /\ [][RegNext]_regVars
=============================================================================
