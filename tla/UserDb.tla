-------------------------------- MODULE UserDb --------------------------------
(***************************************************************************)
(* What the user database promises to the rest of the system, with neither *)
(* tree nor file: a set of user names that admins extend and shrink, and   *)
(* that outlives the process.  It promises less than a reader of the       *)
(* command names would expect:                                             *)
(*   - a deletion may leave the user in place, but only a user with other  *)
(*     users on both sides of it in the order;                             *)
(*   - while a deletion is being written out the whole table is in doubt:  *)
(*     a crash then may lose any of its users, or bring the deleted one    *)
(*     back.                                                               *)
(* At all other times no user appears or disappears by itself.             *)
(***************************************************************************)
EXTENDS Integers

CONSTANT Username

VARIABLES
  users,    \* the registered users
  inDoubt   \* while a deletion is written out: the users a crash may keep

vars == <<users, inDoubt>>

TypeOK == users \subseteq Username /\ inDoubt \subseteq Username

Init == users = {} /\ inDoubt = {}

Create(u) ==
  /\ inDoubt = {}
  /\ u \notin users
  /\ users' = users \cup {u}
  /\ UNCHANGED inDoubt

Removable(u) == ~ \E v, w \in users : v < u /\ u < w

Delete(u) ==
  /\ inDoubt = {}
  /\ u \in users
  /\ users' = users \ {u} \/ (users' = users /\ ~Removable(u))
  /\ inDoubt' = users

CommitDelete ==
  /\ inDoubt # {}
  /\ inDoubt' = {}
  /\ UNCHANGED users

CrashInDelete ==
  /\ inDoubt # {}
  /\ users' \in SUBSET inDoubt
  /\ inDoubt' = {}

Next ==
  \/ \E u \in Username : Create(u) \/ Delete(u)
  \/ CommitDelete
  \/ CrashInDelete

Spec == Init /\ [][Next]_vars

=============================================================================
