------------------------------ MODULE MCServer ------------------------------
(* Users 1 and 2 may be registered on one host, with the same password, so  *)
(* that each can log in from every address of that host.                    *)
EXTENDS Server, TLC

CONSTANTS host, pw

MCRegistration ==
  {[username |-> u, password |-> pw, ip |-> host, perms |-> {"client_server"}] : u \in Username}

MCOperation ==
  [op : {"LOGIN"}, args : Username \X {pw}] \cup [op : {"MSG"}, args : Username]

(* for the run of the liveness properties: requests about user 1 only, while the *)
(* admin adds and deletes both                                                   *)
MCFewOperations ==
  [op : {"LOGIN"}, args : {<<1, pw>>}] \cup [op : {"MSG"}, args : {1}]

(* malloc's results, and the ports of a host, differ in nothing but their identity *)
MCSymmetry == Permutations(Address) \cup Permutations(Port)

(* What the steps read of a state.  exit decides only whether an unknown command *)
(* may close the connection, which the admin may do as well; nothing reads the   *)
(* answer to the admin, where main's load ended, and what was sent for a request *)
(* that is served.                                                               *)
MCState ==
  <<treeVars, phase, IF phase = "loading" THEN next ELSE 1, file, conn, apc, pending, copy,
    deleting, unwritten, sessions, latest, account, cpc,
    IF cpc = "recvfrom" THEN <<>> ELSE <<request, seen, raced, found>> >>

(* ... and, of what was sent, whether it is what the property of each run says: *)
(* until the next request neither the sessions nor their records change.        *)
MCView == <<MCState, AddressedUnlessRaced>>

MCViewMessage == <<MCState, MessageGoesToUser>>

MCViewRace == <<MCState, AddressedToUser>>

=============================================================================
