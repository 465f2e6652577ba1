------------------------------- MODULE Server -------------------------------
(***************************************************************************)
(* The server process: main, the admin thread and the client thread on one *)
(* user_list, without locks, over any number of lives of the process.      *)
(***************************************************************************)
EXTENDS AdminServer, ClientServer

VARIABLES
  raced,    \* a removal overlapped the lookup of the request
  \* what has been, for the properties:
  latest,   \* latest[a]: where the last login to the record at a came from, NULL if none
  account   \* account[l]: the name and password l logged in with, Garbage if that was raced

serverVars == <<treeVars, adminVars, clientVars, seen, raced, latest, account>>

ASSUME HistoryAssumption == NULL \notin Location \cup (Username \X Password)

ServerInit ==
  /\ AdminInit /\ ClientInit /\ raced = FALSE
  /\ latest = [a \in Address |-> NULL] /\ account = [l \in Location |-> NULL]

(* What a lookup may return, as module AvlTree finds it: the record, or NULL,  *)
(* as the user is in the tree or not at some moment of the lookup.  When the   *)
(* removal of a node with at most one child overlaps it: also NULL, the record *)
(* of that child, and, as the node is freed and malloc may hand it out again   *)
(* to an ADD, that ADD's copied record, or a pointer to no record: the one     *)
(* cmd_add made and frees, or the copy before it is filled.  A lookup that     *)
(* reads freed memory may also end the process, which Crash covers.            *)
UnlinkUnderWay == apc = "unlink" /\ ~HasTwoChildren(deleting)

Strays ==
  IF UnlinkUnderWay
  THEN {NULL} \cup (IF OnlyChild(deleting) # NULL THEN {data[OnlyChild(deleting)]} ELSE {})
  ELSE {}

Overlap ==
  IF cpc' = "lookup"
  THEN /\ raced' = (raced \/ UnlinkUnderWay')
       /\ seen' = seen \cup {avl_get(Sought)'} \cup Strays'
                      \cup (IF raced' THEN {Garbage, copy'} ELSE {})
  ELSE /\ raced' = (cpc' # "dispatch" /\ raced)
       /\ seen' = {}

(* A login whose lookup ended at the record cmd_add made, before new_avl_node *)
(* has copied it: the port it writes is copied with the rest.                 *)
LoginBeforeCopy ==
  /\ cmd_login /\ found = Garbage /\ sessions' # sessions
  /\ apc = "insert" /\ pending' = [pending EXCEPT !.port = request.from[2]]
  /\ UNCHANGED <<phase, next, file, conn, exit, apc, copy, deleting, unwritten, answer>>

(* The logins that are remembered are those the client was told of. *)
LoginAnswered == cpc = "found" /\ cpc' = "recvfrom" /\ out'[1].text = "login"

Remember ==
  IF LoginAnswered
  THEN /\ latest' = IF found = Garbage THEN latest ELSE [latest EXCEPT ![found] = request.from]
       /\ account' = [account EXCEPT ![request.from] = IF raced THEN Garbage ELSE request.args]
  ELSE UNCHANGED <<latest, account>>

(* The sessions, the groups and what was being served die with the process. *)
ServerCrash ==
  /\ Crash
  /\ sessions' = [l \in Location |-> NULL]
  /\ group_list' = [g \in Group |-> NULL]
  /\ current_group' = 0
  /\ cpc' = "recvfrom" /\ request' = NULL /\ found' = NULL /\ out' = <<>>
  /\ latest' = [a \in Address |-> NULL] /\ account' = [l \in Location |-> NULL]

ServerNext ==
  /\ \/ AdminStep /\ UNCHANGED <<clientVars, latest, account>>
     \/ phase = "running" /\ ClientStep /\ UNCHANGED adminVars /\ Remember
     \/ phase = "running" /\ LoginBeforeCopy /\ Remember
     \/ ServerCrash
  /\ Overlap

(* Both threads run; datagrams and admins come or do not come. *)
ServerFairness ==
  /\ WF_serverVars((LoadRecord \/ StartThreads) /\ UNCHANGED <<clientVars, latest, account>> /\ Overlap)
  /\ WF_serverVars(AdminProgress /\ UNCHANGED <<clientVars, latest, account>> /\ Overlap)
  /\ WF_serverVars(ClientProgress /\ UNCHANGED adminVars /\ Remember /\ Overlap)

ServerSpec == ServerInit /\ [][ServerNext]_serverVars /\ ServerFairness

-----------------------------------------------------------------------------
(* Properties *)

ServerTypeOK == AdminTypeOK /\ ClientTypeOK

(***************************************************************************)
(* A session that is logged in points to an allocated record that has the  *)
(* name and the password it logged in with and its own ip, even after the  *)
(* admin has deleted that user or registered the name anew; and a lookup   *)
(* has found NULL or an allocated record of the name sought.  Excepted is  *)
(* a LOGIN or a lookup that a removal overlapped.                          *)
(***************************************************************************)
SessionsSound ==
  /\ cpc = "found" /\ found # NULL /\ ~raced =>
       found \in Address /\ heap[found] # NULL /\ heap[found].username = Sought
  /\ \A l \in Location : sessions[l] # NULL /\ sessions[l].logged_in =>
       /\ account[l] # NULL
       /\ account[l] # Garbage =>
            LET client == sessions[l].client IN
            /\ client \in Address /\ heap[client] # NULL /\ heap[client].ip = l[1]
            /\ account[l] = <<heap[client].username, heap[client].password>>

(***************************************************************************)
(* The ip and port kept in a record are those of the latest login to it    *)
(* since the server was started, and lead to a session logged in with it,  *)
(* however many sessions the user has and whoever else logged in from the  *)
(* same host; a record without a latest login is no session's.             *)
(***************************************************************************)
LoginsReachable ==
  \A a \in Address :
    IF latest[a] = NULL
    THEN ~ \E l \in Location : LoggedIn(l, a)
    ELSE LoggedIn(latest[a], a) /\ latest[a] = <<heap[a].ip, heap[a].port>>

(***************************************************************************)
(* As long as the process lives, a session once logged in stays logged in  *)
(* as the same account, whatever the admin does to the user and whoever    *)
(* sends from that address: there is no logout, and deleting a user does   *)
(* not end its sessions.  The account is kept for those that are logged in *)
(* with a record of the heap, which only a raced login is not.             *)
(***************************************************************************)
IdentityKept ==
  [][\A l \in Location :
       phase' = "running" /\ sessions[l] # NULL /\ sessions[l].logged_in =>
         /\ sessions'[l] = sessions[l]
         /\ sessions[l].client \in Address =>
              Account(heap'[sessions[l].client]) = Account(heap[sessions[l].client])]_serverVars

(***************************************************************************)
(* A record, once new_avl_node has made it, is changed by a LOGIN that     *)
(* found it and by nothing else, and only in its port: the ip that LOGIN   *)
(* writes as well is the one the record has.  So what DEL's rewrite reads  *)
(* of a record while a LOGIN writes it is the same before and after, but   *)
(* for the port.                                                           *)
(***************************************************************************)
OneWriter ==
  [][\A a \in Address :
       heap[a] # NULL /\ heap'[a] # heap[a] /\ phase' = "running" =>
         /\ cpc = "found" /\ found = a
         /\ Account(heap'[a]) = Account(heap[a])]_serverVars

(***************************************************************************)
(* AddressedToUser, for the lookups no removal overlapped.  The others may *)
(* end at the record of another user, the child of the removed node or one *)
(* added since, and then a message goes to that user.                      *)
(***************************************************************************)
AddressedUnlessRaced == raced \/ AddressedToUser

(***************************************************************************)
(* "MSG USER MESSAGE..." (client_commands.c): the message is for USER, so  *)
(* it does not go to a session that is logged in as somebody else, even    *)
(* when the lookup went well.                                              *)
(***************************************************************************)
MessageGoesToUser ==
  \A i \in DOMAIN out :
    ~raced /\ out[i].channel = "message" =>
      LET there == sessions[out[i].to] IN
      there.logged_in /\ there.client # Garbage => heap[there.client].username = out[i].about

(***************************************************************************)
(* Every request received is answered, unless the process ends first.      *)
(***************************************************************************)
RequestsEnd == cpc # "recvfrom" ~> cpc = "recvfrom"

=============================================================================
