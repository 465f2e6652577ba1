---------------------------- MODULE ClientServer ----------------------------
(***************************************************************************)
(* The client thread of the server (client_server.c, client_commands.c):   *)
(* a loop that receives one datagram, finds or creates the session of the  *)
(* address it came from, and runs the command LOGIN, MSG, P2P,             *)
(* CREATEMULTICAST or GETMULTICAST in it.                                  *)
(*                                                                         *)
(* LOGIN, MSG and P2P look a user up in user_list, keep the pointer, and   *)
(* use it afterwards.  No lock is held, so the admin thread may change     *)
(* user_list during the lookup and after it: a lookup is two steps, and    *)
(* what the second returns depends on what happened since the first.       *)
(***************************************************************************)
EXTENDS UserList

CONSTANTS
  Group,      \* multicast group names
  max_groups, \* the number of addresses in main.c's groups[]
  Operation,  \* the datagrams the clients send: [op, args], BadArgs if sscanf fails
  BadArgs,
  Garbage     \* a pointer to no record: an uninitialized one, or what a lookup finds in
              \* memory that is freed, or not yet filled, while it runs

ASSUME MaxGroupsAssumption == max_groups \in Nat
ASSUME GarbageAssumption   == Garbage \notin Address /\ Garbage # NULL
ASSUME OperationAssumption ==
  Operation \subseteq
    [op : {"LOGIN"}, args : (Username \X Password) \cup {BadArgs}]
    \cup [op : {"MSG", "P2P"}, args : Username \cup {BadArgs}]
    \cup [op : {"CREATEMULTICAST", "GETMULTICAST"}, args : Group \cup {BadArgs}]
    \cup [op : {"unknown"}, args : {BadArgs}]

VARIABLES
  sessions,       \* user_session_list: by address, NULL if it has no session
  group_list,     \* the index in groups[] of a group's address, NULL if not created
  current_group,  \* the next unused index in groups[]
  cpc,            \* where the client thread is
  request,        \* the datagram being served, and the address it came from
  seen,           \* during a lookup: what it may return
  found,          \* database_client: what the lookup returned
  out             \* the datagrams sent in answer to the request

clientVars == <<sessions, group_list, current_group, cpc, request, found, out>>

Location == Ip \X Port

ASSUME SentinelsAssumption ==
  /\ NULL \notin 0 .. max_groups - 1
  /\ NULL \notin [client : Address \cup {Garbage}, logged_in : BOOLEAN]
  /\ \A l \in Location, d \in Operation : NULL # [from |-> l, op |-> d.op, args |-> d.args]

ClientTypeOK ==
  /\ sessions \in [Location -> [client : Address \cup {Garbage}, logged_in : BOOLEAN]
                               \cup {NULL}]
  /\ group_list \in [Group -> (0 .. max_groups - 1) \cup {NULL}]
  /\ current_group \in 0 .. max_groups
  /\ cpc \in {"recvfrom", "dispatch", "lookup", "found"}
  /\ request # NULL => /\ request.from \in Location
                       /\ [op |-> request.op, args |-> request.args] \in Operation
  /\ cpc # "recvfrom" => request # NULL /\ sessions[request.from] # NULL
  /\ seen \subseteq Address \cup {NULL, Garbage}
  /\ found \in Address \cup {NULL, Garbage}

ClientInit ==
  /\ sessions = [l \in Location |-> NULL]
  /\ group_list = [g \in Group |-> NULL]
  /\ current_group = 0
  /\ cpc = "recvfrom" /\ request = NULL
  /\ seen = {} /\ found = NULL /\ out = <<>>

-----------------------------------------------------------------------------
(* Definitions whose name starts with Mutant are slips that a change of the  *)
(* code could make: a run is known to notice each of them.                   *)

(* a new address gets no session *)
Mutant_client_session(from) == sessions

(* init_client_session: the client of a new session is not initialized.      *)
init_client_session(from) ==
  IF sessions[from] # NULL THEN sessions
  ELSE [sessions EXCEPT ![from] = [client |-> Garbage, logged_in |-> FALSE]]

(* udp_server_worker: client_cmd_function reads the session's client for the *)
(* log, which prints something or ends the process (Crash, in Server).       *)
recvfrom(from, operation) ==
  /\ cpc = "recvfrom"
  /\ request' = [from |-> from, op |-> operation.op, args |-> operation.args]
  /\ sessions' = init_client_session(from)
  /\ cpc' = "dispatch" /\ found' = NULL /\ out' = <<>>
  /\ UNCHANGED <<treeVars, group_list, current_group>>

Session == sessions[request.from]

LoggedIn(location, a) ==
  /\ location \in Location /\ sessions[location] # NULL
  /\ sessions[location].logged_in /\ sessions[location].client = a

(* What a pointer leads to: its record; for one to no record, anything. *)
Read(a) == IF a = Garbage THEN client_t ELSE {heap[a]}

(* send_udp_message: to the address the request came from *)
Reply(text, about) ==
  [channel |-> "reply", to |-> request.from, text |-> text, about |-> about]

(* cmd_msg's sendto: to the port where that client listens for messages *)
Forward(to, user) ==
  [channel |-> "message", to |-> to, text |-> "MSG", about |-> user]

Serving(ops) == cpc = "dispatch" /\ request.op \in ops

Send(datagrams) == cpc' = "recvfrom" /\ out' = datagrams /\ UNCHANGED <<request, found>>

(* the message is sent, and sent again on the way out *)
MutantRefuse(text) ==
  /\ Send(<<Reply(text, NULL), Reply(text, NULL)>>)
  /\ UNCHANGED <<treeVars, sessions, group_list, current_group>>

(* The early returns of the commands: one line of text, nothing else. *)
Refuse(text) ==
  /\ Send(<<Reply(text, NULL)>>)
  /\ UNCHANGED <<treeVars, sessions, group_list, current_group>>

(* a session may log in again *)
MutantMayLogin == Serving({"LOGIN"})

MayLogin == Serving({"LOGIN"}) /\ ~Session.logged_in

NeedsLogin ==
  Serving({"MSG", "P2P", "CREATEMULTICAST", "GETMULTICAST"}) /\ ~Session.logged_in

Permitted(permission) ==
  Session.logged_in /\ \E user \in Read(Session.client) : permission \in user.perms

Denied(permission) ==
  Session.logged_in /\ \E user \in Read(Session.client) : permission \notin user.perms

PermissionFor(op) ==
  CASE op = "MSG" -> "client_server" [] op = "P2P" -> "p2p" [] OTHER -> "group"

(* MSG and P2P test the permission before the arguments, the group commands after. *)
NotPermitted ==
  /\ \/ Serving({"MSG", "P2P"})
     \/ Serving({"CREATEMULTICAST", "GETMULTICAST"}) /\ request.args # BadArgs
  /\ Denied(PermissionFor(request.op))

InvalidArguments ==
  /\ \/ MayLogin
     \/ Serving({"CREATEMULTICAST", "GETMULTICAST"}) /\ Session.logged_in
     \/ Serving({"MSG", "P2P"}) /\ Permitted(PermissionFor(request.op))
  /\ request.args = BadArgs

refuse ==
  \/ Serving({"LOGIN"}) /\ Session.logged_in /\ Refuse("already logged in")
  \/ NeedsLogin /\ Refuse("need to be logged in")
  \/ NotPermitted /\ Refuse("no permission")
  \/ InvalidArguments /\ Refuse("invalid usage")
  \/ Serving({"unknown"}) /\ Refuse("command not found")

-----------------------------------------------------------------------------
(* avl_get(user_list, ...) in cmd_login, cmd_msg and cmd_p2p *)

lookup ==
  /\ cpc = "dispatch" /\ request.args # BadArgs
  /\ \/ MayLogin
     \/ Serving({"MSG", "P2P"}) /\ Permitted(PermissionFor(request.op))
  /\ cpc' = "lookup"
  /\ UNCHANGED <<treeVars, sessions, group_list, current_group, request, found, out>>

Sought == IF request.op = "LOGIN" THEN request.args[1] ELSE request.args

lookup_returns ==
  /\ cpc = "lookup"
  /\ found' \in seen
  /\ cpc' = "found"
  /\ UNCHANGED <<treeVars, sessions, group_list, current_group, request, out>>

(* MSG and P2P forget to answer *)
Mutant_not_found ==
  /\ cpc = "found" /\ found = NULL /\ request.op = "LOGIN"
  /\ Refuse("user not found")

user_not_found ==
  /\ cpc = "found" /\ found = NULL
  /\ Refuse("user not found")

(* the port is recorded at the first login of a user only *)
MutantRecordPort ==
  IF \E l \in Location : LoggedIn(l, found)
  THEN UNCHANGED heap
  ELSE heap' = [heap EXCEPT ![found].port = request.from[2]]

(* The ip that is written is the one the test before has found there.  What *)
(* is written through Garbage is no record of the heap (see Server).        *)
RecordPort ==
  IF found = Garbage THEN UNCHANGED heap
  ELSE heap' = [heap EXCEPT ![found].port = request.from[2], ![found].ip = request.from[1]]

(* cmd_login, with the record found: the session keeps a pointer to the       *)
(* record, the record keeps the port of the session that logged in last.      *)
cmd_login ==
  /\ cpc = "found" /\ request.op = "LOGIN" /\ found # NULL
  /\ \E user \in Read(found) :
     \/ user.ip # request.from[1] /\ Refuse("different ip")
     \/ user.ip = request.from[1] /\ user.password # request.args[2] /\ Refuse("wrong password")
     \/ /\ user.ip = request.from[1] /\ user.password = request.args[2]
        /\ sessions' = [sessions EXCEPT ![request.from] = [client |-> found, logged_in |-> TRUE]]
        /\ RecordPort
        /\ Send(<<Reply("login", NULL), Reply("port", request.from[2]),
                  Reply("permissions", user.perms)>>)
        /\ UNCHANGED <<data, root, left, right, group_list, current_group>>

(* the sender instead of the user *)
MutantLocation(user) == request.from

(* Where cmd_msg and cmd_p2p look for the session of the user: at the address *)
(* on record.  Whose session it is they do not ask.                           *)
RecordedLocation(user) == <<user.ip, user.port>>

HasSession(location) == location \in Location /\ sessions[location] # NULL

session_not_found ==
  /\ cpc = "found" /\ request.op \in {"MSG", "P2P"} /\ found # NULL
  /\ \E user \in Read(found) : ~HasSession(RecordedLocation(user))
  /\ Refuse("session not found")

cmd_msg ==
  /\ cpc = "found" /\ request.op = "MSG" /\ found # NULL
  /\ \E user \in Read(found) :
       /\ HasSession(RecordedLocation(user))
       /\ Send(<<Forward(RecordedLocation(user), request.args), Reply("sent", NULL)>>)
  /\ UNCHANGED <<treeVars, sessions, group_list, current_group>>

cmd_p2p ==
  /\ cpc = "found" /\ request.op = "P2P" /\ found # NULL
  /\ \E user \in Read(found) :
       /\ HasSession(RecordedLocation(user))
       /\ Send(<<Reply("location", RecordedLocation(user))>>)
  /\ UNCHANGED <<treeVars, sessions, group_list, current_group>>

-----------------------------------------------------------------------------
(* Multicast groups: the name is new and an address is left, or it fails. *)

(* one address more than there are *)
MutantAddressLeft == current_group <= max_groups

AddressLeft == current_group < max_groups

(* the address is not used up *)
MutantUseAddress == UNCHANGED current_group

UseAddress == current_group' = current_group + 1

ServingGroup(op) ==
  Serving({op}) /\ request.args # BadArgs /\ Permitted("group")

cmd_createmulticast ==
  /\ ServingGroup("CREATEMULTICAST")
  /\ \/ group_list[request.args] # NULL /\ Refuse("duplicated group")
     \/ /\ group_list[request.args] = NULL /\ AddressLeft
        /\ group_list' = [group_list EXCEPT ![request.args] = current_group]
        /\ UseAddress
        /\ Send(<<Reply("group", current_group)>>)
        /\ UNCHANGED <<treeVars, sessions>>
     \/ /\ group_list[request.args] = NULL /\ ~AddressLeft
        /\ Refuse("no more groups")

(* a group that is not there is met with silence *)
Mutant_getmulticast ==
  /\ ServingGroup("GETMULTICAST")
  /\ Send(IF group_list[request.args] = NULL THEN <<>>
          ELSE <<Reply("multicast ip", group_list[request.args])>>)
  /\ UNCHANGED <<treeVars, sessions, group_list, current_group>>

cmd_getmulticast ==
  /\ ServingGroup("GETMULTICAST")
  /\ \/ group_list[request.args] = NULL /\ Refuse("group not found")
     \/ /\ group_list[request.args] # NULL
        /\ Send(<<Reply("multicast ip", group_list[request.args])>>)
        /\ UNCHANGED <<treeVars, sessions, group_list, current_group>>

-----------------------------------------------------------------------------

(* The rest of the loop's turn, once a datagram has been received *)
ClientProgress ==
  \/ refuse \/ lookup \/ lookup_returns \/ user_not_found
  \/ cmd_login \/ session_not_found \/ cmd_msg \/ cmd_p2p
  \/ cmd_createmulticast \/ cmd_getmulticast

ClientStep ==
  \/ \E from \in Location, operation \in Operation : recvfrom(from, operation)
  \/ ClientProgress

(* seen, as long as nothing changes the tree during a lookup.  Module Server *)
(* has the rule for the two threads together.                                *)
Undisturbed == seen' = IF cpc' = "lookup" THEN {avl_get(Sought)} ELSE {}

-----------------------------------------------------------------------------
(* Properties *)

(***************************************************************************)
(* A message, and the location P2P answers, go to the session of the user  *)
(* they were asked for, provided that user has logged in since the server  *)
(* was started; until then they go to whatever session is at the address   *)
(* on record.  The user was looked up by this very request.  Nothing is    *)
(* said of a lookup that ended at no record.                               *)
(***************************************************************************)
AddressedToUser ==
  \A i \in DOMAIN out :
    LET to == IF out[i].text = "location" THEN out[i].about ELSE out[i].to IN
    (out[i].channel = "message" \/ out[i].text = "location") /\ found # Garbage =>
      /\ heap[found].username = request.args
      /\ to[1] = heap[found].ip
      /\ (\E l \in Location : LoggedIn(l, found)) => LoggedIn(to, found)

(***************************************************************************)
(* Every request is answered to its sender, with exactly one datagram, or  *)
(* with the three of a successful LOGIN, in the order the client reads     *)
(* them: a client waits in recvfrom for precisely these.  A session that   *)
(* is not logged in, whose client pointer leads nowhere, gets a refusal,   *)
(* and nothing is sent for it.                                             *)
(***************************************************************************)
AnswerShape ==
  cpc = "recvfrom" /\ request # NULL =>
    LET replies == {i \in DOMAIN out : out[i].channel = "reply"} IN
    /\ \A i \in replies : out[i].to = request.from
    /\ \/ \E i \in DOMAIN out : replies = {i} /\ out[i].text # "login"
       \/ /\ request.op = "LOGIN" /\ replies = 1 .. 3
          /\ out[1].text = "login"
          /\ out[2].text = "port" /\ out[2].about = request.from[2]
          /\ out[3].text = "permissions"
    /\ Session.logged_in \/
         \A i \in DOMAIN out : out[i].text \notin {"login", "MSG", "location", "group", "multicast ip"}

(***************************************************************************)
(* Groups share no multicast address, and the addresses given out are the  *)
(* first current_group of groups[]: none is skipped or given out twice.    *)
(***************************************************************************)
GroupsSound ==
  LET created == {g \in Group : group_list[g] # NULL} IN
  /\ {group_list[g] : g \in created} = 0 .. current_group - 1
  /\ \A g, h \in created : group_list[g] = group_list[h] => g = h

=============================================================================
