-------------------------- MODULE ClientServerProofs --------------------------
(***************************************************************************)
(* The client thread on any heap of records, whoever else changes it: what *)
(* each of its steps does, and what the steps keep of the types, the       *)
(* logins, the groups, the answers and their addressees.  ServerProofs     *)
(* uses it beside the admin thread, ChatProofs beside clients and network. *)
(***************************************************************************)
EXTENDS ClientServer, TLAPS

-----------------------------------------------------------------------------
(* The steps of the client thread, by what they change *)

HeapTyped == heap \in [Address -> client_t \cup {NULL}]

GroupsStay == UNCHANGED <<group_list, current_group>>

NewRequest ==
  \E from \in Location, operation \in Operation : recvfrom(from, operation)

(* The one step that writes a record *)
LoginSucceeds ==
  /\ cpc = "found" /\ request.op = "LOGIN" /\ found # NULL
  /\ sessions' = [sessions EXCEPT ![request.from] = [client |-> found, logged_in |-> TRUE]]
  /\ RecordPort
  /\ UNCHANGED <<data, root, left, right, group_list, current_group>>
  /\ \E user \in Read(found) :
       /\ user.ip = request.from[1] /\ user.password = request.args[2]
       /\ Send(<<Reply("login", NULL), Reply("port", request.from[2]),
                 Reply("permissions", user.perms)>>)

(* A step that answers: nothing but cpc, out, and maybe the groups, changes. *)
Answers(text, about) ==
  /\ cpc # "recvfrom" /\ UNCHANGED <<treeVars, sessions>>
  /\ Send(<<Reply(text, about)>>)

CreatesGroup ==
  /\ request.op = "CREATEMULTICAST" /\ request.args # BadArgs /\ Session.logged_in
  /\ group_list[request.args] = NULL /\ AddressLeft
  /\ group_list' = [group_list EXCEPT ![request.args] = current_group]
  /\ UseAddress
  /\ Answers("group", current_group)

TellsGroup ==
  /\ request.op = "GETMULTICAST" /\ request.args # BadArgs /\ Session.logged_in
  /\ group_list[request.args] # NULL
  /\ Answers("multicast ip", group_list[request.args]) /\ GroupsStay

(* the texts that the client programs take for something else than a failure *)
Telling == {"login", "port", "permissions", "location", "group", "multicast ip", "MSG"}

Declines == GroupsStay /\ \E text : text \notin Telling /\ Answers(text, NULL)

LEMMA RefuseDeclines ==
  ASSUME NEW text, Refuse(text), cpc # "recvfrom", text \notin Telling
  PROVE  Declines
  BY DEF Refuse, Answers, Declines, GroupsStay

LEMMA ClientCases ==
  ASSUME ClientStep
  PROVE  \/ NewRequest \/ lookup \/ lookup_returns
         \/ LoginSucceeds \/ cmd_msg \/ cmd_p2p
         \/ CreatesGroup \/ TellsGroup \/ Declines
  <1>1. CASE NewRequest
    BY <1>1
  <1>2. CASE refuse
    <2>1. \E text : Refuse(text) /\ text \notin Telling /\ cpc # "recvfrom"
      BY <1>2 DEF refuse, Serving, NeedsLogin, NotPermitted, InvalidArguments, MayLogin, Telling,
                  Denied
    <2> QED
      BY <2>1, RefuseDeclines
  <1>3. CASE user_not_found
    BY <1>3, RefuseDeclines DEF user_not_found, Telling
  <1>4. CASE session_not_found
    BY <1>4, RefuseDeclines DEF session_not_found, Telling
  <1>5. CASE cmd_login
    <2>1. CASE Refuse("different ip") \/ Refuse("wrong password")
      BY <1>5, <2>1, RefuseDeclines DEF cmd_login, Telling
    <2>2. CASE ~(Refuse("different ip") \/ Refuse("wrong password"))
      BY <1>5, <2>2 DEF cmd_login, LoginSucceeds
    <2> QED
      BY <2>1, <2>2
  <1>6. CASE cmd_createmulticast
    <2>1. /\ cpc # "recvfrom" /\ request.op = "CREATEMULTICAST" /\ request.args # BadArgs
          /\ Session.logged_in
      BY <1>6 DEF cmd_createmulticast, ServingGroup, Serving, Permitted
    <2>2. CASE Refuse("duplicated group") \/ Refuse("no more groups")
      BY <2>1, <2>2, RefuseDeclines DEF Telling
    <2>3. CASE ~(Refuse("duplicated group") \/ Refuse("no more groups"))
      BY <1>6, <2>1, <2>3 DEF cmd_createmulticast, CreatesGroup, Answers
    <2> QED
      BY <2>2, <2>3
  <1>7. CASE cmd_getmulticast
    <2>1. /\ cpc # "recvfrom" /\ request.op = "GETMULTICAST" /\ request.args # BadArgs
          /\ Session.logged_in
      BY <1>7 DEF cmd_getmulticast, ServingGroup, Serving, Permitted
    <2>2. CASE Refuse("group not found")
      BY <2>1, <2>2, RefuseDeclines DEF Telling
    <2>3. CASE ~Refuse("group not found")
      BY <1>7, <2>1, <2>3 DEF cmd_getmulticast, TellsGroup, Answers, GroupsStay
    <2> QED
      BY <2>2, <2>3
  <1> QED
    BY <1>1, <1>2, <1>3, <1>4, <1>5, <1>6, <1>7 DEF ClientStep, ClientProgress, NewRequest

-----------------------------------------------------------------------------
(* Types *)

LEMMA RequestTyped ==
  ASSUME ClientTypeOK, cpc # "recvfrom"
  PROVE  /\ request # NULL /\ request.from \in Location /\ sessions[request.from] # NULL
         /\ request.args # BadArgs =>
              /\ request.op = "LOGIN" => request.args \in Username \X Password
              /\ request.op \in {"MSG", "P2P"} => request.args \in Username
              /\ request.op \in {"CREATEMULTICAST", "GETMULTICAST"} => request.args \in Group
         /\ request.args # BadArgs /\ request.op \in {"LOGIN", "MSG", "P2P"} =>
              Sought \in Username
  <1>1. /\ request # NULL /\ request.from \in Location /\ sessions[request.from] # NULL
        /\ [op |-> request.op, args |-> request.args] \in Operation
    BY DEF ClientTypeOK
  <1>2. request.args # BadArgs =>
          /\ request.op = "LOGIN" => request.args \in Username \X Password
          /\ request.op \in {"MSG", "P2P"} => request.args \in Username
          /\ request.op \in {"CREATEMULTICAST", "GETMULTICAST"} => request.args \in Group
    BY <1>1, OperationAssumption
  <1> QED
    BY <1>1, <1>2 DEF Sought

(* A new datagram: its session is made if it is missing. *)
LEMMA ReceiveKeepsTypes ==
  ASSUME ClientTypeOK, NEW from \in Location, NEW operation,
         [op |-> operation.op, args |-> operation.args] \in Operation,
         recvfrom(from, operation), seen' \subseteq Address \cup {NULL, Garbage}
  PROVE  /\ ClientTypeOK'
         /\ \A l \in Location \ {from} : sessions'[l] = sessions[l]
         /\ sessions[from] # NULL => sessions' = sessions
         /\ sessions[from] = NULL => ~sessions'[from].logged_in
  <1> DEFINE new == [client |-> Garbage, logged_in |-> FALSE]
  <1>1. /\ new \in [client : Address \cup {Garbage}, logged_in : BOOLEAN]
        /\ ~new.logged_in
    OBVIOUS
  <1>2. new # NULL
    <2> HIDE DEF new
    <2> QED
      BY <1>1, SentinelsAssumption
  <1> HIDE DEF new
  <1>3. IF sessions[from] # NULL THEN sessions' = sessions
        ELSE sessions' = [sessions EXCEPT ![from] = new]
    BY DEF recvfrom, init_client_session, new
  <1>4. /\ sessions' \in [Location -> [client : Address \cup {Garbage}, logged_in : BOOLEAN]
                                      \cup {NULL}]
        /\ sessions'[from] # NULL
        /\ \A l \in Location \ {from} : sessions'[l] = sessions[l]
        /\ sessions[from] = NULL => sessions'[from] = new
    BY <1>1, <1>2, <1>3 DEF ClientTypeOK
  <1> DEFINE o == [op |-> operation.op, args |-> operation.args]
  <1>5. /\ request' = [from |-> from, op |-> operation.op, args |-> operation.args]
        /\ cpc' = "dispatch" /\ found' = NULL
        /\ UNCHANGED <<group_list, current_group>>
    BY DEF recvfrom
  <1>6. request' # NULL
    <2>1. o \in Operation /\ request' = [from |-> from, op |-> o.op, args |-> o.args]
      BY <1>5
    <2> HIDE DEF o
    <2> QED
      BY <2>1, SentinelsAssumption
  <1>7. /\ request'.from = from /\ request'.op = operation.op /\ request'.args = operation.args
    BY <1>5
  <1>8. ClientTypeOK'
    BY <1>4, <1>5, <1>6, <1>7 DEF ClientTypeOK
  <1> QED
    BY <1>1, <1>3, <1>4, <1>8

LEMMA ClientKeepsTypes ==
  ASSUME ClientTypeOK, ClientStep, seen' \subseteq Address \cup {NULL, Garbage}
  PROVE  ClientTypeOK'
  <1>1. CASE NewRequest
    <2>1. PICK from \in Location, operation \in Operation : recvfrom(from, operation)
      BY <1>1 DEF NewRequest
    <2>2. [op |-> operation.op, args |-> operation.args] = operation
      BY OperationAssumption
    <2> QED
      BY <2>1, <2>2, ReceiveKeepsTypes
  <1> USE DEF ClientTypeOK
  <1>2. CASE lookup
    BY <1>2 DEF lookup, MayLogin, Serving
  <1>3. CASE lookup_returns
    BY <1>3 DEF lookup_returns
  <1>4. CASE LoginSucceeds
    <2>1. request # NULL /\ request.from \in Location
      BY <1>4, RequestTyped DEF LoginSucceeds
    <2>2. [client |-> found, logged_in |-> TRUE]
            \in [client : Address \cup {Garbage}, logged_in : BOOLEAN]
      BY <1>4 DEF LoginSucceeds
    <2>3. sessions' \in [Location -> [client : Address \cup {Garbage}, logged_in : BOOLEAN]
                                     \cup {NULL}]
      BY <1>4, <2>1, <2>2 DEF LoginSucceeds
    <2> QED
      BY <1>4, <2>3 DEF LoginSucceeds, Send
  <1>5. CASE cmd_msg \/ cmd_p2p
    BY <1>5 DEF cmd_msg, cmd_p2p, Send
  <1>6. CASE Declines \/ TellsGroup
    BY <1>6 DEF Declines, TellsGroup, Answers, Send, GroupsStay
  <1>7. CASE CreatesGroup
    <2>1. request.args \in Group
      BY <1>7, RequestTyped DEF Answers, CreatesGroup
    <2>2. current_group \in 0 .. max_groups - 1 /\ current_group' \in 0 .. max_groups
      BY <1>7, MaxGroupsAssumption DEF CreatesGroup, AddressLeft, UseAddress
    <2>3. group_list' \in [Group -> (0 .. max_groups - 1) \cup {NULL}]
      BY <1>7, <2>1, <2>2 DEF CreatesGroup
    <2> QED
      BY <1>7, <2>2, <2>3 DEF CreatesGroup, Answers, Send
  <1> QED
    BY <1>1, <1>2, <1>3, <1>4, <1>5, <1>6, <1>7, ClientCases

-----------------------------------------------------------------------------
(* Pointers and names: from the dispatch of a command to its answer *)

(* A lookup is one of a command that needs it, in a session that may give the *)
(* command, and pointers into the heap lead to records.                       *)
Pointers ==
  /\ found \in Address => heap[found] # NULL
  /\ cpc # "lookup" => seen = {}
  /\ \A a \in seen \cap Address : heap[a] # NULL
  /\ cpc \in {"lookup", "found"} =>
       /\ request.op \in {"LOGIN", "MSG", "P2P"} /\ request.args # BadArgs
       /\ request.op = "LOGIN" => ~Session.logged_in
       /\ request.op # "LOGIN" => Session.logged_in

(* What a lookup may return, and what it has returned, has the name sought. *)
NamesSought ==
  /\ cpc = "lookup" => \A a \in seen \ {NULL} : a \in Address /\ heap[a].username = Sought
  /\ cpc = "found" /\ found # NULL => found \in Address /\ heap[found].username = Sought

(* Records keep their names from a step to the next. *)
NamesStay ==
  \A a \in Address : heap[a] # NULL => heap'[a] # NULL /\ heap'[a].username = heap[a].username

LEMMA ClientKeepsPointers ==
  ASSUME ClientTypeOK, Pointers, ClientStep, NamesStay, cpc' # "lookup" => seen' = {},
         \A a \in seen' \cap Address : heap'[a] # NULL
  PROVE  Pointers'
  <1>1. found \in Address => heap'[found] # NULL
    BY DEF Pointers, NamesStay
  <1>2. CASE NewRequest
    BY <1>2, AddressAssumption DEF NewRequest, recvfrom, Pointers
  <1>3. CASE lookup
    <2>1. Session' = Session
      BY <1>3 DEF lookup, Session
    <2> QED
      BY <1>1, <1>3, <2>1 DEF lookup, MayLogin, Serving, Permitted, Pointers
  <1>4. CASE lookup_returns
    <2>1. Session' = Session
      BY <1>4 DEF lookup_returns, Session
    <2>2. found' \in seen /\ heap' = heap
      BY <1>4 DEF lookup_returns, treeVars
    <2> QED
      BY <1>4, <2>1, <2>2 DEF lookup_returns, Pointers
  <1>5. CASE LoginSucceeds \/ cmd_msg \/ cmd_p2p \/ CreatesGroup \/ TellsGroup \/ Declines
    <2>1. cpc' = "recvfrom" /\ UNCHANGED found
      BY <1>5 DEF LoginSucceeds, cmd_msg, cmd_p2p, CreatesGroup, TellsGroup, Declines, Answers, Send
    <2> QED
      BY <1>1, <2>1 DEF Pointers
  <1> QED
    BY <1>2, <1>3, <1>4, <1>5, ClientCases

LEMMA ClientKeepsNames ==
  ASSUME NamesSought, ClientStep,
         cpc' = "lookup" => \A a \in seen' \ {NULL} : a \in Address /\ heap'[a].username = Sought'
  PROVE  NamesSought'
  <1>1. CASE lookup_returns
    <2>1. Sought' = Sought /\ heap' = heap
      BY <1>1 DEF lookup_returns, Sought, treeVars
    <2> QED
      BY <1>1, <2>1 DEF lookup_returns, NamesSought
  <1>2. CASE cpc' # "found"
    BY <1>2 DEF NamesSought
  <1>3. cpc' = "found" => lookup_returns
    BY ClientCases DEF NewRequest, recvfrom, lookup, LoginSucceeds, cmd_msg, cmd_p2p, CreatesGroup,
                       TellsGroup, Declines, Answers, Send
  <1> QED
    BY <1>1, <1>2, <1>3

-----------------------------------------------------------------------------
(* Sessions and logins *)

(* Records that are in use stay as they are. *)
RecordsStay == \A a \in Address : heap[a] # NULL => heap'[a] = heap[a]

(* A session that is logged in with a record is at the ip of that record. *)
Leads ==
  \A l \in Location :
    sessions[l] # NULL /\ sessions[l].logged_in /\ sessions[l].client \in Address =>
      heap[sessions[l].client] # NULL /\ heap[sessions[l].client].ip = l[1]

(* A record that sessions are logged in with has the location of one of them. *)
Reaches ==
  \A a \in Address :
    (\E l \in Location : LoggedIn(l, a)) => LoggedIn(<<heap[a].ip, heap[a].port>>, a)

LoginsSound == Leads /\ Reaches

(* No session is changed that was logged in, and none is logged in anew. *)
LoginsStay ==
  \A l \in Location :
    (sessions[l] # NULL /\ sessions[l].logged_in) \/ (sessions'[l] # NULL /\ sessions'[l].logged_in)
      => sessions'[l] = sessions[l]

LEMMA StayingLoginsSound ==
  ASSUME LoginsSound, RecordsStay, LoginsStay
  PROVE  LoginsSound'
  <1>1. \A l \in Location, a \in Address :
          LoggedIn(l, a) => heap[a] # NULL /\ heap'[a] = heap[a]
    BY DEF LoginsSound, Leads, LoggedIn, RecordsStay
  <1>2. Leads'
    <2> SUFFICES ASSUME NEW l \in Location, sessions'[l] # NULL, sessions'[l].logged_in,
                        sessions'[l].client \in Address
                 PROVE  /\ heap'[sessions'[l].client] # NULL
                        /\ heap'[sessions'[l].client].ip = l[1]
      BY DEF Leads
    <2>1. sessions'[l] = sessions[l] /\ sessions[l] # NULL /\ sessions[l].logged_in
      BY DEF LoginsStay
    <2>2. heap[sessions[l].client] # NULL /\ heap[sessions[l].client].ip = l[1]
      BY <2>1 DEF LoginsSound, Leads
    <2> QED
      BY <2>1, <2>2 DEF RecordsStay
  <1>3. Reaches'
    <2> SUFFICES ASSUME NEW a \in Address, NEW l \in Location, LoggedIn(l, a)'
                 PROVE  LoggedIn(<<heap[a].ip, heap[a].port>>, a)'
      BY DEF Reaches
    <2>1. LoggedIn(l, a)
      BY DEF LoginsStay, LoggedIn
    <2>2. LoggedIn(<<heap[a].ip, heap[a].port>>, a)
      BY <2>1 DEF LoginsSound, Reaches
    <2>3. heap'[a] = heap[a]
      BY <1>1, <2>1
    <2> QED
      BY <2>2, <2>3 DEF LoginsStay, LoggedIn
  <1> QED
    BY <1>2, <1>3 DEF LoginsSound

(* The session of a login, before and after *)
LEMMA LoginSession ==
  ASSUME ClientTypeOK, Pointers, LoginSucceeds
  PROVE  /\ request.from \in Location /\ request.from[2] \in Port
         /\ request.from = <<request.from[1], request.from[2]>>
         /\ found \in Address \cup {Garbage}
         /\ sessions[request.from] # NULL /\ ~sessions[request.from].logged_in
         /\ sessions'[request.from] = [client |-> found, logged_in |-> TRUE]
         /\ sessions'[request.from] # NULL
         /\ \A l \in Location \ {request.from} : sessions'[l] = sessions[l]
         /\ cpc' = "recvfrom" /\ UNCHANGED <<request, found>>
  <1>1. /\ request.from \in Location /\ sessions[request.from] # NULL
        /\ ~sessions[request.from].logged_in
    BY RequestTyped DEF LoginSucceeds, Pointers, Session
  <1>2. request.from[2] \in Port /\ request.from = <<request.from[1], request.from[2]>>
    BY <1>1 DEF Location
  <1>3. found \in Address \cup {Garbage}
    BY DEF LoginSucceeds, ClientTypeOK
  <1>4. /\ sessions'[request.from] = [client |-> found, logged_in |-> TRUE]
        /\ \A l \in Location \ {request.from} : sessions'[l] = sessions[l]
    BY <1>1 DEF LoginSucceeds, ClientTypeOK
  <1>5. [client |-> found, logged_in |-> TRUE]
          \in [client : Address \cup {Garbage}, logged_in : BOOLEAN]
    BY <1>3
  <1>6. sessions'[request.from] # NULL
    BY <1>4, <1>5, SentinelsAssumption
  <1>7. cpc' = "recvfrom" /\ UNCHANGED <<request, found>>
    BY DEF LoginSucceeds, Send
  <1> QED
    BY <1>1, <1>2, <1>3, <1>4, <1>6, <1>7

(* The record of a login, before and after: of the two fields that are written *)
(* one has its value already.                                                  *)
LEMMA LoginWrites ==
  ASSUME HeapTyped, ClientTypeOK, Pointers, LoginSucceeds, found # Garbage
  PROVE  /\ found \in Address /\ heap[found] \in client_t
         /\ heap[found].ip = request.from[1] /\ heap[found].password = request.args[2]
         /\ out' = <<Reply("login", NULL), Reply("port", request.from[2]),
                     Reply("permissions", heap[found].perms)>>
         /\ heap'[found] \in client_t /\ heap'[found] # NULL
         /\ heap'[found] = [heap[found] EXCEPT !.port = request.from[2]]
         /\ \A a \in Address \ {found} : heap'[a] = heap[a]
         /\ HeapTyped' /\ NamesStay
         /\ <<heap'[found].ip, heap'[found].port>> = request.from
  <1>1. /\ found \in Address /\ heap[found] \in client_t
        /\ heap \in [Address -> client_t \cup {NULL}]
    BY LoginSession DEF ClientTypeOK, HeapTyped, Pointers
  <1>2. /\ heap[found].ip = request.from[1] /\ heap[found].password = request.args[2]
        /\ out' = <<Reply("login", NULL), Reply("port", request.from[2]),
                    Reply("permissions", heap[found].perms)>>
    BY DEF LoginSucceeds, Read, Send
  <1>3. request.from[2] \in Port /\ request.from = <<request.from[1], request.from[2]>>
    BY LoginSession
  <1> DEFINE new == [heap[found] EXCEPT !.port = request.from[2]]
  <1>4. /\ new \in client_t /\ new.ip = heap[found].ip /\ new.port = request.from[2]
        /\ new.username = heap[found].username
    BY <1>1, <1>3 DEF client_t
  <1>5. new # NULL
    <2> HIDE DEF new
    <2> QED
      BY <1>4, NullAssumption
  <1>6. heap' = [heap EXCEPT ![found] = new]
    <2>1. heap' = [heap EXCEPT ![found].port = request.from[2], ![found].ip = request.from[1]]
      BY DEF LoginSucceeds, RecordPort
    <2>2. [new EXCEPT !.ip = request.from[1]] = new
      BY <1>1, <1>2, <1>3 DEF client_t
    <2> QED
      BY <1>1, <2>1, <2>2
  <1> HIDE DEF new
  <1>7. /\ heap'[found] = new /\ \A a \in Address \ {found} : heap'[a] = heap[a]
        /\ HeapTyped'
    BY <1>1, <1>4, <1>6 DEF HeapTyped
  <1>8. <<heap'[found].ip, heap'[found].port>> = request.from
    BY <1>2, <1>3, <1>4, <1>7
  <1>9. NamesStay
    BY <1>4, <1>5, <1>7 DEF NamesStay
  <1> QED
    BY <1>1, <1>2, <1>4, <1>5, <1>7, <1>8, <1>9 DEF new

LEMMA LoginIsSound ==
  ASSUME LoginsSound, HeapTyped, ClientTypeOK, Pointers, LoginSucceeds
  PROVE  LoginsSound'
  <1>1. /\ request.from \in Location
        /\ sessions[request.from] # NULL /\ ~sessions[request.from].logged_in
        /\ sessions'[request.from] = [client |-> found, logged_in |-> TRUE]
        /\ sessions'[request.from] # NULL
        /\ \A l \in Location \ {request.from} : sessions'[l] = sessions[l]
    BY LoginSession
  <1>2. \A l \in Location \ {request.from} :
          sessions'[l] # NULL /\ sessions'[l].logged_in /\ sessions'[l].client \in Address =>
            /\ sessions'[l] = sessions[l]
            /\ heap[sessions[l].client] # NULL /\ heap[sessions[l].client].ip = l[1]
    BY <1>1 DEF LoginsSound, Leads
  <1>3. CASE found # Garbage
    <2>1. /\ found \in Address /\ heap[found] \in client_t /\ heap'[found] # NULL
          /\ heap[found].ip = request.from[1]
          /\ heap'[found] = [heap[found] EXCEPT !.port = request.from[2]]
          /\ \A a \in Address \ {found} : heap'[a] = heap[a]
          /\ <<heap'[found].ip, heap'[found].port>> = request.from
      BY <1>3, LoginWrites
    <2>2. \A a \in Address : heap[a] # NULL => heap'[a] # NULL /\ heap'[a].ip = heap[a].ip
      <3>1. heap'[found].ip = heap[found].ip
        BY <2>1 DEF client_t
      <3> QED
        BY <2>1, <3>1
    <2>3. Leads'
      <3> SUFFICES ASSUME NEW l \in Location, sessions'[l] # NULL, sessions'[l].logged_in,
                          sessions'[l].client \in Address
                   PROVE  /\ heap'[sessions'[l].client] # NULL
                          /\ heap'[sessions'[l].client].ip = l[1]
        BY DEF Leads
      <3>1. CASE l = request.from
        <4>1. sessions'[l].client = found
          BY <1>1, <3>1
        <4>2. heap'[found] # NULL /\ heap'[found].ip = request.from[1]
          BY <2>1
        <4> QED
          BY <3>1, <4>1, <4>2
      <3>2. CASE l # request.from
        BY <1>2, <2>2, <3>2
      <3> QED
        BY <3>1, <3>2
    <2>4. Reaches'
      <3> SUFFICES ASSUME NEW a \in Address, NEW l \in Location, LoggedIn(l, a)'
                   PROVE  LoggedIn(<<heap[a].ip, heap[a].port>>, a)'
        BY DEF Reaches
      <3>1. CASE a = found
        <4>1. <<heap'[a].ip, heap'[a].port>> = request.from
          BY <2>1, <3>1
        <4>2. \A there : there = request.from =>
                /\ there \in Location /\ sessions'[there] # NULL
                /\ sessions'[there].logged_in /\ sessions'[there].client = a
          BY <1>1, <3>1
        <4> QED
          BY <4>1, <4>2 DEF LoggedIn
      <3>2. CASE a # found
        <4>1. l # request.from /\ LoggedIn(l, a)
          BY <1>1, <3>2 DEF LoggedIn
        <4>2. LoggedIn(<<heap[a].ip, heap[a].port>>, a)
          BY <4>1 DEF LoginsSound, Reaches
        <4>3. <<heap[a].ip, heap[a].port>> # request.from
          BY <1>1, <4>2 DEF LoggedIn
        <4> QED
          BY <1>1, <2>1, <3>2, <4>2, <4>3 DEF LoggedIn
      <3> QED
        BY <3>1, <3>2
    <2> QED
      BY <2>3, <2>4 DEF LoginsSound
  <1>4. CASE found = Garbage
    <2>1. heap' = heap /\ Garbage \notin Address
      BY <1>4, GarbageAssumption DEF LoginSucceeds, RecordPort
    <2>2. Leads'
      BY <1>1, <1>2, <1>4, <2>1 DEF Leads
    <2>3. Reaches'
      <3> SUFFICES ASSUME NEW a \in Address, NEW l \in Location, LoggedIn(l, a)'
                   PROVE  LoggedIn(<<heap[a].ip, heap[a].port>>, a)'
        BY DEF Reaches
      <3>1. l # request.from /\ LoggedIn(l, a)
        BY <1>1, <1>4, <2>1 DEF LoggedIn
      <3>2. LoggedIn(<<heap[a].ip, heap[a].port>>, a)
        BY <3>1 DEF LoginsSound, Reaches
      <3>3. <<heap[a].ip, heap[a].port>> # request.from
        BY <1>1, <3>2 DEF LoggedIn
      <3> QED
        BY <1>1, <2>1, <3>2, <3>3 DEF LoggedIn
    <2> QED
      BY <2>2, <2>3 DEF LoginsSound
  <1> QED
    BY <1>3, <1>4

(* ... and the client thread's other steps *)
LEMMA ClientLoginsSound ==
  ASSUME LoginsSound, HeapTyped, ClientTypeOK, Pointers, ClientStep,
         seen' \subseteq Address \cup {NULL, Garbage}
  PROVE  LoginsSound'
  <1>1. CASE LoginSucceeds
    BY <1>1, LoginIsSound
  <1>2. CASE NewRequest
    <2>1. PICK from \in Location, operation \in Operation : recvfrom(from, operation)
      BY <1>2 DEF NewRequest
    <2>2. [op |-> operation.op, args |-> operation.args] = operation
      BY OperationAssumption
    <2>3. /\ \A l \in Location \ {from} : sessions'[l] = sessions[l]
          /\ sessions[from] # NULL => sessions' = sessions
          /\ sessions[from] = NULL => ~sessions'[from].logged_in
      BY <2>1, <2>2, ReceiveKeepsTypes
    <2>4. LoginsStay
      BY <2>3 DEF LoginsStay
    <2>5. RecordsStay /\ cpc' = "dispatch"
      BY <2>1 DEF RecordsStay, recvfrom, treeVars
    <2> QED
      BY <2>4, <2>5, StayingLoginsSound
  <1>3. CASE lookup \/ lookup_returns \/ cmd_msg \/ cmd_p2p \/ CreatesGroup \/ TellsGroup \/ Declines
    <2>1. UNCHANGED <<heap, sessions>>
      BY <1>3 DEF lookup, lookup_returns, cmd_msg, cmd_p2p, CreatesGroup, TellsGroup, Declines,
                  Answers, treeVars
    <2>2. RecordsStay /\ LoginsStay
      BY <2>1 DEF RecordsStay, LoginsStay
    <2> QED
      BY <2>2, StayingLoginsSound
  <1> QED
    BY <1>1, <1>2, <1>3, ClientCases

LEMMA ClientKeepsHeap ==
  ASSUME HeapTyped, ClientTypeOK, Pointers, ClientStep
  PROVE  HeapTyped' /\ NamesStay /\ UNCHANGED <<data, root, left, right>>
  <1>1. CASE LoginSucceeds /\ found # Garbage
    BY <1>1, LoginWrites DEF LoginSucceeds
  <1>2. CASE UNCHANGED treeVars
    BY <1>2 DEF HeapTyped, NamesStay, treeVars
  <1>3. CASE NewRequest \/ lookup \/ lookup_returns \/ cmd_msg \/ cmd_p2p \/ CreatesGroup \/ TellsGroup
             \/ Declines
    BY <1>2, <1>3 DEF NewRequest, recvfrom, lookup, lookup_returns, cmd_msg, cmd_p2p,
                      CreatesGroup, TellsGroup, Declines, Answers
  <1>4. CASE LoginSucceeds /\ found = Garbage
    BY <1>2, <1>4 DEF LoginSucceeds, RecordPort, treeVars
  <1> QED
    BY <1>1, <1>3, <1>4, ClientCases

-----------------------------------------------------------------------------
(* What is sent, and to whom *)

(* what is addressed to somebody *)
Addressed(d) == d.channel = "message" \/ d.text = "location"

Sending ==
  /\ cpc # "recvfrom" => out = <<>>
  /\ \A i \in DOMAIN out : Addressed(out[i]) => found # NULL

(* What one step sends *)
LEMMA WhatIsSent ==
  ASSUME ClientStep
  PROVE  /\ cpc' # "recvfrom" => out' = <<>> \/ (cpc # "recvfrom" /\ out' = out)
         /\ cpc' = "recvfrom" =>
              /\ cpc # "recvfrom" /\ UNCHANGED <<request, found>>
              /\ \/ LoginSucceeds
                 \/ /\ cmd_msg
                    /\ \E to : out' = <<Forward(to, request.args), Reply("sent", NULL)>>
                 \/ cmd_p2p /\ \E there : out' = <<Reply("location", there)>>
                 \/ CreatesGroup /\ out' = <<Reply("group", current_group)>>
                 \/ TellsGroup /\ out' = <<Reply("multicast ip", group_list[request.args])>>
                 \/ Declines /\ \E text : text \notin Telling /\ out' = <<Reply(text, NULL)>>
  BY ClientCases DEF NewRequest, recvfrom, lookup, lookup_returns, LoginSucceeds, cmd_msg, cmd_p2p,
                     CreatesGroup, TellsGroup, Declines, Answers, Send

(* The three answers to a login *)
LEMMA LoginAnswers ==
  ASSUME LoginSucceeds
  PROVE  /\ DOMAIN out' = 1 .. 3
         /\ out'[1] = Reply("login", NULL)
         /\ out'[2] = Reply("port", request.from[2])
         /\ out'[3].channel = "reply" /\ out'[3].to = request.from
         /\ out'[3].text = "permissions"
         /\ found # Garbage => out'[3] = Reply("permissions", heap[found].perms)
  <1>1. PICK user \in Read(found) :
          out' = <<Reply("login", NULL), Reply("port", request.from[2]),
                   Reply("permissions", user.perms)>>
    BY DEF LoginSucceeds, Send
  <1>2. found # Garbage => user = heap[found]
    BY DEF Read
  <1> QED
    BY <1>1, <1>2 DEF Reply

LEMMA ClientKeepsSending ==
  ASSUME Sending, Pointers, ClientStep
  PROVE  Sending'
  <1>1. CASE cpc' # "recvfrom"
    <2>1. out' = <<>>
      BY <1>1, WhatIsSent DEF Sending
    <2> QED
      BY <2>1 DEF Sending
  <1>2. CASE LoginSucceeds
    BY <1>2, LoginAnswers DEF Sending, Addressed, Reply, LoginSucceeds, Send
  <1>3. CASE cpc' = "recvfrom" /\ (cmd_msg \/ cmd_p2p)
    BY <1>3 DEF cmd_msg, cmd_p2p, Send, Sending
  <1>4. CASE /\ cpc' = "recvfrom" /\ UNCHANGED found
             /\ \E text, about : text # "location" /\ out' = <<Reply(text, about)>>
    <2>1. PICK text, about : text # "location" /\ out' = <<Reply(text, about)>>
      BY <1>4
    <2>2. DOMAIN out' = {1} /\ out'[1] = Reply(text, about)
      BY <2>1
    <2> QED
      BY <1>4, <2>1, <2>2 DEF Sending, Addressed, Reply
  <1> QED
    BY <1>1, <1>2, <1>3, <1>4, WhatIsSent DEF Telling

(* The two answers that name a place: it is the one on record. *)
LEMMA SentToRecorded ==
  ASSUME LoginsSound, found \in Address, heap[found].username = request.args,
         UNCHANGED <<treeVars, sessions, request, found>>,
         NEW there, there = RecordedLocation(heap[found]),
         \A i \in DOMAIN out' : Addressed(out'[i]) =>
           there = IF out'[i].text = "location" THEN out'[i].about ELSE out'[i].to
  PROVE  AddressedToUser'
  <1>2. (\E l \in Location : LoggedIn(l, found)) => LoggedIn(there, found)
    BY DEF LoginsSound, Reaches, RecordedLocation
  <1>3. there[1] = heap[found].ip
    BY DEF RecordedLocation
  <1>4. /\ heap' = heap /\ sessions' = sessions /\ found' = found /\ request' = request
    BY DEF treeVars
  <1>5. ASSUME NEW i \in DOMAIN out', Addressed(out'[i])
        PROVE  LET to == IF out'[i].text = "location" THEN out'[i].about ELSE out'[i].to IN
               /\ heap'[found'].username = request'.args
               /\ to[1] = heap'[found'].ip
               /\ (\E l \in Location : LoggedIn(l, found)') =>
                    /\ to \in Location /\ sessions'[to] # NULL
                    /\ sessions'[to].logged_in /\ sessions'[to].client = found'
    <2> DEFINE to == IF out'[i].text = "location" THEN out'[i].about ELSE out'[i].to
    <2>1. to = there
      BY <1>5
    <2> HIDE DEF to
    <2>2. /\ heap'[found'].username = request'.args /\ to[1] = heap'[found'].ip
      BY <1>3, <1>4, <2>1
    <2>3. (\E l \in Location : LoggedIn(l, found)') =>
             /\ to \in Location /\ sessions'[to] # NULL
             /\ sessions'[to].logged_in /\ sessions'[to].client = found'
      BY <1>2, <1>4, <2>1 DEF LoggedIn
    <2> QED
      BY <2>2, <2>3 DEF to
  <1> QED
    BY <1>5 DEF AddressedToUser, Addressed, LoggedIn

LEMMA ClientAddresses ==
  ASSUME ClientTypeOK, LoginsSound, NamesSought, Sending, ClientStep
  PROVE  AddressedToUser'
  <1>1. CASE \A i \in DOMAIN out' : ~Addressed(out'[i])
    BY <1>1 DEF AddressedToUser, Addressed
  <1>2. CASE cpc' # "recvfrom"
    <2>1. out' = <<>>
      BY <1>2, WhatIsSent DEF Sending
    <2> QED
      BY <1>1, <2>1
  <1>3. CASE LoginSucceeds
    BY <1>1, <1>3, LoginAnswers DEF Addressed, Reply
  <1>4. CASE cmd_msg
    <2> DEFINE there == RecordedLocation(heap[found])
    <2>1. /\ cpc = "found" /\ request.op = "MSG" /\ found # NULL
          /\ UNCHANGED <<treeVars, sessions, request, found>>
      BY <1>4 DEF cmd_msg, Send
    <2>2. found \in Address /\ heap[found].username = request.args
      BY <2>1 DEF NamesSought, Sought
    <2>3. out' = <<Forward(there, request.args), Reply("sent", NULL)>>
      BY <1>4, <2>2, GarbageAssumption DEF cmd_msg, Read, Send
    <2> HIDE DEF there
    <2>4. /\ DOMAIN out' = {1, 2} /\ out'[1].text = "MSG" /\ out'[1].to = there
          /\ ~Addressed(out'[2])
      BY <2>3 DEF Forward, Reply, Addressed
    <2> QED
      BY <2>1, <2>2, <2>4, SentToRecorded DEF there
  <1>5. CASE cmd_p2p
    <2> DEFINE there == RecordedLocation(heap[found])
    <2>1. /\ cpc = "found" /\ request.op = "P2P" /\ found # NULL
          /\ UNCHANGED <<treeVars, sessions, request, found>>
      BY <1>5 DEF cmd_p2p, Send
    <2>2. found \in Address /\ heap[found].username = request.args
      BY <2>1 DEF NamesSought, Sought
    <2>3. out' = <<Reply("location", there)>>
      BY <1>5, <2>2, GarbageAssumption DEF cmd_p2p, Read, Send
    <2> HIDE DEF there
    <2>4. /\ DOMAIN out' = {1} /\ out'[1].text = "location" /\ out'[1].about = there
      BY <2>3 DEF Reply
    <2> QED
      BY <2>1, <2>2, <2>4, SentToRecorded DEF there
  <1>6. CASE \E text, about : text # "location" /\ out' = <<Reply(text, about)>>
    <2>1. PICK text, about : text # "location" /\ out' = <<Reply(text, about)>>
      BY <1>6
    <2>2. DOMAIN out' = {1} /\ out'[1] = Reply(text, about)
      BY <2>1
    <2> QED
      BY <1>1, <2>1, <2>2 DEF Addressed, Reply
  <1> QED
    BY <1>2, <1>3, <1>4, <1>5, <1>6, WhatIsSent DEF Telling

(* Every request has one answer to its sender, or the three of a login, and *)
(* one that is not refused has a session that is logged in.                 *)
LEMMA ClientAnswersShaped ==
  ASSUME ClientTypeOK, Pointers, ClientStep
  PROVE  AnswerShape'
  <1>1. CASE LoginSucceeds
    <2>1. /\ DOMAIN out' = 1 .. 3 /\ request' = request /\ request.op = "LOGIN"
          /\ \A i \in 1 .. 3 : out'[i].channel = "reply" /\ out'[i].to = request.from
          /\ out'[1].text = "login"
          /\ out'[2].text = "port" /\ out'[2].about = request.from[2]
          /\ out'[3].text = "permissions"
      BY <1>1, LoginAnswers DEF Reply, LoginSucceeds, Send
    <2>2. {i \in DOMAIN out' : out'[i].channel = "reply"} = 1 .. 3
      BY <2>1
    <2>3. Session'.logged_in
      BY <1>1, LoginSession DEF Session
    <2> QED
      BY <2>1, <2>2, <2>3 DEF AnswerShape
  <1>2. CASE UNCHANGED request /\ (Session'.logged_in \/ \A i \in DOMAIN out' : out'[i].text \notin Telling) /\ \E m, text, about : text # "login" /\ m.channel = "message"
               /\ (out' = <<Reply(text, about)>> \/ out' = <<m, Reply(text, about)>>)
    <2>1. PICK m, text, about : text # "login" /\ m.channel = "message"
               /\ (out' = <<Reply(text, about)>> \/ out' = <<m, Reply(text, about)>>)
      BY <1>2
    <2>2. PICK i \in DOMAIN out' :
            /\ out'[i] = Reply(text, about)
            /\ \A j \in DOMAIN out' : j # i => out'[j].channel = "message"
      <3>1. CASE out' = <<Reply(text, about)>>
        <4>1. DOMAIN out' = {1} /\ out'[1] = Reply(text, about)
          BY <3>1
        <4> QED
          BY <4>1
      <3>2. CASE out' = <<m, Reply(text, about)>>
        <4>1. DOMAIN out' = {1, 2} /\ out'[2] = Reply(text, about) /\ out'[1] = m
          BY <3>2
        <4> QED
          BY <2>1, <4>1
      <3> QED
        BY <2>1, <3>1, <3>2
    <2>3. out'[i].channel = "reply" /\ out'[i].to = request.from /\ out'[i].text # "login"
      BY <2>1, <2>2 DEF Reply
    <2>4. {j \in DOMAIN out' : out'[j].channel = "reply"} = {i}
      BY <2>2, <2>3
    <2> QED
      BY <1>2, <2>3, <2>4 DEF AnswerShape, Telling
  <1>3. CASE cpc' # "recvfrom"
    BY <1>3 DEF AnswerShape
  <1>4. CASE cpc' = "recvfrom" /\ cmd_msg
    <2>1. \A to : Forward(to, request.args).channel = "message"
      BY DEF Forward
    <2>2. UNCHANGED request /\ Session'.logged_in
      BY <1>4 DEF cmd_msg, Send, Pointers, Session
    <2> QED
      BY <1>2, <1>4, <2>1, <2>2 DEF cmd_msg, Send
  <1>5. CASE cpc' = "recvfrom" /\ ~LoginSucceeds /\ ~cmd_msg
    <2>1. UNCHANGED request /\ \E text, about : text # "login" /\ out' = <<Reply(text, about)>>
      BY <1>5, WhatIsSent DEF Telling
    <2>2. \A to : Forward(to, request.args).channel = "message"
      BY DEF Forward
    <2>3. Session'.logged_in \/ \A i \in DOMAIN out' : out'[i].text \notin Telling
      <3>1. CASE cmd_p2p \/ CreatesGroup \/ TellsGroup
        BY <3>1 DEF cmd_p2p, CreatesGroup, TellsGroup, Answers, Send, Pointers, Session
      <3>2. CASE \E text : text \notin Telling /\ out' = <<Reply(text, NULL)>>
        BY <3>2 DEF Reply
      <3> QED
        BY <1>5, <3>1, <3>2, WhatIsSent
    <2> QED
      BY <1>2, <2>1, <2>2, <2>3
  <1> QED
    BY <1>1, <1>3, <1>4, <1>5

-----------------------------------------------------------------------------
(* Groups *)

LEMMA ClientGroupsSound ==
  ASSUME GroupsSound, ClientTypeOK, ClientStep
  PROVE  GroupsSound'
  <1>1. CASE CreatesGroup
    <2>1. request.args \in Group
      BY <1>1, RequestTyped DEF Answers, CreatesGroup
    <2> DEFINE g0 == request.args
               created == {g \in Group : group_list[g] # NULL}
    <2>2. /\ group_list' = [group_list EXCEPT ![g0] = current_group] /\ group_list[g0] = NULL
          /\ current_group \in 0 .. max_groups - 1 /\ current_group' = current_group + 1
          /\ group_list \in [Group -> (0 .. max_groups - 1) \cup {NULL}]
      BY <1>1, MaxGroupsAssumption DEF CreatesGroup, AddressLeft, UseAddress, ClientTypeOK
    <2>3. current_group # NULL /\ current_group \in Nat
      BY <2>2, SentinelsAssumption
    <2>4. /\ group_list'[g0] = current_group
          /\ \A g \in Group \ {g0} : group_list'[g] = group_list[g]
          /\ {g \in Group : group_list'[g] # NULL} = created \cup {g0}
      BY <2>1, <2>2, <2>3
    <2>5. {group_list[g] : g \in created} = 0 .. current_group - 1
      BY DEF GroupsSound
    <2>6. {group_list'[g] : g \in created \cup {g0}} = 0 .. current_group' - 1
      <3>1. {group_list'[g] : g \in created \cup {g0}}
              = {group_list[g] : g \in created} \cup {current_group}
        BY <2>1, <2>2, <2>4
      <3>2. 0 .. current_group' - 1 = (0 .. current_group - 1) \cup {current_group}
        BY <2>2, <2>3
      <3> QED
        BY <2>5, <3>1, <3>2
    <2>7. \A g, h \in created \cup {g0} : group_list'[g] = group_list'[h] => g = h
      <3>1. \A g \in created : group_list[g] # current_group /\ g # g0
        BY <2>2, <2>3, <2>5
      <3>2. \A g, h \in created : group_list[g] = group_list[h] => g = h
        BY DEF GroupsSound
      <3> QED
        BY <2>1, <2>4, <3>1, <3>2
    <2> QED
      BY <2>4, <2>6, <2>7 DEF GroupsSound
  <1>2. CASE GroupsStay
    BY <1>2 DEF GroupsStay, GroupsSound
  <1>3. CASE NewRequest \/ lookup \/ lookup_returns \/ LoginSucceeds \/ cmd_msg \/ cmd_p2p
             \/ TellsGroup \/ Declines
    BY <1>2, <1>3 DEF NewRequest, recvfrom, lookup, lookup_returns, LoginSucceeds, cmd_msg,
                      cmd_p2p, TellsGroup, Declines, GroupsStay
  <1> QED
    BY <1>1, <1>3, ClientCases

=============================================================================
