---------------------------- MODULE ClientProgram ----------------------------
(***************************************************************************)
(* The chat client (src/code/client/src/main.c): its main thread, which    *)
(* logs in and then alternates between the menu and waiting for a reply,   *)
(* the thread that listens for messages and the one that listens to        *)
(* multicast groups.  It has no timeout and no retransmission: what comes  *)
(* first to server_socket, from wherever, is the reply.                    *)
(***************************************************************************)
EXTENDS Network

CONSTANTS
  Process,     \* client processes; each may end and be started again
  host,        \* the ip of the machine a process runs on
  Ephemeral,   \* the addresses the kernel gives to a socket that is not bound
  htons,       \* on sin_port values: exchanges the two bytes
  Typed,       \* the requests [op, args] the user of a process types
  Room,        \* users type nothing while more datagrams wait: bounds the queues
  Deaf,        \* the addresses of p2p_sockets: sent from, never read
  None         \* nothing; INVALID_GROUP

(* "htons" applied to a port that is in network order already *)
Swap(e) == <<e[1], htons[e[2]]>>

ASSUME EphemeralAssumption == Ephemeral \subseteq Endpoint
ASSUME SwapAssumption ==
  \A e \in Endpoint : Swap(e) \in Endpoint /\ Swap(Swap(e)) = e
ASSUME SentinelAssumption ==
  None \notin Endpoint /\ Deaf \notin Endpoint \cup {server, None} /\ server # None
ASSUME RoomAssumption == Room \in Nat

VARIABLES
  prog,   \* the processes
  used    \* history: the addresses that a server_socket has had

programVars == <<prog, used>>

Off ==
  [pc |-> "off", socket |-> None, asked |-> None, server_addr |-> server,
   message_port |-> None, message_thread |-> "none", multicast_thread |-> "none",
   multicast_ip |-> None, multicast_addr |-> None, current_group |-> None,
   memberships |-> {}, location |-> None,
   \* history: its address had been used; it took a wrong datagram for a reply;
   \* the groups it connected to, and others it heard from a client not misled
   reused |-> FALSE, misled |-> FALSE, connected |-> {}, overheard |-> {}]

Running(p) == prog[p].pc # "off"

Waiting(p) == prog[p].pc \in {"login", "port", "permissions", "reply"}

ProgramInit == prog = [p \in Process |-> Off] /\ used = {}

(* message_addr in read_msg *)
ListenAt(p) == <<host[p], htons[prog[p].message_port]>>

Bound ==
  {prog[p].socket : p \in Process}
    \cup {ListenAt(p) : p \in {q \in Process : prog[q].message_thread = "bound"}}

-----------------------------------------------------------------------------
(* a request as it is sent *)
Request(to, r) == [to |-> to, from |-> r.from, op |-> r.op, args |-> r.args]

RoomLeft == SumFunction([a \in DOMAIN inbox |-> Len(inbox[a])]) <= Room

(* a process that has sent its first datagram, which has bound server_socket *)
Started(s, login) ==
  [Off EXCEPT !.pc = "login", !.socket = s, !.asked = login,
              !.multicast_thread = "starting", !.reused = s \in used]

(* main and authenticate, up to the first recvfrom *)
start(p) ==
  /\ ~Running(p) /\ RoomLeft
  /\ \E s \in Ephemeral \ Bound, r \in Typed[p] :
       /\ s[1] = host[p] /\ r.op = "LOGIN"
       /\ LET login == [from |-> s, op |-> r.op, args |-> r.args] IN
          /\ prog' = [prog EXCEPT ![p] = Started(s, login)]
          /\ inbox' = Sent(<<Request(server, login)>>)
       /\ used' = used \cup {s}
  /\ UNCHANGED faults

(* return from main, error(), or a signal *)
End(p) == Running(p) /\ prog' = [prog EXCEPT ![p] = Off] /\ UNCHANGED <<used, netVars>>

Arrived(p) == Head(inbox[prog[p].socket])

(* recvfrom with server_addr as the place for the sender's address *)
Receives(p) == inbox[prog[p].socket] # <<>> /\ UNCHANGED <<used, faults>>

After(p) ==
  [prog[p] EXCEPT !.server_addr = Arrived(p).from,
                  !.misled = @ \/ Arrived(p).re # prog[p].asked]

ToMenu(q) == [q EXCEPT !.pc = "menu", !.asked = None]

(* the three replies of a LOGIN; any other text ends the program *)
AwaitLogin(p) ==
  /\ prog[p].pc = "login" /\ Receives(p) /\ inbox' = Taken(prog[p].socket)
  /\ prog' = [prog EXCEPT ![p] =
       IF Arrived(p).text = "login" THEN [After(p) EXCEPT !.pc = "port"] ELSE Off]

(* Definitions whose name starts with Mutant are slips that a change of the  *)
(* code could make: a run is known to notice each of them.                   *)

(* the result of sscanf is not looked at *)
MutantAwaitPort(p) ==
  /\ prog[p].pc = "port" /\ Receives(p) /\ inbox' = Taken(prog[p].socket)
  /\ prog' = [prog EXCEPT ![p] =
       [After(p) EXCEPT !.pc = "permissions", !.message_thread = "starting",
         !.message_port = IF Arrived(p).text = "port" THEN Arrived(p).about ELSE None]]

(* The listener is started first, whatever the text is; then the program ends *)
(* if sscanf found no number in it.  message_port is 0 in that case: None.    *)
AwaitPort(p) ==
  /\ prog[p].pc = "port" /\ Receives(p) /\ inbox' = Taken(prog[p].socket)
  /\ prog' = [prog EXCEPT ![p] =
       IF Arrived(p).text = "port"
       THEN [After(p) EXCEPT !.pc = "permissions", !.message_thread = "starting",
                             !.message_port = Arrived(p).about]
       ELSE [After(p) EXCEPT !.pc = "failed", !.message_thread = "starting"]]

fail(p) ==
  /\ prog[p].pc = "failed" /\ prog' = [prog EXCEPT ![p] = Off]
  /\ UNCHANGED <<used, netVars>>

(* the third reply is not read *)
MutantAwaitPermissions(p) ==
  /\ prog[p].pc = "permissions" /\ prog' = [prog EXCEPT ![p] = ToMenu(@)]
  /\ UNCHANGED <<used, netVars>>

AwaitPermissions(p) ==
  /\ prog[p].pc = "permissions" /\ Receives(p) /\ inbox' = Taken(prog[p].socket)
  /\ prog' = [prog EXCEPT ![p] = ToMenu(After(p))]

-----------------------------------------------------------------------------
(* options: the user's choice, up to the recvfrom of send_msg, send_p2p,     *)
(* create_group_multicast or connect_multicast                               *)
choose(p) ==
  /\ prog[p].pc = "menu" /\ RoomLeft
  /\ \E r \in Typed[p] :
       /\ r.op # "LOGIN"
       /\ LET command == [from |-> prog[p].socket, op |-> r.op, args |-> r.args] IN
          /\ prog' = [prog EXCEPT ![p].pc = "reply", ![p].asked = command]
          /\ inbox' = Sent(<<Request(prog[p].server_addr, command)>>)
  /\ UNCHANGED <<used, faults>>

AwaitReply(p, ops) ==
  prog[p].pc = "reply" /\ prog[p].asked.op \in ops /\ Receives(p)

(* send_msg and create_group_multicast print the reply *)
print_reply(p) ==
  /\ AwaitReply(p, {"MSG", "CREATEMULTICAST"})
  /\ prog' = [prog EXCEPT ![p] = ToMenu(After(p))]
  /\ inbox' = Taken(prog[p].socket)

(* the port is used as it was received *)
MutantTarget(location) == location

(* target_addr in send_p2p *)
Target(location) == Swap(location)

(* send_p2p, up to the prompt for the message if the reply is a location *)
send_p2p(p) ==
  /\ AwaitReply(p, {"P2P"}) /\ inbox' = Taken(prog[p].socket)
  /\ prog' = [prog EXCEPT ![p] =
       IF Arrived(p).text = "location"
       THEN [After(p) EXCEPT !.pc = "typing", !.asked = None, !.location = Arrived(p).about]
       ELSE ToMenu(After(p))]

(* ... and once the user has typed it *)
type_p2p(p) ==
  /\ prog[p].pc = "typing"
  /\ inbox' = Sent(<<[to |-> Target(prog[p].location), from |-> Deaf, text |-> "chat",
                      about |-> None, re |-> [meant |-> prog[p].location]]>>)
  /\ prog' = [prog EXCEPT ![p] = [ToMenu(@) EXCEPT !.location = None]]
  /\ UNCHANGED <<used, faults>>

(* the group is noted whether the membership was added or not *)
MutantJoined(q, group, ip, joined) ==
  [q EXCEPT !.multicast_ip = ip, !.current_group = group,
            !.multicast_addr = IF joined THEN ip ELSE @,
            !.memberships = IF joined THEN @ \cup {ip} ELSE @,
            !.connected = @ \cup {group}]

Joined(q, group, ip, joined) ==
  IF joined
  THEN [q EXCEPT !.multicast_ip = ip, !.multicast_addr = ip, !.current_group = group,
                 !.memberships = @ \cup {ip}, !.connected = @ \cup {group}]
  ELSE [q EXCEPT !.multicast_ip = ip]

(* connect_multicast: IP_ADD_MEMBERSHIP fails for an address the socket is a *)
(* member of, and may fail for others.                                       *)
connect_multicast(p) ==
  /\ AwaitReply(p, {"GETMULTICAST"})
  /\ LET menu == ToMenu(After(p))
         ip   == Arrived(p).about
     IN IF Arrived(p).text # "multicast ip" THEN prog' = [prog EXCEPT ![p] = menu]
        ELSE \E joined \in IF ip \in menu.memberships THEN {FALSE} ELSE BOOLEAN :
               prog' = [prog EXCEPT ![p] = Joined(menu, prog[p].asked.args, ip, joined)]
  /\ inbox' = Taken(prog[p].socket)

(* Who reads what is sent to the address: not the machine of the sender,     *)
(* where IP_MULTICAST_LOOP is off; elsewhere the socket at MULTICAST_PORT,   *)
(* if a process of its machine is a member.                                  *)
Audience(p) ==
  {q \in Process :
     /\ host[q] # host[p] /\ prog[q].multicast_thread = "bound"
     /\ \E r \in Process : host[r] = host[q]
                          /\ prog[p].multicast_addr \in prog[r].memberships}

(* the group messages go round the server, with the group's name in the text *)
send_multicast(p) ==
  /\ prog[p].pc = "menu" /\ prog[p].multicast_ip # None
  /\ prog' = [q \in Process |->
       IF q \notin Audience(p) \/ prog[p].misled THEN prog[q]
       ELSE [prog[q] EXCEPT !.overheard =
               @ \cup ({prog[p].current_group} \ prog[q].connected)]]
  /\ UNCHANGED <<used, netVars>>

-----------------------------------------------------------------------------
(* The other threads.  A port that is taken ends the whole program.  Port 0 is *)
(* the kernel's choice: one that nothing is sent to.                           *)

bind_message_port(p) ==
  /\ prog[p].message_thread = "starting"
  /\ prog' = IF prog[p].message_port = None
             THEN [prog EXCEPT ![p].message_thread = "anywhere"]
             ELSE IF ListenAt(p) \in Bound THEN [prog EXCEPT ![p] = Off]
             ELSE [prog EXCEPT ![p].message_thread = "bound"]
  /\ UNCHANGED <<used, netVars>>

read_msg(p) ==
  /\ prog[p].message_thread = "bound" /\ inbox[ListenAt(p)] # <<>>
  /\ inbox' = Taken(ListenAt(p))
  /\ UNCHANGED <<programVars, faults>>

(* MULTICAST_PORT is the same for all processes of a machine *)
bind_multicast_port(p) ==
  /\ prog[p].multicast_thread = "starting"
  /\ prog' = IF \E q \in Process : host[q] = host[p] /\ prog[q].multicast_thread = "bound"
             THEN [prog EXCEPT ![p] = Off]
             ELSE [prog EXCEPT ![p].multicast_thread = "bound"]
  /\ UNCHANGED <<used, netVars>>

-----------------------------------------------------------------------------

(* what a process does next without waiting for its user *)
ProgramProgress(p) ==
  \/ AwaitLogin(p) \/ AwaitPort(p) \/ fail(p) \/ AwaitPermissions(p)
  \/ print_reply(p) \/ send_p2p(p) \/ connect_multicast(p)

ThreadProgress(p) == bind_message_port(p) \/ read_msg(p) \/ bind_multicast_port(p)

ProgramStep(p) ==
  \/ start(p) \/ End(p) \/ choose(p) \/ type_p2p(p) \/ send_multicast(p)
  \/ ProgramProgress(p) \/ ThreadProgress(p)

=============================================================================
