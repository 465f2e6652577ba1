-------------------------------- MODULE Chat --------------------------------
(***************************************************************************)
(* Chat clients, the network and the client thread of the server, which    *)
(* may stop and start again.  The user table is what main loads from the   *)
(* records file; the admin is idle.                                        *)
(***************************************************************************)
EXTENDS ClientServer, ClientProgram

CONSTANTS
  Registered,   \* the records in the file: by address, as main will load them
  MaxCrashes    \* bounds the ends of the server in a run

ASSUME EndpointAssumption   == Endpoint = Location
ASSUME RegisteredAssumption == Registered \in [Address -> client_t]
ASSUME TypedAssumption      ==
  \A p \in Process : Typed[p] \subseteq {o \in Operation : o.op # "unknown"}
ASSUME GroupAssumption      == None \notin Group \cup Port \cup 0 .. max_groups - 1
ASSUME MaxCrashesAssumption == MaxCrashes \in Nat

VARIABLE crashes

serverVars == <<treeVars, clientVars, seen>>

chatVars == <<serverVars, programVars, netVars, crashes>>

(* the records of a sorted file: main inserts each below the one before *)
ChatInit ==
  LET loaded == {Registered[a].username : a \in Address}
      above(u) == {v \in loaded : u < v}
      Least(S) == IF S = {} THEN NULL ELSE CHOOSE u \in S : \A v \in S : u <= v
  IN /\ heap = Registered
     /\ data = [u \in Username |-> IF u \in loaded
                  THEN CHOOSE a \in Address : Registered[a].username = u ELSE NULL]
     /\ root = Least(loaded)
     /\ left = [u \in Username |-> NULL]
     /\ right = [u \in Username |-> IF u \in loaded THEN Least(above(u)) ELSE NULL]
     /\ ClientInit /\ ProgramInit /\ NetInit /\ crashes = 0

(* sin_port of the session, which is in network order, without another htons *)
MutantRecipient(d) == d.to

Recipient(d) == IF d.channel = "message" THEN Swap(d.to) ELSE d.to

(* A datagram of the server on the network.  History: what it is meant for. *)
Routed(d) ==
  [to |-> Recipient(d), from |-> server, text |-> d.text, about |-> d.about,
   re |-> IF d.channel = "message" THEN [meant |-> d.to] ELSE request]

ServerReceives ==
  /\ inbox[server] # <<>>
  /\ recvfrom(Head(inbox[server]).from, Head(inbox[server])) /\ Undisturbed
  /\ inbox' = Taken(server)
  /\ UNCHANGED <<programVars, faults, crashes>>

ServerWorks ==
  /\ ClientProgress /\ Undisturbed
  /\ inbox' = IF cpc' = "recvfrom" THEN Sent([i \in DOMAIN out' |-> Routed(out'[i])])
              ELSE inbox
  /\ UNCHANGED <<programVars, faults, crashes>>

(* The process ends, with its sessions and groups, and is started again. *)
ServerCrash ==
  /\ crashes < MaxCrashes /\ crashes' = crashes + 1
  /\ sessions' = [l \in Location |-> NULL]
  /\ group_list' = [g \in Group |-> NULL]
  /\ current_group' = 0
  /\ cpc' = "recvfrom" /\ request' = NULL /\ seen' = {} /\ found' = NULL /\ out' = <<>>
  /\ heap' = Registered /\ UNCHANGED <<data, root, left, right>>
  /\ inbox' = [inbox EXCEPT ![server] = <<>>]
  /\ UNCHANGED <<programVars, faults>>

ClientsStep ==
  /\ \E p \in Process : ProgramStep(p)
  /\ UNCHANGED <<serverVars, crashes>>

NetworkStep == (Fault \/ Undeliverable(Bound)) /\ UNCHANGED <<serverVars, programVars, crashes>>

ChatNext ==
  \/ ServerReceives \/ ServerWorks \/ ServerCrash
  \/ ClientsStep
  \/ NetworkStep

(* Processes and threads run and what arrives is read; users and the network *)
(* owe nothing, and nobody has to start a client.                            *)
ChatFairness ==
  /\ WF_chatVars(ServerReceives) /\ WF_chatVars(ServerWorks)
  /\ \A p \in Process :
       /\ WF_chatVars(ProgramProgress(p) /\ UNCHANGED <<serverVars, crashes>>)
       /\ WF_chatVars(ThreadProgress(p) /\ UNCHANGED <<serverVars, crashes>>)

ChatSpec == ChatInit /\ [][ChatNext]_chatVars /\ ChatFairness

-----------------------------------------------------------------------------
(* Properties *)

(* What can be on the way to a client, and on the way to the server.  A listener *)
(* for messages has a port, except the one a client starts before it ends because *)
(* the second reply was none.                                                     *)
ChatTypeOK ==
  /\ ClientTypeOK
  /\ \A p \in Process :
       /\ Running(p) => prog[p].socket \in Ephemeral /\ prog[p].socket[1] = host[p]
       /\ prog[p].server_addr \in {server, Deaf}
       /\ \/ prog[p].message_thread = "bound"
          \/ prog[p].message_thread = "starting" /\ prog[p].pc # "failed"
          => prog[p].message_port \in Port
       /\ prog[p].memberships \subseteq 0 .. max_groups - 1
  /\ \A d \in UNION {Range(inbox[a]) : a \in Endpoint} :
       d.from \in {server, Deaf} /\ (d.text = "location" => d.about \in Location)
  /\ \A d \in Range(inbox[server]) : d.from \in used /\ d.op # "unknown"

(* Messages for another process may come to p's server_socket: one that has, or   *)
(* had, p's port with its bytes swapped, and whose listener they are meant for.   *)
Astray(p) == Swap(prog[p].socket) \in used

(***************************************************************************)
(* A client takes for the reply whatever datagram comes first.  As long as *)
(* the network is faultless, that is the answer to what it has just asked, *)
(* even if the server has crashed in between, unless its port was an       *)
(* earlier client's or is another's message port.                          *)
(***************************************************************************)
AnswersFit ==
  \A p \in Process : prog[p].misled => faults > 0 \/ prog[p].reused \/ Astray(p)

(***************************************************************************)
(* ... because a client that returns to its menu has read every datagram   *)
(* the server sent it: the number of recvfroms in each function is the     *)
(* number of replies of its command.                                       *)
(***************************************************************************)
NoLeftovers ==
  \A p \in Process : prog[p].pc \in {"menu", "typing"} /\ inbox[prog[p].socket] # <<>> =>
    faults > 0 \/ prog[p].reused \/ Astray(p)

(***************************************************************************)
(* Each recvfrom overwrites server_addr with the sender.  Whatever the     *)
(* network loses, repeats or reorders, and whatever ports are used again,  *)
(* the client still talks to the server afterwards, unless another client  *)
(* aims its P2P messages at this client's server_socket.                   *)
(***************************************************************************)
ServerKept == \A p \in Process : prog[p].server_addr # server => Astray(p)

(***************************************************************************)
(* A client that has got past the second reply of its login has its own    *)
(* port in message_port, whatever the network lost, repeated or reordered, *)
(* whoever had its port before and however often the server was restarted: *)
(* main ends the program over a text that is no number, and every number   *)
(* that comes to a socket is that socket's port.                           *)
(***************************************************************************)
PortKnown ==
  \A p \in Process : prog[p].pc \in {"permissions", "menu", "reply", "typing"} =>
    prog[p].message_port = prog[p].socket[2]

(***************************************************************************)
(* Messages go to where their recipient listens.  The port in a session is *)
(* in network order; the server and the sender of a P2P message apply      *)
(* htons to it once more, and so does the listener.                        *)
(***************************************************************************)
MessagesAimRight ==
  \A p \in Process : prog[p].message_thread = "bound" =>
    \A a \in Endpoint : \A d \in Range(inbox[a]) :
      d.re = [meant |-> prog[p].socket] => a = ListenAt(p)

(***************************************************************************)
(* What a client sends as "[GROUP g]" goes to the address the server keeps *)
(* for g, or nowhere, also after a connect that failed half way, unless    *)
(* the server was restarted or the client has taken a wrong reply.         *)
(***************************************************************************)
LabelMatches ==
  \A p \in Process : crashes = 0 /\ ~prog[p].misled =>
    LET g == prog[p].current_group IN
    IF g = None THEN prog[p].multicast_addr = None
    ELSE prog[p].multicast_addr = group_list[g]

(***************************************************************************)
(* Nobody hears a group it did not connect to, under the same provisos: a  *)
(* restarted server gives out the same addresses to other groups, and the  *)
(* memberships of the old ones remain.  And unless another process runs on *)
(* its machine: a socket hears the groups of all memberships there.        *)
(***************************************************************************)
GroupMessagesStay ==
  \A p \in Process :
    /\ crashes = 0 /\ ~prog[p].misled
    /\ \A q \in Process : host[q] = host[p] => q = p
    => prog[p].overheard = {}

(***************************************************************************)
(* A client that waits for a reply gets one, unless a datagram or the      *)
(* server is lost or the client has lost the address of the server: the    *)
(* server meets no request with silence and no client waits for more       *)
(* replies than there are.                                                 *)
(***************************************************************************)
WaitsOnlyIfLost ==
  \A p \in Process :
    Waiting(p) ~> \/ ~Waiting(p)
                  \/ faults > 0 \/ crashes > 0 \/ prog[p].server_addr # server

=============================================================================
