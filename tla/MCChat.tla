------------------------------- MODULE MCChat -------------------------------
(* A user for each record, all with every permission; ports as two-byte     *)
(* numbers, so that htons exchanges the bytes.                              *)
EXTENDS Chat, TLC

CONSTANTS hostA, hostB, pw, a1, a2, c1, c2, g1, g2

MCUser(u, ip) ==
  [username |-> u, password |-> pw, ip |-> ip, port |-> NoPort, perms |-> Permission]

MCOneUser == a1 :> MCUser(1, hostA)
MCTwoUsers == a1 :> MCUser(1, hostA) @@ a2 :> MCUser(2, hostB)

MCOneHost == [p \in Process |-> hostA]
MCTwoHosts == c1 :> hostA @@ c2 :> hostB

MCEndpoint == Ip \X Port

(* a socket always gets the same port, or on hostA also that with its bytes swapped *)
MCOnePort == {e \in MCEndpoint : e[2] = 513}
MCSwapped == {e \in MCEndpoint : e[1] = hostB => e[2] = 513}

(* a port is 256 * high + low *)
MCHtons == [port \in Port |-> 256 * (port % 256) + port \div 256]

MCLogin(u) == [op |-> "LOGIN", args |-> <<u, pw>>]
MCMessages(user) == [op : {"MSG", "P2P"}, args : {user}]
MCGroups == [op : {"CREATEMULTICAST", "GETMULTICAST"}, args : Group]

MCOperation ==
  {MCLogin(u) : u \in Username} \cup UNION {MCMessages(u) : u \in Username} \cup MCGroups

(* each writes to the other *)
MCTypedMessages ==
  c1 :> {MCLogin(1)} \cup MCMessages(2) @@ c2 :> {MCLogin(2)} \cup MCMessages(1)

(* user 1 creates groups and connects to both, user 2 to one of them *)
MCTypedGroups ==
  c1 :> {MCLogin(1)} \cup MCGroups @@ c2 :> {MCLogin(2), [op |-> "GETMULTICAST", args |-> g1]}

(* one user, alone *)
MCTypedAlone == c1 :> MCOperation

(* Once a request is served, nothing depends on it any more; and with one   *)
(* process on each host nothing does on a multicast thread without groups,  *)
(* or on a message thread without messages.                                 *)
MCServing ==
  <<heap, sessions, group_list, cpc,
    IF cpc = "recvfrom" THEN <<>> ELSE <<request, seen, found>>, used, netVars, crashes>>

MCMessageView == <<MCServing, [p \in Process |-> [prog[p] EXCEPT !.multicast_thread = None]]>>
MCGroupView == <<MCServing, [p \in Process |-> [prog[p] EXCEPT !.message_thread = None]]>>

=============================================================================
