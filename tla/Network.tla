------------------------------- MODULE Network -------------------------------
(***************************************************************************)
(* UDP between the chat clients and the server: no connection, no          *)
(* acknowledgement, no retransmission.  Datagrams to one socket are        *)
(* received in the order they arrive in.  The network may lose one, bring  *)
(* one twice, or let one overtake another; what arrives where no socket is *)
(* bound is gone.                                                          *)
(***************************************************************************)
EXTENDS Integers, Sequences, Functions

CONSTANTS
  Endpoint,   \* the addresses <<ip, sin_port>> of client hosts
  server,     \* the address of the server
  MaxFaults   \* bounds the faults of the network in a run

ASSUME ServerAssumption == server \notin Endpoint
ASSUME MaxFaultsAssumption == MaxFaults \in Nat

VARIABLES
  inbox,    \* by address: the datagrams under way to it or waiting in its socket
  faults    \* how many faults there have been

netVars == <<inbox, faults>>

NetInit == inbox = [a \in Endpoint \cup {server} |-> <<>>] /\ faults = 0

(* One after another.  Datagrams to an address nobody reads, such as that of a  *)
(* client's p2p_socket, are not kept.                                           *)
Queued(boxes, d) == [a \in DOMAIN boxes |-> IF a = d.to THEN Append(boxes[a], d) ELSE boxes[a]]

Sent(datagrams) ==
  LET boxes[n \in 0 .. Len(datagrams)] ==
        IF n = 0 THEN inbox ELSE Queued(boxes[n - 1], datagrams[n])
  IN boxes[Len(datagrams)]

Taken(a) == [inbox EXCEPT ![a] = Tail(@)]

Fault ==
  /\ faults < MaxFaults /\ faults' = faults + 1
  /\ \E a \in DOMAIN inbox : \E i \in DOMAIN inbox[a] :
       LET before == SubSeq(inbox[a], 1, i)
          after  == SubSeq(inbox[a], i + 1, Len(inbox[a]))
          d      == inbox[a][i]
       IN \/ inbox' = [inbox EXCEPT ![a] = SubSeq(before, 1, i - 1) \o after]
          \/ inbox' = [inbox EXCEPT ![a] = before \o <<d>> \o after]
          \/ /\ after # <<>>
             /\ inbox' = [inbox EXCEPT ![a] =
                            SubSeq(before, 1, i - 1) \o <<Head(after), d>> \o Tail(after)]

Undeliverable(bound) ==
  /\ \E a \in Endpoint \ bound : inbox[a] # <<>> /\ inbox' = Taken(a)
  /\ UNCHANGED faults

=============================================================================
