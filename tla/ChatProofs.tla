------------------------------ MODULE ChatProofs ------------------------------
(***************************************************************************)
(* Chat for every set of clients, hosts, users, ports and groups, with any *)
(* number of faults of the network and of restarts of the server: clients  *)
(* keep the server's address and listen where messages are sent to; as     *)
(* long as nothing is lost they take no answer for another; and what they  *)
(* know of the groups is what the server knows.                            *)
(***************************************************************************)
EXTENDS Chat, ClientServerProofs, SequenceTheorems

-----------------------------------------------------------------------------
(* The inductive invariant: what a process may be in, what may be on the way *)
(* to whom, what the groups said to the processes are, and where the request *)
(* of a process and its answers are.                                         *)

(* requests, by the socket they come from *)
Asked == {[from |-> e, op |-> o.op, args |-> o.args] : e \in Endpoint, o \in Operation}

Index == 0 .. max_groups - 1

Program ==
  [pc : {"off", "login", "port", "failed", "permissions", "menu", "typing", "reply"},
   socket : Endpoint \cup {None}, asked : Asked \cup {None}, server_addr : {server, Deaf},
   message_port : Port \cup {None}, message_thread : {"none", "starting", "bound", "anywhere"},
   multicast_thread : {"none", "starting", "bound"},
   multicast_ip : Index \cup {None}, multicast_addr : Index \cup {None},
   current_group : Group \cup {BadArgs, None}, memberships : SUBSET Index,
   location : Endpoint \cup {None}, reused : BOOLEAN, misled : BOOLEAN,
   connected : SUBSET (Group \cup {BadArgs}),
   overheard : SUBSET (Group \cup {BadArgs, None})]

(* A process has a socket of its own machine; what it knows of other addresses *)
(* are addresses that other server_sockets have had.                           *)
Sane(p, q) ==
  /\ q \in Program
  /\ q.pc = "off" => q = Off
  /\ q.pc # "off" => q.socket \in Ephemeral \cap used /\ q.socket[1] = host[p]
  /\ q.pc \in {"login", "port", "permissions", "reply"} =>
       /\ q.asked \in Asked /\ q.asked.from = q.socket
       /\ q.asked.op = "LOGIN" <=> q.pc # "reply"
       /\ q.asked.op # "unknown"
  /\ q.pc = "typing" => q.location \in used
  /\ q.pc \in {"off", "login", "port"} => q.message_thread = "none" /\ q.message_port = None
  /\ q.pc = "failed" => q.message_thread \in {"starting", "anywhere"} /\ q.message_port = None
  /\ q.pc \in {"permissions", "menu", "typing", "reply"} => q.message_port = q.socket[2]
  /\ q.server_addr # server => Swap(q.socket) \in used

ProcessesSane ==
  /\ prog = [p \in Process |-> prog[p]] /\ \A p \in Process : Sane(p, prog[p])
  /\ used \subseteq Endpoint
  /\ \A p, q \in Process : Running(p) /\ Running(q) /\ prog[p].socket = prog[q].socket => p = q

AreQueues(boxes) ==
  /\ boxes = [a \in Endpoint \cup {server} |-> boxes[a]]
  /\ \A a \in Endpoint \cup {server} : \E S : boxes[a] \in Seq(S)

Queues == AreQueues(inbox)

(* A datagram on the way to a client is a message for the listener of the client *)
(* at the address with the port's bytes swapped, or answers a request sent from  *)
(* the very address it goes to.                                                  *)
Sound(a, d) ==
  /\ \/ \E l \in used : d.re = [meant |-> l] /\ a = Swap(l)
     \/ d.re \in Asked /\ d.re.from = a /\ a \in used
  /\ d.from \in {server, Deaf}
  /\ d.from = Deaf => Swap(a) \in used
  /\ d.text = "location" => d.about \in used
  /\ d.text = "port" => d.about = a[2]
  /\ d.text = "multicast ip" => d.about \in Index

FromClient(d) ==
  /\ d.from \in used /\ d.op # "unknown"
  /\ [op |-> d.op, args |-> d.args] \in Operation

Traffic ==
  /\ \A a \in Endpoint : \A i \in DOMAIN inbox[a] : Sound(a, inbox[a][i])
  /\ \A i \in DOMAIN inbox[server] : FromClient(inbox[server][i])
  /\ \A l \in Location : sessions[l] # NULL => l \in used
  /\ cpc # "recvfrom" => request \in Asked /\ request.from \in used /\ request.op # "unknown"

(* Until the server is restarted, what is said of groups stays true. *)
IsGroup(g) == g \in Group /\ group_list[g] # NULL

Told(d) ==
  d.text = "multicast ip" =>
    d.re.op = "GETMULTICAST" /\ IsGroup(d.re.args) /\ d.about = group_list[d.re.args]

Knows(p, q) ==
  /\ \A g \in q.connected : IsGroup(g)
  /\ q.memberships \subseteq {group_list[g] : g \in q.connected}
  /\ IF q.current_group = None THEN q.multicast_addr = None
     ELSE IsGroup(q.current_group) /\ q.multicast_addr = group_list[q.current_group]
  /\ (\A o \in Process : host[o] = host[p] => o = p) => q.overheard = {}

GroupsKnown ==
  crashes = 0 =>
    /\ \A a \in Endpoint : \A i \in DOMAIN inbox[a] : Told(inbox[a][i])
    /\ \A p \in Process : ~prog[p].misled => Knows(p, prog[p])

(* No datagram of the network, of an earlier client or of another client's *)
(* correspondents can come between p and the server.                       *)
OnItsOwn(p) == Running(p) /\ faults = 0 /\ ~prog[p].reused /\ ~Astray(p)

(* The request of p is under way, being served or answered, once; or lost in a *)
(* crash of the server.                                                        *)
Pending(p) == {i \in DOMAIN inbox[server] : inbox[server][i].from = prog[p].socket}

Served(p) == cpc # "recvfrom" /\ request.from = prog[p].socket

Answered(p) ==
  LET box == inbox[prog[p].socket] IN
  /\ \A i \in DOMAIN box : box[i].re = prog[p].asked
  /\ \/ prog[p].pc = "login" /\ Len(box) = 1 /\ box[1].text # "login"
     \/ prog[p].pc = "login" /\ Len(box) = 3 /\ box[1].text = "login" /\ box[2].text = "port"
     \/ prog[p].pc = "port" /\ Len(box) = 2 /\ box[1].text = "port"
     \/ prog[p].pc \in {"permissions", "reply"} /\ Len(box) = 1

Exchange(p) ==
  /\ ~prog[p].misled
  /\ \A i, j \in Pending(p) : i = j
  /\ \A i \in Pending(p) :
       LET d == inbox[server][i] IN
       prog[p].asked = [from |-> d.from, op |-> d.op, args |-> d.args]
  /\ Served(p) => request = prog[p].asked
  /\ Pending(p) # {} \/ Served(p) => prog[p].pc \in {"login", "reply"}
  /\ Served(p) => Pending(p) = {}
  /\ inbox[prog[p].socket] # <<>> => ~Served(p) /\ Pending(p) = {} /\ Answered(p)

Exchanges == \A p \in Process : OnItsOwn(p) => Exchange(p)

-----------------------------------------------------------------------------
(* The network *)

(* Sent, for the one, two or three datagrams that a step sends *)
LEMMA SentOne ==
  ASSUME NEW d
  PROVE  Sent(<<d>>) = Queued(inbox, d)
  <1> DEFINE Solves(f) ==
        f = [n \in 0 .. 1 |-> IF n = 0 THEN inbox ELSE Queued(f[n - 1], <<d>>[n])]
      f == CHOOSE g : Solves(g)
  <1>1. Solves([n \in 0 .. 1 |-> IF n = 0 THEN inbox ELSE Queued(inbox, d)])
    OBVIOUS
  <1>2. Solves(f)
    BY <1>1
  <1>3. Sent(<<d>>) = f[1]
    BY DEF Sent
  <1> HIDE DEF f
  <1>4. f[1] = Queued(f[0], d) /\ f[0] = inbox
    BY <1>2
  <1> QED
    BY <1>3, <1>4

LEMMA SentTwo ==
  ASSUME NEW d, NEW e
  PROVE  Sent(<<d, e>>) = Queued(Queued(inbox, d), e)
  <1> DEFINE Solves(f) ==
        f = [n \in 0 .. 2 |-> IF n = 0 THEN inbox ELSE Queued(f[n - 1], <<d, e>>[n])]
      f == CHOOSE g : Solves(g)
      first == Queued(inbox, d)
  <1>1. Solves([n \in 0 .. 2 |-> IF n = 0 THEN inbox ELSE IF n = 1 THEN first ELSE Queued(first, e)])
    <2> HIDE DEF first
    <2>1. first = Queued(inbox, d)
      BY DEF first
    <2> QED
      BY <2>1
  <1>2. Solves(f)
    BY <1>1
  <1>3. Sent(<<d, e>>) = f[2]
    BY DEF Sent
  <1> HIDE DEF f
  <1>4. f[2] = Queued(f[1], e) /\ f[1] = Queued(f[0], d) /\ f[0] = inbox
    BY <1>2
  <1> QED
    BY <1>3, <1>4

LEMMA SentThree ==
  ASSUME NEW d, NEW e, NEW g
  PROVE  Sent(<<d, e, g>>) = Queued(Queued(Queued(inbox, d), e), g)
  <1> DEFINE Solves(f) ==
        f = [n \in 0 .. 3 |-> IF n = 0 THEN inbox ELSE Queued(f[n - 1], <<d, e, g>>[n])]
      f == CHOOSE h : Solves(h)
      first == Queued(inbox, d)
      second == Queued(first, e)
  <1>1. Solves([n \in 0 .. 3 |-> IF n = 0 THEN inbox ELSE IF n = 1 THEN first
                                ELSE IF n = 2 THEN second ELSE Queued(second, g)])
    <2> HIDE DEF first, second
    <2>1. first = Queued(inbox, d) /\ second = Queued(first, e)
      BY DEF first, second
    <2> QED
      BY <2>1
  <1>2. Solves(f)
    BY <1>1
  <1>3. Sent(<<d, e, g>>) = f[3]
    BY DEF Sent
  <1> HIDE DEF f
  <1>4. f[3] = Queued(f[2], g) /\ f[2] = Queued(f[1], e) /\ f[1] = Queued(f[0], d) /\ f[0] = inbox
    BY <1>2
  <1> QED
    BY <1>3, <1>4

(* Every datagram of the boxes new was in old, or has come to its address from news. *)
Brings(old, new, news) ==
  \A a \in Endpoint \cup {server} : \A i \in DOMAIN new[a] :
    \/ \E j \in DOMAIN old[a] : new[a][i] = old[a][j]
    \/ new[a][i] \in news /\ new[a][i].to = a

LEMMA QueuedBoxes ==
  ASSUME NEW boxes, AreQueues(boxes), NEW d
  PROVE  /\ AreQueues(Queued(boxes, d))
         /\ \A a \in Endpoint \cup {server} :
              Queued(boxes, d)[a] = IF a = d.to THEN Append(boxes[a], d) ELSE boxes[a]
         /\ Brings(boxes, Queued(boxes, d), {d})
  <1> DEFINE D == Endpoint \cup {server}
             new == Queued(boxes, d)
  <1>1. DOMAIN boxes = D
    BY DEF AreQueues
  <1>2. /\ new = [a \in D |-> new[a]]
        /\ \A a \in D : new[a] = IF a = d.to THEN Append(boxes[a], d) ELSE boxes[a]
    BY <1>1 DEF Queued
  <1> HIDE DEF new
  <1>3. ASSUME NEW a \in D
        PROVE  /\ \E S : new[a] \in Seq(S)
               /\ \A i \in DOMAIN new[a] :
                    (\E j \in DOMAIN boxes[a] : new[a][i] = boxes[a][j]) \/ (new[a][i] = d /\ d.to = a)
    <2>1. PICK S : boxes[a] \in Seq(S)
      BY DEF AreQueues
    <2>2. CASE a = d.to
      <3>1. new[a] = Append(boxes[a], d) /\ boxes[a] \in Seq(S \cup {d})
        BY <1>2, <2>1, <2>2, SeqMonotonic
      <3>2. new[a] \in Seq(S \cup {d})
        BY <3>1
      <3> QED
        BY <2>2, <3>1, <3>2
    <2>3. CASE a # d.to
      BY <1>2, <2>1, <2>3
    <2> QED
      BY <2>2, <2>3
  <1> QED
    BY <1>2, <1>3 DEF AreQueues, Brings, new

LEMMA BringsBoth ==
  ASSUME NEW old, NEW mid, NEW new, NEW M, NEW N, Brings(old, mid, M), Brings(mid, new, N)
  PROVE  Brings(old, new, M \cup N)
  BY DEF Brings

(* What the three replies to a login do to the boxes *)
LEMMA ThreeArrive ==
  ASSUME Queues, NEW d, NEW e, NEW g, inbox' = Sent(<<d, e, g>>), e.to = d.to, g.to = d.to
  PROVE  /\ Queues' /\ Brings(inbox, inbox', {d, e, g})
         /\ \A a \in Endpoint \cup {server} :
              inbox'[a] = IF a = d.to THEN Append(Append(Append(inbox[a], d), e), g) ELSE inbox[a]
  <1>first. PICK first : first = Queued(inbox, d)
    OBVIOUS
  <1>second. PICK second : second = Queued(first, e)
    OBVIOUS
  <1>1. inbox' = Queued(second, g)
    BY <1>first, <1>second, SentThree
  <1>2. AreQueues(inbox)
    BY DEF Queues
  <1>3. /\ AreQueues(first) /\ Brings(inbox, first, {d})
        /\ \A a \in Endpoint \cup {server} :
              first[a] = IF a = d.to THEN Append(inbox[a], d) ELSE inbox[a]
    BY <1>first, <1>2, QueuedBoxes
  <1>4. /\ AreQueues(second) /\ Brings(first, second, {e})
        /\ \A a \in Endpoint \cup {server} :
              second[a] = IF a = d.to THEN Append(first[a], e) ELSE first[a]
    BY <1>second, <1>3, QueuedBoxes
  <1>5. /\ Queues' /\ Brings(second, inbox', {g})
        /\ \A a \in Endpoint \cup {server} :
              inbox'[a] = IF a = d.to THEN Append(second[a], g) ELSE second[a]
    <2>1. PICK third : third = Queued(second, g)
      OBVIOUS
    <2>2. /\ AreQueues(third) /\ Brings(second, third, {g})
          /\ \A a \in Endpoint \cup {server} :
                third[a] = IF a = d.to THEN Append(second[a], g) ELSE second[a]
      BY <1>4, <2>1, QueuedBoxes
    <2>3. inbox' = third
      BY <1>1, <2>1
    <2> QED
      BY <2>2, <2>3 DEF Queues, AreQueues
  <1>6. Brings(inbox, inbox', {d, e, g})
    <2>1. Brings(inbox, second, {d} \cup {e})
      BY <1>3, <1>4, BringsBoth
    <2>2. Brings(inbox, inbox', ({d} \cup {e}) \cup {g})
      BY <1>5, <2>1, BringsBoth
    <2> QED
      BY <2>2 DEF Brings
  <1> QED
    BY <1>3, <1>4, <1>5, <1>6 DEF Queues

LEMMA TwoArrive ==
  ASSUME Queues, NEW d, NEW e, inbox' = Sent(<<d, e>>)
  PROVE  /\ Queues' /\ Brings(inbox, inbox', {d, e})
         /\ \A a \in Endpoint \cup {server} :
              /\ a # d.to => inbox'[a] = IF a = e.to THEN Append(inbox[a], e) ELSE inbox[a]
  <1>first. PICK first : first = Queued(inbox, d)
    OBVIOUS
  <1>1. inbox' = Queued(first, e)
    BY <1>first, SentTwo
  <1>2. AreQueues(inbox)
    BY DEF Queues
  <1>3. /\ AreQueues(first) /\ Brings(inbox, first, {d})
        /\ \A a \in Endpoint \cup {server} :
              first[a] = IF a = d.to THEN Append(inbox[a], d) ELSE inbox[a]
    BY <1>first, <1>2, QueuedBoxes
  <1>4. /\ Queues' /\ Brings(first, inbox', {e})
        /\ \A a \in Endpoint \cup {server} :
              inbox'[a] = IF a = e.to THEN Append(first[a], e) ELSE first[a]
    <2>1. PICK second : second = Queued(first, e)
      OBVIOUS
    <2>2. /\ AreQueues(second) /\ Brings(first, second, {e})
          /\ \A a \in Endpoint \cup {server} :
                second[a] = IF a = e.to THEN Append(first[a], e) ELSE first[a]
      BY <1>3, <2>1, QueuedBoxes
    <2>3. inbox' = second
      BY <1>1, <2>1
    <2> QED
      BY <2>2, <2>3 DEF Queues, AreQueues
  <1>5. Brings(inbox, inbox', {d, e})
    <2>1. Brings(inbox, inbox', {d} \cup {e})
      BY <1>3, <1>4, BringsBoth
    <2> QED
      BY <2>1 DEF Brings
  <1> QED
    BY <1>3, <1>4, <1>5 DEF Queues

LEMMA OneArrives ==
  ASSUME Queues, NEW d, inbox' = Sent(<<d>>)
  PROVE  /\ Queues' /\ Brings(inbox, inbox', {d})
         /\ \A a \in Endpoint \cup {server} :
              inbox'[a] = IF a = d.to THEN Append(inbox[a], d) ELSE inbox[a]
  BY SentOne, QueuedBoxes DEF Queues

LEMMA OneIsTaken ==
  ASSUME Queues, NEW a \in Endpoint \cup {server}, inbox[a] # <<>>, inbox' = Taken(a)
  PROVE  /\ Queues' /\ Brings(inbox, inbox', {})
         /\ inbox'[a] = Tail(inbox[a])
         /\ \A b \in (Endpoint \cup {server}) \ {a} : inbox'[b] = inbox[b]
         /\ Len(inbox[a]) \in Nat \ {0} /\ DOMAIN inbox[a] = 1 .. Len(inbox[a])
         /\ Len(inbox'[a]) = Len(inbox[a]) - 1 /\ DOMAIN inbox'[a] = 1 .. Len(inbox'[a])
         /\ Head(inbox[a]) = inbox[a][1]
         /\ \A i \in DOMAIN inbox'[a] : i + 1 \in DOMAIN inbox[a] /\ inbox'[a][i] = inbox[a][i + 1]
  <1> DEFINE D == Endpoint \cup {server}
  <1>1. /\ inbox' = [b \in D |-> inbox'[b]] /\ inbox'[a] = Tail(inbox[a])
        /\ \A b \in D \ {a} : inbox'[b] = inbox[b]
    BY DEF Taken, Queues, AreQueues
  <1>2. PICK S : inbox[a] \in Seq(S)
    BY DEF Queues, AreQueues
  <1>3. Tail(inbox[a]) \in Seq(S)
    BY <1>2
  <1>4. /\ Len(inbox[a]) \in Nat \ {0} /\ DOMAIN inbox[a] = 1 .. Len(inbox[a])
        /\ Len(inbox'[a]) = Len(inbox[a]) - 1 /\ DOMAIN inbox'[a] = 1 .. Len(inbox'[a])
        /\ Head(inbox[a]) = inbox[a][1]
        /\ \A i \in 1 .. Len(inbox[a]) - 1 : inbox'[a][i] = inbox[a][i + 1]
    BY <1>1, <1>2, <1>3
  <1>5. \A i \in DOMAIN inbox'[a] : i + 1 \in DOMAIN inbox[a] /\ inbox'[a][i] = inbox[a][i + 1]
    BY <1>4
  <1>6. Queues'
    BY <1>1, <1>2, <1>3 DEF Queues, AreQueues
  <1>7. Brings(inbox, inbox', {})
    <2> SUFFICES ASSUME NEW b \in D, NEW i \in DOMAIN inbox'[b]
                 PROVE  \E j \in DOMAIN inbox[b] : inbox'[b][i] = inbox[b][j]
      BY DEF Brings
    <2>1. CASE b = a
      BY <1>5, <2>1
    <2>2. CASE b # a
      BY <1>1, <2>2
    <2> QED
      BY <2>1, <2>2
  <1> QED
    BY <1>1, <1>4, <1>5, <1>6, <1>7

-----------------------------------------------------------------------------
(* The server: what its client thread keeps beside the clients *)

(* The table of main, which nothing changes but the ports: every record in it *)
(* has the name it is found by.                                               *)
TableSound ==
  /\ heap \in [Address -> client_t]
  /\ \A a \in Address : heap[a].username = Registered[a].username
  /\ \A u \in Username : /\ data[u] \in Address \cup {NULL}
                         /\ data[u] # NULL => heap[data[u]].username = u

ServerSound ==
  /\ ClientTypeOK /\ TableSound /\ Pointers /\ NamesSought
  /\ LoginsSound /\ Sending /\ AddressedToUser /\ GroupsSound

LEMMA ClientKeepsServer ==
  ASSUME ServerSound, ClientStep, Undisturbed
  PROVE  ServerSound'
  <1>1. HeapTyped /\ ClientTypeOK /\ Pointers /\ NamesSought /\ LoginsSound /\ Sending /\ GroupsSound
    BY DEF ServerSound, TableSound, HeapTyped
  <1>2. HeapTyped' /\ NamesStay /\ UNCHANGED <<data, root, left, right>>
    BY <1>1, ClientKeepsHeap
  <1>3. \A a \in Address : heap[a] # NULL /\ heap'[a] # NULL /\ heap'[a].username = heap[a].username
    BY <1>2, NullAssumption DEF ServerSound, TableSound, NamesStay
  <1>4. TableSound'
    BY <1>2, <1>3 DEF ServerSound, TableSound, HeapTyped
  <1>5. cpc' # "lookup" => seen' = {}
    BY DEF Undisturbed
  <1>6. ASSUME cpc' = "lookup"
        PROVE  /\ Sought \in Username /\ Sought' = Sought
               /\ seen' = {data[Sought]}
    <2>1. lookup
      BY <1>6, ClientCases DEF NewRequest, recvfrom, lookup_returns, LoginSucceeds, cmd_msg, cmd_p2p,
                               CreatesGroup, TellsGroup, Declines, Answers, Send
    <2>2. /\ cpc = "dispatch" /\ UNCHANGED request
          /\ request.op \in {"LOGIN", "MSG", "P2P"} /\ request.args # BadArgs
      BY <2>1 DEF lookup, MayLogin, Serving
    <2> QED
      BY <1>1, <1>6, <2>2, RequestTyped DEF Undisturbed, avl_get, Sought
  <1>7. /\ seen' \subseteq Address \cup {NULL, Garbage}
        /\ \A a \in seen' \cap Address : heap'[a] # NULL
        /\ cpc' = "lookup" =>
             \A a \in seen' \ {NULL} : a \in Address /\ heap'[a].username = Sought'
    BY <1>3, <1>5, <1>6 DEF ServerSound, TableSound
  <1>8. ClientTypeOK'
    BY <1>1, <1>7, ClientKeepsTypes
  <1>9. Pointers'
    BY <1>1, <1>2, <1>5, <1>7, ClientKeepsPointers
  <1>10. NamesSought'
    BY <1>1, <1>7, ClientKeepsNames
  <1>11. LoginsSound'
    BY <1>1, <1>7, ClientLoginsSound
  <1>12. Sending' /\ AddressedToUser' /\ GroupsSound'
    BY <1>1, ClientKeepsSending, ClientAddresses, ClientGroupsSound
  <1> QED
    BY <1>4, <1>8, <1>9, <1>10, <1>11, <1>12 DEF ServerSound

(* A datagram taken from the server's socket is one of the requests of Operation. *)
LEMMA ServerReads ==
  ASSUME Queues, Traffic, used \subseteq Endpoint, ServerReceives
  PROVE  /\ ClientStep /\ cpc = "recvfrom" /\ cpc' = "dispatch"
         /\ LET d == inbox[server][1] IN
            /\ FromClient(d) /\ request' = [from |-> d.from, op |-> d.op, args |-> d.args]
            /\ sessions' = init_client_session(d.from)
         /\ UNCHANGED <<data, root, left, right, heap, group_list, current_group>>
  <1>1. inbox[server] # <<>> /\ inbox' = Taken(server)
    BY DEF ServerReceives
  <1>2. PICK d : d = inbox[server][1]
    OBVIOUS
  <1>3. Len(inbox[server]) \in Nat \ {0} /\ DOMAIN inbox[server] = 1 .. Len(inbox[server])
        /\ Head(inbox[server]) = d
    BY <1>1, <1>2, OneIsTaken
  <1>4. FromClient(d)
    BY <1>2, <1>3 DEF Traffic
  <1>5. recvfrom(d.from, d)
    BY <1>3 DEF ServerReceives
  <1>6. PICK o \in Operation : o = [op |-> d.op, args |-> d.args]
    BY <1>4 DEF FromClient
  <1>7. o.op = d.op /\ o.args = d.args
    BY <1>6
  <1>8. recvfrom(d.from, o)
    BY <1>5, <1>7 DEF recvfrom
  <1>9. d.from \in Location
    BY <1>4, EndpointAssumption DEF FromClient
  <1>10. ClientStep
    BY <1>8, <1>9 DEF ClientStep
  <1> QED
    BY <1>2, <1>4, <1>5, <1>10 DEF recvfrom, treeVars

LEMMA CrashKeepsServer ==
  ASSUME ServerSound, ServerCrash
  PROVE  ServerSound'
  <1>1. /\ sessions' = [l \in Location |-> NULL] /\ group_list' = [g \in Group |-> NULL]
        /\ current_group' = 0 /\ cpc' = "recvfrom" /\ request' = NULL /\ seen' = {}
        /\ found' = NULL /\ out' = <<>> /\ heap' = Registered /\ UNCHANGED data
    BY DEF ServerCrash
  <1>2. TableSound'
    BY <1>1, RegisteredAssumption DEF ServerSound, TableSound
  <1>3. ClientTypeOK'
    BY <1>1, MaxGroupsAssumption DEF ClientTypeOK
  <1>4. Pointers' /\ NamesSought'
    BY <1>1, AddressAssumption DEF Pointers, NamesSought
  <1>5. LoginsSound'
    BY <1>1 DEF LoginsSound, Leads, Reaches, LoggedIn
  <1>6. Sending' /\ AddressedToUser'
    BY <1>1 DEF Sending, AddressedToUser
  <1>7. GroupsSound'
    <2>1. {g \in Group : group_list'[g] # NULL} = {}
      BY <1>1
    <2> QED
      BY <1>1, <2>1 DEF GroupsSound
  <1> QED
    BY <1>2, <1>3, <1>4, <1>5, <1>6, <1>7 DEF ServerSound

-----------------------------------------------------------------------------
(* What the server puts on the network *)

(* an answer to the request being served, and a message, on their way *)
Answer(text, about) ==
  [to |-> request.from, from |-> server, text |-> text, about |-> about, re |-> request]

Message(l, about) ==
  [to |-> Swap(l), from |-> server, text |-> "MSG", about |-> about, re |-> [meant |-> l]]

LEMMA OneRouted ==
  ASSUME NEW d, out' = <<d>>
  PROVE  [i \in DOMAIN out' |-> Routed(out'[i])] = <<Routed(d)>>
  OBVIOUS

LEMMA TwoRouted ==
  ASSUME NEW d, NEW e, out' = <<d, e>>
  PROVE  [i \in DOMAIN out' |-> Routed(out'[i])] = <<Routed(d), Routed(e)>>
  OBVIOUS

LEMMA ThreeRouted ==
  ASSUME NEW d, NEW e, NEW g, out' = <<d, e, g>>
  PROVE  [i \in DOMAIN out' |-> Routed(out'[i])] = <<Routed(d), Routed(e), Routed(g)>>
  OBVIOUS

LEMMA RepliesRouted ==
  ASSUME NEW text, NEW about
  PROVE  Routed(Reply(text, about)) = Answer(text, about)
  BY DEF Routed, Reply, Answer, Recipient

LEMMA MessagesRouted ==
  ASSUME NEW l, NEW about
  PROVE  Routed(Forward(l, about)) = Message(l, about)
  BY DEF Routed, Forward, Message, Recipient

(* The ways a request ends, by what is then on the network *)
LoginSent ==
  /\ request.op = "LOGIN"
  /\ \E perms : inbox' = Sent(<<Answer("login", NULL), Answer("port", request.from[2]),
                                 Answer("permissions", perms)>>)

MessageSent ==
  /\ request.op = "MSG"
  /\ \E l \in Location :
       /\ sessions[l] # NULL
       /\ inbox' = Sent(<<Message(l, request.args), Answer("sent", NULL)>>)

AnswerSent ==
  \E text, about :
    /\ inbox' = Sent(<<Answer(text, about)>>)
    /\ text \notin {"login", "port"}
    /\ text = "location" => about \in Location /\ sessions[about] # NULL
    /\ text = "multicast ip" =>
         /\ request.op = "GETMULTICAST" /\ request.args # BadArgs
         /\ about = group_list[request.args] /\ about # NULL

LEMMA ServerSends ==
  ASSUME ServerWorks, NamesSought
  PROVE  /\ ClientStep /\ cpc # "recvfrom" /\ request' = request
         /\ \A l \in Location : sessions'[l] # NULL => sessions[l] # NULL \/ l = request.from
         /\ cpc' # "recvfrom" => inbox' = inbox
         /\ cpc' = "recvfrom" => LoginSent \/ MessageSent \/ AnswerSent
  <1>1. /\ ClientStep /\ cpc # "recvfrom" /\ request' = request
        /\ \A l \in Location : sessions'[l] # NULL => sessions[l] # NULL \/ l = request.from
    <2>1. ClientStep /\ cpc # "recvfrom"
      BY DEF ServerWorks, ClientStep, ClientProgress, refuse, lookup, lookup_returns, user_not_found,
             cmd_login, session_not_found, cmd_msg, cmd_p2p, cmd_createmulticast, cmd_getmulticast,
             ServingGroup, Serving, NeedsLogin, NotPermitted, InvalidArguments, MayLogin, Denied,
             Permitted
    <2>2. \/ lookup \/ lookup_returns \/ LoginSucceeds \/ cmd_msg \/ cmd_p2p
          \/ CreatesGroup \/ TellsGroup \/ Declines
      BY <2>1, ClientCases DEF NewRequest, recvfrom
    <2>3. request' = request /\ (LoginSucceeds \/ UNCHANGED sessions)
      BY <2>2 DEF lookup, lookup_returns, LoginSucceeds, cmd_msg, cmd_p2p, CreatesGroup, TellsGroup,
                  Declines, Answers, Send
    <2>4. ASSUME LoginSucceeds, NEW l \in Location, l # request.from
          PROVE  sessions'[l] # NULL => sessions[l] # NULL
      BY <2>4 DEF LoginSucceeds
    <2> QED
      BY <2>1, <2>3, <2>4
  <1>2. cpc' # "recvfrom" => inbox' = inbox
    BY DEF ServerWorks
  <1>3. ASSUME cpc' = "recvfrom"
        PROVE  LoginSent \/ MessageSent \/ AnswerSent
    <2>1. inbox' = Sent([i \in DOMAIN out' |-> Routed(out'[i])])
      BY <1>3 DEF ServerWorks
    <2>2. \/ LoginSucceeds
          \/ cmd_msg
          \/ cmd_p2p
          \/ CreatesGroup /\ out' = <<Reply("group", current_group)>>
          \/ TellsGroup /\ out' = <<Reply("multicast ip", group_list[request.args])>>
          \/ Declines /\ \E text : text \notin Telling /\ out' = <<Reply(text, NULL)>>
      BY <1>1, <1>3, WhatIsSent
    <2>3. CASE LoginSucceeds
      <3>1. PICK perms : /\ request.op = "LOGIN"
                         /\ out' = <<Reply("login", NULL), Reply("port", request.from[2]),
                                     Reply("permissions", perms)>>
        BY <2>3 DEF LoginSucceeds, Send
      <3> QED
        BY <2>1, <3>1, ThreeRouted, RepliesRouted DEF LoginSent
    <2>4. CASE cmd_msg
      <3>1. PICK l : /\ request.op = "MSG" /\ l \in Location /\ sessions[l] # NULL
                     /\ out' = <<Forward(l, request.args), Reply("sent", NULL)>>
        BY <2>4 DEF cmd_msg, HasSession, Send
      <3>2. inbox' = Sent(<<Message(l, request.args), Answer("sent", NULL)>>)
        BY <2>1, <3>1, TwoRouted, RepliesRouted, MessagesRouted
      <3> QED
        BY <3>1, <3>2 DEF MessageSent
    <2>5. ASSUME NEW text, NEW about, out' = <<Reply(text, about)>>, text \notin {"login", "port"},
                 text = "location" => about \in Location /\ sessions[about] # NULL,
                 text = "multicast ip" => /\ request.op = "GETMULTICAST" /\ request.args # BadArgs
                                          /\ about = group_list[request.args] /\ about # NULL
          PROVE  AnswerSent
      <3>1. PICK d : d = Reply(text, about)
        OBVIOUS
      <3>2. inbox' = Sent(<<Routed(d)>>)
        BY <2>1, <2>5, <3>1, OneRouted
      <3>3. Routed(d) = Answer(text, about)
        BY <3>1, RepliesRouted
      <3> QED
        BY <2>5, <3>2, <3>3 DEF AnswerSent
    <2>6. CASE cmd_p2p
      <3>1. PICK text, l : /\ text = "location" /\ l \in Location /\ sessions[l] # NULL
                           /\ out' = <<Reply(text, l)>>
        BY <2>6 DEF cmd_p2p, HasSession, Send
      <3>2. text \notin {"login", "port", "multicast ip"}
        BY <3>1
      <3> QED
        BY <2>5, <3>1, <3>2
    <2>7. CASE CreatesGroup /\ out' = <<Reply("group", current_group)>>
      <3>1. PICK text, g : text = "group" /\ g = current_group
        OBVIOUS
      <3>2. out' = <<Reply(text, g)>> /\ text \notin {"login", "port", "location", "multicast ip"}
        BY <2>7, <3>1
      <3> QED
        BY <2>5, <3>2
    <2>8. CASE TellsGroup /\ out' = <<Reply("multicast ip", group_list[request.args])>>
      <3>1. PICK text, g : text = "multicast ip" /\ g = group_list[request.args]
        OBVIOUS
      <3>2. out' = <<Reply(text, g)>> /\ text \notin {"login", "port", "location"}
            /\ request.op = "GETMULTICAST" /\ request.args # BadArgs
            /\ g = group_list[request.args] /\ g # NULL
        BY <2>8, <3>1 DEF TellsGroup
      <3> QED
        BY <2>5, <3>2
    <2>9. CASE Declines /\ \E text : text \notin Telling /\ out' = <<Reply(text, NULL)>>
      BY <2>5, <2>9 DEF Telling
    <2> QED
      BY <2>2, <2>3, <2>4, <2>6, <2>7, <2>8, <2>9
  <1> QED
    BY <1>1, <1>2, <1>3

-----------------------------------------------------------------------------
(* What is under way *)

LEMMA OwnElements ==
  ASSUME NEW S, NEW s \in Seq(S)
  PROVE  s \in Seq({s[j] : j \in DOMAIN s})
  <1>1. Len(s) \in Nat /\ DOMAIN s = 1 .. Len(s) /\ s \in [1 .. Len(s) -> S]
    BY LenProperties
  <1>2. s \in [1 .. Len(s) -> {s[j] : j \in DOMAIN s}]
    BY <1>1
  <1> QED
    BY <1>1, <1>2, SeqDef

(* The network loses, repeats and reorders, and makes nothing up. *)
LEMMA FaultBringsNothing ==
  ASSUME Queues, Fault
  PROVE  Queues' /\ Brings(inbox, inbox', {})
  <1> DEFINE D == Endpoint \cup {server}
  <1> DEFINE Disturbed(a, i) ==
        LET before == SubSeq(inbox[a], 1, i)
            after  == SubSeq(inbox[a], i + 1, Len(inbox[a]))
            d      == inbox[a][i]
        IN \/ inbox' = [inbox EXCEPT ![a] = SubSeq(before, 1, i - 1) \o after]
           \/ inbox' = [inbox EXCEPT ![a] = before \o <<d>> \o after]
           \/ /\ after # <<>>
              /\ inbox' = [inbox EXCEPT ![a] =
                             SubSeq(before, 1, i - 1) \o <<Head(after), d>> \o Tail(after)]
  <1>at. PICK a \in D : \E i \in DOMAIN inbox[a] : Disturbed(a, i)
    BY DEF Fault, Queues, AreQueues
  <1>1. PICK i \in DOMAIN inbox[a] : Disturbed(a, i)
    BY <1>at
  <1>2. PICK T : inbox[a] \in Seq(T)
    BY DEF Queues, AreQueues
  <1>3. PICK S : S = {inbox[a][j] : j \in DOMAIN inbox[a]}
    OBVIOUS
  <1>4. inbox[a] \in Seq(S) /\ inbox[a][i] \in S
    BY <1>2, <1>3, OwnElements
  <1>5. PICK before, after : /\ before = SubSeq(inbox[a], 1, i)
                             /\ after = SubSeq(inbox[a], i + 1, Len(inbox[a]))
    OBVIOUS
  <1>6. i \in 1 .. Len(inbox[a]) /\ Len(inbox[a]) \in Nat
    BY <1>4, LenProperties
  <1>7. before \in Seq(S) /\ after \in Seq(S) /\ Len(before) = i
    BY <1>4, <1>5, <1>6
  <1>8. SubSeq(before, 1, i - 1) \in Seq(S)
    BY <1>6, <1>7
  <1>9. after # <<>> => Head(after) \in S /\ Tail(after) \in Seq(S)
    BY <1>7
  <1>10. /\ inbox' = [b \in D |-> inbox'[b]]
         /\ \A b \in D \ {a} : inbox'[b] = inbox[b]
         /\ inbox'[a] \in Seq(S)
    <2>1. \/ inbox' = [inbox EXCEPT ![a] = SubSeq(before, 1, i - 1) \o after]
          \/ inbox' = [inbox EXCEPT ![a] = before \o <<inbox[a][i]>> \o after]
          \/ /\ after # <<>>
             /\ inbox' = [inbox EXCEPT ![a] =
                   SubSeq(before, 1, i - 1) \o <<Head(after), inbox[a][i]>> \o Tail(after)]
      BY <1>1, <1>5
    <2>2. /\ SubSeq(before, 1, i - 1) \o after \in Seq(S)
          /\ before \o <<inbox[a][i]>> \o after \in Seq(S)
      BY <1>4, <1>7, <1>8
    <2>3. after # <<>> =>
            SubSeq(before, 1, i - 1) \o <<Head(after), inbox[a][i]>> \o Tail(after) \in Seq(S)
      <3>1. after # <<>> => <<Head(after), inbox[a][i]>> \in Seq(S)
        BY <1>4, <1>9
      <3> QED
        BY <1>8, <1>9, <3>1
    <2>4. PICK new : new \in Seq(S) /\ inbox' = [inbox EXCEPT ![a] = new]
      BY <2>1, <2>2, <2>3
    <2> QED
      BY <2>4 DEF Queues, AreQueues
  <1>11. Queues'
    BY <1>10 DEF Queues, AreQueues
  <1>12. ASSUME NEW j \in DOMAIN inbox'[a]
         PROVE  \E k \in DOMAIN inbox[a] : inbox'[a][j] = inbox[a][k]
    <2>1. inbox'[a][j] \in S
      BY <1>10, ElementOfSeq, LenProperties
    <2> QED
      BY <1>3, <2>1
  <1> QED
    BY <1>10, <1>11, <1>12 DEF Brings

LEMMA TrafficGrows ==
  ASSUME Traffic, NEW news, Brings(inbox, inbox', news), used \subseteq used',
         \A d \in news : /\ d.to \in Endpoint => Sound(d.to, d)'
                         /\ d.to = server => FromClient(d)',
         \A l \in Location : sessions'[l] # NULL => l \in used',
         cpc' # "recvfrom" =>
           request' \in Asked /\ request'.from \in used' /\ request'.op # "unknown"
  PROVE  Traffic'
  <1>1. ASSUME NEW a \in Endpoint, NEW i \in DOMAIN inbox'[a], NEW d, d = inbox'[a][i]
        PROVE  Sound(a, d)'
    <2>1. CASE \E j \in DOMAIN inbox[a] : d = inbox[a][j]
      <3>1. Sound(a, d)
        BY <2>1 DEF Traffic
      <3> QED
        BY <3>1 DEF Sound
    <2>2. CASE d \in news /\ d.to = a
      BY <2>2
    <2> QED
      BY <1>1, <2>1, <2>2 DEF Brings
  <1>2. ASSUME NEW i \in DOMAIN inbox'[server], NEW d, d = inbox'[server][i]
        PROVE  FromClient(d)'
    <2>1. CASE \E j \in DOMAIN inbox[server] : d = inbox[server][j]
      <3>1. FromClient(d)
        BY <2>1 DEF Traffic
      <3> QED
        BY <3>1 DEF FromClient
    <2>2. CASE d \in news /\ d.to = server
      BY <2>2
    <2> QED
      BY <1>2, <2>1, <2>2 DEF Brings
  <1> QED
    BY <1>1, <1>2 DEF Traffic

LEMMA AnswerIsSound ==
  ASSUME Traffic, cpc # "recvfrom", NEW text, NEW about,
         text = "location" => about \in used,
         text = "port" => about = request.from[2],
         text = "multicast ip" => about \in Index
  PROVE  /\ Answer(text, about).to = request.from
         /\ Sound(request.from, Answer(text, about))
  BY SentinelAssumption DEF Traffic, Sound, Answer

LEMMA MessageIsSound ==
  ASSUME NEW l \in used, used \subseteq Endpoint, NEW about
  PROVE  /\ Message(l, about).to = Swap(l)
         /\ Sound(Swap(l), Message(l, about))
  BY SentinelAssumption DEF Sound, Message

LEMMA ServerKeepsTraffic ==
  ASSUME ServerSound, Queues, Traffic, used \subseteq Endpoint, UNCHANGED used,
         ServerReceives \/ ServerWorks \/ ServerCrash
  PROVE  Queues' /\ Traffic'
  <1>1. CASE ServerReceives
    <2>1. PICK d : d = inbox[server][1]
      OBVIOUS
    <2>2. /\ FromClient(d) /\ request' = [from |-> d.from, op |-> d.op, args |-> d.args]
          /\ sessions' = init_client_session(d.from)
      BY <1>1, <2>1, ServerReads
    <2>3. Queues' /\ Brings(inbox, inbox', {})
      BY <1>1, OneIsTaken DEF ServerReceives
    <2>4. /\ d.from \in used /\ d.from \in Endpoint
          /\ request' \in Asked /\ request'.from = d.from /\ request'.op # "unknown"
      <3>1. d.from \in used /\ d.op # "unknown" /\ [op |-> d.op, args |-> d.args] \in Operation
        BY <2>2 DEF FromClient
      <3>2. PICK o \in Operation : o = [op |-> d.op, args |-> d.args]
        BY <3>1
      <3>3. request' = [from |-> d.from, op |-> o.op, args |-> o.args]
        BY <2>2, <3>2
      <3> QED
        BY <2>2, <3>1, <3>2, <3>3 DEF Asked
    <2>5. \A l \in Location : sessions'[l] # NULL => sessions[l] # NULL \/ l = d.from
      BY <2>2, <2>4, EndpointAssumption DEF init_client_session, ServerSound, ClientTypeOK
    <2>6. \A l \in Location : sessions'[l] # NULL => l \in used
      BY <2>4, <2>5 DEF Traffic
    <2> QED
      BY <2>3, <2>4, <2>6, TrafficGrows
  <1>2. CASE ServerWorks
    <2>1. /\ cpc # "recvfrom" /\ request' = request
          /\ \A l \in Location : sessions'[l] # NULL => sessions[l] # NULL \/ l = request.from
          /\ cpc' # "recvfrom" => inbox' = inbox
          /\ cpc' = "recvfrom" => LoginSent \/ MessageSent \/ AnswerSent
      BY <1>2, ServerSends DEF ServerSound
    <2>2. /\ request \in Asked /\ request.from \in used /\ request.op # "unknown"
          /\ request.from \in Endpoint
          /\ \A l \in Location : sessions'[l] # NULL => l \in used
      BY <2>1 DEF Traffic
    <2>3. ASSUME NEW news, Brings(inbox, inbox', news),
                 \A d \in news : d.to \in Endpoint /\ Sound(d.to, d)
          PROVE  Traffic'
      <3>1. \A d \in news : /\ d.to \in Endpoint => Sound(d.to, d)'
                            /\ d.to = server => FromClient(d)'
        BY <2>3, ServerAssumption DEF Sound
      <3> QED
        BY <2>1, <2>2, <2>3, <3>1, TrafficGrows
    <2>4. CASE cpc' # "recvfrom"
      <3>1. inbox' = inbox
        BY <2>1, <2>4
      <3>2. Brings(inbox, inbox', {})
        BY <3>1 DEF Brings
      <3> QED
        BY <2>3, <3>1, <3>2 DEF Queues
    <2>5. CASE LoginSent
      <3>perms. PICK perms :
            inbox' = Sent(<<Answer("login", NULL), Answer("port", request.from[2]),
                            Answer("permissions", perms)>>)
        BY <2>5 DEF LoginSent
      <3>1. PICK d, e, g : /\ d = Answer("login", NULL) /\ e = Answer("port", request.from[2])
                          /\ g = Answer("permissions", perms)
        OBVIOUS
      <3>2. \A x \in {d, e, g} : x.to = request.from /\ Sound(request.from, x)
        <4>1. d.to = request.from /\ Sound(request.from, d)
          BY <2>1, <3>1, AnswerIsSound
        <4>2. e.to = request.from /\ Sound(request.from, e)
          BY <2>1, <3>1, AnswerIsSound
        <4>3. g.to = request.from /\ Sound(request.from, g)
          BY <2>1, <3>1, AnswerIsSound
        <4> QED
          BY <4>1, <4>2, <4>3
      <3>3. inbox' = Sent(<<d, e, g>>)
        BY <3>perms, <3>1
      <3>4. Queues' /\ Brings(inbox, inbox', {d, e, g})
        BY <3>2, <3>3, ThreeArrive
      <3> QED
        BY <2>2, <2>3, <3>2, <3>4
    <2>6. CASE MessageSent
      <3>1. PICK l \in Location : /\ sessions[l] # NULL
                                 /\ inbox' = Sent(<<Message(l, request.args), Answer("sent", NULL)>>)
        BY <2>6 DEF MessageSent
      <3>2. l \in used
        BY <3>1 DEF Traffic
      <3>3. PICK d, e : d = Message(l, request.args) /\ e = Answer("sent", NULL)
        OBVIOUS
      <3>4. d.to \in Endpoint /\ Sound(d.to, d)
        BY <3>2, <3>3, MessageIsSound, SwapAssumption
      <3>5. e.to \in Endpoint /\ Sound(e.to, e)
        BY <2>1, <2>2, <3>3, AnswerIsSound
      <3>6. Queues' /\ Brings(inbox, inbox', {d, e})
        BY <3>1, <3>3, TwoArrive
      <3> QED
        BY <2>3, <3>4, <3>5, <3>6
    <2>7. CASE AnswerSent
      <3>1. PICK text, about :
              /\ inbox' = Sent(<<Answer(text, about)>>)
              /\ text \notin {"login", "port"}
              /\ text = "location" => about \in Location /\ sessions[about] # NULL
              /\ text = "multicast ip" =>
                   /\ request.op = "GETMULTICAST" /\ request.args # BadArgs
                   /\ about = group_list[request.args] /\ about # NULL
        BY <2>7 DEF AnswerSent
      <3>2. text = "location" => about \in used
        BY <3>1 DEF Traffic
      <3>3. text = "multicast ip" => about \in Index
        <4>1. text = "multicast ip" => request.args \in Group
          BY <2>1, <3>1, RequestTyped DEF ServerSound
        <4> QED
          BY <3>1, <4>1 DEF ServerSound, ClientTypeOK, Index
      <3>4. PICK d : d = Answer(text, about)
        OBVIOUS
      <3>5. d.to = request.from /\ Sound(request.from, d)
        BY <2>1, <3>1, <3>2, <3>3, <3>4, AnswerIsSound
      <3>6. Queues' /\ Brings(inbox, inbox', {d})
        BY <3>1, <3>4, OneArrives
      <3> QED
        BY <2>2, <2>3, <3>5, <3>6
    <2> QED
      BY <2>1, <2>4, <2>5, <2>6, <2>7
  <1>3. CASE ServerCrash
    <2>1. /\ inbox' = [inbox EXCEPT ![server] = <<>>] /\ cpc' = "recvfrom"
          /\ sessions' = [l \in Location |-> NULL]
      BY <1>3 DEF ServerCrash
    <2>2. Queues'
      <3>1. <<>> \in Seq({})
        OBVIOUS
      <3> QED
        BY <2>1, <3>1 DEF Queues, AreQueues
    <2>3. Brings(inbox, inbox', {})
      <3>1. inbox'[server] = <<>> /\ \A a \in Endpoint : inbox'[a] = inbox[a]
        BY <2>1, ServerAssumption DEF Queues, AreQueues
      <3>2. DOMAIN inbox'[server] = {}
        BY <3>1
      <3> QED
        BY <3>1, <3>2 DEF Brings
    <2>4. /\ \A l \in Location : sessions'[l] # NULL => l \in used'
          /\ cpc' = "recvfrom" /\ used \subseteq used'
      BY <2>1
    <2>5. Traffic'
      BY <2>3, <2>4, TrafficGrows
    <2> QED
      BY <2>2, <2>5
  <1> QED
    BY <1>1, <1>2, <1>3

-----------------------------------------------------------------------------
(* The steps of a process *)

Fields ==
  {"pc", "socket", "asked", "server_addr", "message_port", "message_thread", "multicast_thread",
   "multicast_ip", "multicast_addr", "current_group", "memberships", "location",
   "reused", "misled", "connected", "overheard"}

(* All but the fields of changing stay. *)
Alike(q, r, changing) == \A f \in Fields \ changing : q[f] = r[f]

LEMMA OffIsProgram == Off \in Program
  BY DEF Off, Program

LEMMA ToMenuIs ==
  ASSUME NEW q \in Program
  PROVE  /\ ToMenu(q) \in Program /\ ToMenu(q).pc = "menu"
         /\ Alike(ToMenu(q), q, {"pc", "asked"})
  BY DEF Program, ToMenu, Alike, Fields

LEMMA AfterIs ==
  ASSUME NEW p, prog[p] \in Program, Arrived(p).from \in {server, Deaf}
  PROVE  /\ After(p) \in Program
         /\ After(p).server_addr = Arrived(p).from
         /\ After(p).misled = (prog[p].misled \/ Arrived(p).re # prog[p].asked)
         /\ Alike(After(p), prog[p], {"server_addr", "misled"})
  <1>1. PICK d : d = Arrived(p)
    OBVIOUS
  <1>2. PICK q : q = prog[p]
    OBVIOUS
  <1>3. PICK m : m = (q.misled \/ d.re # q.asked)
    OBVIOUS
  <1>4. m \in BOOLEAN /\ q \in Program /\ d.from \in {server, Deaf}
    BY <1>1, <1>2, <1>3 DEF Program
  <1>5. After(p) = [q EXCEPT !.server_addr = d.from, !.misled = m]
    BY <1>1, <1>2, <1>3, <1>4 DEF After, Program
  <1>6. After(p) \in Program
    BY <1>4, <1>5, ZenonT(60) DEF Program
  <1>7. After(p).server_addr = d.from /\ After(p).misled = m
    BY <1>4, <1>5 DEF Program
  <1>8. Alike(After(p), q, {"server_addr", "misled"})
    BY <1>4, <1>5 DEF Program, Alike, Fields
  <1> QED
    BY <1>1, <1>2, <1>3, <1>6, <1>7, <1>8

(* what becomes of q when it reads d and goes on *)
Taking(q, d, r) ==
  /\ r \in Program /\ r.server_addr = d.from /\ r.misled = (q.misled \/ d.re # q.asked)
  /\ \/ /\ q.pc = "login" /\ d.text = "login" /\ r.pc = "port"
        /\ Alike(r, q, {"pc", "server_addr", "misled"})
     \/ /\ q.pc = "port" /\ d.text = "port" /\ r.pc = "permissions" /\ r.message_port = d.about
        /\ Alike(r, q, {"pc", "server_addr", "misled", "message_thread", "message_port"})
     \/ /\ q.pc = "port" /\ d.text # "port" /\ r.pc = "failed" /\ r.message_thread = "starting"
        /\ Alike(r, q, {"pc", "server_addr", "misled", "message_thread"})
     \/ /\ q.pc \in {"permissions", "reply"} /\ r.pc = "menu"
        /\ Alike(r, q, {"pc", "asked", "server_addr", "misled", "multicast_ip"})
     \/ /\ q.pc = "reply" /\ d.text = "location" /\ r.pc = "typing" /\ r.location = d.about
        /\ Alike(r, q, {"pc", "asked", "server_addr", "misled", "location"})
     \/ /\ q.pc = "reply" /\ d.text = "multicast ip" /\ r.pc = "menu"
        /\ r.multicast_addr = d.about /\ r.current_group = q.asked.args
        /\ r.memberships = q.memberships \cup {d.about}
        /\ r.connected = q.connected \cup {q.asked.args}
        /\ Alike(r, q, {"pc", "asked", "server_addr", "misled", "multicast_ip", "multicast_addr",
                        "current_group", "memberships", "connected"})

Becomes(p, r) == prog' = [prog EXCEPT ![p] = r]

Reads(p) ==
  /\ inbox[prog[p].socket] # <<>> /\ inbox' = Taken(prog[p].socket) /\ UNCHANGED <<used, faults>>
  /\ \/ Becomes(p, Off)
     \/ \E r : Becomes(p, r) /\ Taking(prog[p], inbox[prog[p].socket][1], r)

(* A process waits at a socket of its own, for what Traffic says can come there. *)
LEMMA FirstIsSound ==
  ASSUME Queues, Traffic, ProcessesSane, NEW p \in Process, Running(p), inbox[prog[p].socket] # <<>>
  PROVE  /\ prog[p].socket \in Endpoint /\ prog[p].socket \in used
         /\ Arrived(p) = inbox[prog[p].socket][1]
         /\ Sound(prog[p].socket, Arrived(p))
  <1>1. PICK a \in Endpoint : a = prog[p].socket /\ a \in used
    BY DEF ProcessesSane, Sane, Running
  <1>2. PICK T : inbox[a] \in Seq(T)
    BY DEF Queues, AreQueues
  <1>3. 1 \in DOMAIN inbox[a] /\ Head(inbox[a]) = inbox[a][1]
    BY <1>1, <1>2
  <1> QED
    BY <1>1, <1>3 DEF Traffic, Arrived

LEMMA ProgressReads ==
  ASSUME Queues, Traffic, ProcessesSane, NEW p \in Process, ProgramProgress(p), ~fail(p)
  PROVE  Running(p) /\ Reads(p)
  <1>1. Running(p) /\ inbox[prog[p].socket] # <<>> /\ inbox' = Taken(prog[p].socket)
        /\ UNCHANGED <<used, faults>>
    BY DEF ProgramProgress, AwaitLogin, AwaitPort, AwaitPermissions, print_reply, send_p2p,
           connect_multicast, AwaitReply, Receives, Running
  <1>2. PICK d : d = Arrived(p)
    OBVIOUS
  <1>3. PICK q : q = prog[p]
    OBVIOUS
  <1>4. /\ d = inbox[q.socket][1] /\ Sound(q.socket, d) /\ q.socket \in used /\ q.socket \in Endpoint
        /\ q.socket[2] \in Port
    BY <1>1, <1>2, <1>3, FirstIsSound, EndpointAssumption DEF Location
  <1>5. q \in Program /\ d.from \in {server, Deaf}
        /\ (q.pc \in {"login", "port", "permissions", "reply"} => q.asked \in Asked)
    BY <1>3, <1>4 DEF ProcessesSane, Sane, Sound
  <1>6. PICK m : m = After(p)
    OBVIOUS
  <1>7. /\ m \in Program /\ m.server_addr = d.from /\ m.misled = (q.misled \/ d.re # q.asked)
        /\ Alike(m, q, {"server_addr", "misled"})
    BY <1>2, <1>3, <1>5, <1>6, AfterIs
  <1>8. PICK n : n = ToMenu(m)
    OBVIOUS
  <1>9. n \in Program /\ n.pc = "menu" /\ Alike(n, m, {"pc", "asked"})
    BY <1>7, <1>8, ToMenuIs
  <1>10. CASE AwaitLogin(p)
    <2>1. q.pc = "login" /\ (Becomes(p, Off) \/ (d.text = "login" /\ Becomes(p, [m EXCEPT !.pc = "port"])))
      BY <1>2, <1>3, <1>6, <1>10 DEF AwaitLogin, Becomes
    <2>2. PICK r : r = [m EXCEPT !.pc = "port"]
      OBVIOUS
    <2>3. r \in Program /\ r.pc = "port" /\ Alike(r, m, {"pc"})
      BY <1>7, <2>2 DEF Program, Alike, Fields
    <2>4. q.pc = "login" /\ d.text = "login" => Taking(q, d, r)
      BY <1>7, <2>3 DEF Taking, Alike, Fields
    <2> QED
      BY <1>1, <1>3, <1>4, <2>1, <2>2, <2>4 DEF Reads
  <1>11. CASE AwaitPort(p)
    <2> DEFINE bind(a) == [m EXCEPT !.pc = "permissions", !.message_thread = "starting", !.message_port = a]
    <2> DEFINE failed == [m EXCEPT !.pc = "failed", !.message_thread = "starting"]
    <2>1. /\ q.pc = "port"
          /\ \/ d.text # "port" /\ Becomes(p, failed)
             \/ d.text = "port" /\ Becomes(p, bind(d.about))
      BY <1>2, <1>3, <1>6, <1>11 DEF AwaitPort, Becomes
    <2>2. PICK r, f : r = bind(d.about) /\ f = failed
      OBVIOUS
    <2>3. d.text = "port" => d.about \in Port
      BY <1>4 DEF Sound
    <2>4. d.text = "port" =>
            /\ r \in Program /\ r.pc = "permissions" /\ r.message_port = d.about
            /\ Alike(r, m, {"pc", "message_thread", "message_port"})
      BY <1>7, <2>2, <2>3 DEF Program, Alike, Fields
    <2>5. q.pc = "port" /\ d.text = "port" => Taking(q, d, r)
      BY <1>7, <2>4 DEF Taking, Alike, Fields
    <2>6. f \in Program /\ f.pc = "failed" /\ f.message_thread = "starting"
          /\ Alike(f, m, {"pc", "message_thread"})
      BY <1>7, <2>2 DEF Program, Alike, Fields
    <2>7. q.pc = "port" /\ d.text # "port" => Taking(q, d, f)
      BY <1>7, <2>6 DEF Taking, Alike, Fields
    <2> QED
      BY <1>1, <1>3, <1>4, <2>1, <2>2, <2>5, <2>7 DEF Reads
  <1>12. ASSUME q.pc \in {"permissions", "reply"}, Becomes(p, n)
         PROVE  Reads(p)
    <2>1. Taking(q, d, n)
      BY <1>7, <1>9, <1>12 DEF Taking, Alike, Fields
    <2> QED
      BY <1>1, <1>3, <1>4, <1>12, <2>1 DEF Reads
  <1>13. CASE AwaitPermissions(p) \/ print_reply(p)
    <2>1. /\ q.pc \in {"permissions", "reply"}
          /\ prog' = [prog EXCEPT ![p] = ToMenu(After(p))]
      BY <1>3, <1>13 DEF AwaitPermissions, print_reply, AwaitReply
    <2> QED
      BY <1>1, <1>6, <1>8, <1>12, <2>1 DEF Becomes
  <1>14. CASE send_p2p(p)
    <2> DEFINE prompt(l) == [m EXCEPT !.pc = "typing", !.asked = None, !.location = l]
    <2>1. q.pc = "reply" /\ (Becomes(p, n) \/ (d.text = "location" /\ Becomes(p, prompt(d.about))))
      BY <1>2, <1>3, <1>6, <1>8, <1>14 DEF send_p2p, AwaitReply, Becomes
    <2>2. PICK r : r = prompt(d.about)
      OBVIOUS
    <2>3. d.text = "location" => d.about \in Endpoint
      BY <1>4 DEF Sound, ProcessesSane
    <2>4. d.text = "location" =>
            /\ r \in Program /\ r.pc = "typing" /\ r.location = d.about
            /\ Alike(r, m, {"pc", "asked", "location"})
      BY <1>7, <2>2, <2>3 DEF Program, Alike, Fields
    <2>5. q.pc = "reply" /\ d.text = "location" => Taking(q, d, r)
      BY <1>7, <2>4 DEF Taking, Alike, Fields
    <2> QED
      BY <1>1, <1>3, <1>4, <1>12, <2>1, <2>2, <2>5 DEF Reads
  <1>15. CASE connect_multicast(p)
    <2> DEFINE tried(a) == [n EXCEPT !.multicast_ip = a]
               joined(a, g) == [n EXCEPT !.multicast_ip = a, !.multicast_addr = a, !.current_group = g,
                                         !.memberships = @ \cup {a}, !.connected = @ \cup {g}]
    <2>1. /\ q.pc = "reply" /\ q.asked.op = "GETMULTICAST"
          /\ \/ Becomes(p, n)
             \/ d.text = "multicast ip" /\ Becomes(p, tried(d.about))
             \/ d.text = "multicast ip" /\ Becomes(p, joined(d.about, q.asked.args))
      BY <1>2, <1>3, <1>6, <1>8, <1>15 DEF connect_multicast, AwaitReply, Becomes, Joined
    <2>2. PICK r, t : r = tried(d.about) /\ t = joined(d.about, q.asked.args)
      OBVIOUS
    <2>3. d.text = "multicast ip" => d.about \in Index
      BY <1>4 DEF Sound
    <2>4. q.asked.args \in Group \cup {BadArgs}
      <3>1. q.pc = "reply" /\ q.asked.op = "GETMULTICAST"
        BY <1>3, <1>15 DEF connect_multicast, AwaitReply
      <3>2. PICK e \in Endpoint, o \in Operation : q.asked = [from |-> e, op |-> o.op, args |-> o.args]
        BY <1>5, <3>1 DEF Asked
      <3>3. o.op = "GETMULTICAST" /\ o.args = q.asked.args
        BY <3>1, <3>2
      <3> QED
        BY <3>3, OperationAssumption
    <2>5. d.text = "multicast ip" => r \in Program /\ r.pc = "menu" /\ Alike(r, n, {"multicast_ip"})
      BY <1>9, <2>2, <2>3 DEF Program, Alike, Fields
    <2>6. d.text = "multicast ip" =>
            /\ t \in Program /\ t.pc = "menu"
            /\ t.multicast_addr = d.about /\ t.current_group = q.asked.args
            /\ t.memberships = n.memberships \cup {d.about}
            /\ t.connected = n.connected \cup {q.asked.args}
            /\ Alike(t, n, {"multicast_ip", "multicast_addr", "current_group", "memberships", "connected"})
      BY <1>9, <2>2, <2>3, <2>4 DEF Program, Alike, Fields
    <2>7. d.text = "multicast ip" => Taking(q, d, r)
      <3>1. d.text = "multicast ip" =>
              /\ Alike(r, q, {"pc", "asked", "server_addr", "misled", "multicast_ip"})
              /\ r.server_addr = d.from /\ r.misled = (q.misled \/ d.re # q.asked)
        BY <1>7, <1>9, <2>5 DEF Alike, Fields
      <3> QED
        BY <2>1, <2>5, <3>1 DEF Taking
    <2>8. d.text = "multicast ip" => Taking(q, d, t)
      <3>1. d.text = "multicast ip" =>
              /\ Alike(t, q, {"pc", "asked", "server_addr", "misled", "multicast_ip", "multicast_addr",
                              "current_group", "memberships", "connected"})
              /\ t.server_addr = d.from /\ t.misled = (q.misled \/ d.re # q.asked)
              /\ n.memberships = q.memberships /\ n.connected = q.connected
        BY <1>7, <1>9, <2>6 DEF Alike, Fields
      <3> QED
        BY <2>1, <2>6, <3>1 DEF Taking
    <2> QED
      BY <1>1, <1>3, <1>4, <1>12, <2>1, <2>2, <2>7, <2>8 DEF Reads
  <1> QED
    BY <1>1, <1>10, <1>11, <1>13, <1>14, <1>15 DEF ProgramProgress

-----------------------------------------------------------------------------
(* What a step of one process leaves to the others *)

LEMMA Becoming ==
  ASSUME ProcessesSane, NEW p \in Process, NEW r, Becomes(p, r)
  PROVE  /\ prog'[p] = r /\ \A q \in Process \ {p} : prog'[q] = prog[q]
         /\ prog' = [q \in Process |-> prog'[q]]
  BY DEF ProcessesSane, Becomes

LEMMA OneMovesSanely ==
  ASSUME ProcessesSane, NEW p \in Process, NEW r, Becomes(p, r), Sane(p, r)',
         used \subseteq used', used' \subseteq Endpoint,
         r.pc # "off" => \/ Running(p) /\ r.socket = prog[p].socket
                        \/ \A q \in Process : r.socket # prog[q].socket
  PROVE  ProcessesSane'
  <1>1. /\ prog'[p] = r /\ \A q \in Process \ {p} : prog'[q] = prog[q]
        /\ prog' = [q \in Process |-> prog'[q]]
    BY Becoming
  <1>2. ASSUME NEW q \in Process \ {p}, NEW o, o = prog[q]
        PROVE  Sane(q, o)'
    <2>1. Sane(q, o)
      BY <1>2 DEF ProcessesSane
    <2> QED
      BY <2>1 DEF Sane
  <1>3. ASSUME NEW q \in Process, NEW o, o = prog'[q]
        PROVE  Sane(q, o)'
    <2>1. CASE q = p
      BY <1>1, <1>3, <2>1
    <2>2. CASE q # p
      BY <1>1, <1>2, <1>3, <2>2
    <2> QED
      BY <2>1, <2>2
  <1>4. \A q, o \in Process :
          Running(q)' /\ Running(o)' /\ prog'[q].socket = prog'[o].socket => q = o
    BY <1>1 DEF ProcessesSane, Running
  <1> QED
    BY <1>1, <1>3, <1>4 DEF ProcessesSane

LEMMA OffIsSane ==
  ASSUME NEW p
  PROVE  Sane(p, Off) /\ Sane(p, Off)'
  <1>1. Off \in Program
    BY OffIsProgram
  <1> QED
    BY <1>1 DEF Sane, Off

LEMMA TakingIsSane ==
  ASSUME NEW p, NEW q, NEW d, NEW r, Sane(p, q), q.pc # "off", Taking(q, d, r), Sound(q.socket, d)
  PROVE  Sane(p, r) /\ r.socket = q.socket /\ r.pc # "off"
  <1>1. r \in Program /\ r.server_addr \in {server, Deaf} /\ r.server_addr = d.from
    BY DEF Taking, Sound
  <1>2. r.socket = q.socket /\ r.pc \in {"port", "failed", "permissions", "menu", "typing"}
    BY DEF Taking, Alike, Fields
  <1>3. r.pc \in {"port", "permissions"} => r.asked = q.asked /\ q.pc \in {"login", "port"}
    BY DEF Taking, Alike, Fields
  <1>4. r.pc = "typing" => r.location \in used
    BY DEF Taking, Sound
  <1>5. /\ r.pc = "port" => r.message_thread = "none" /\ r.message_port = None
        /\ r.pc = "failed" => r.message_thread = "starting" /\ r.message_port = None
        /\ r.pc \in {"permissions", "menu", "typing"} => r.message_port = r.socket[2]
    <2>1. CASE q.pc = "port" /\ d.text = "port"
      <3>1. r.message_port = d.about /\ r.pc = "permissions"
        BY <2>1 DEF Taking
      <3> QED
        BY <1>2, <2>1, <3>1 DEF Sound
    <2>2. CASE q.pc = "port" /\ d.text # "port"
      <3>1. r.pc = "failed" /\ r.message_thread = "starting" /\ r.message_port = q.message_port
        BY <2>2 DEF Taking, Alike, Fields
      <3> QED
        BY <2>2, <3>1 DEF Sane
    <2>3. CASE q.pc # "port"
      <3>1. r.message_thread = q.message_thread /\ r.message_port = q.message_port
        BY <2>3 DEF Taking, Alike, Fields
      <3>2. \/ q.pc = "login" /\ r.pc = "port"
            \/ q.pc \in {"permissions", "reply"} /\ r.pc \in {"menu", "typing"}
        BY <2>3 DEF Taking
      <3> QED
        BY <1>2, <3>1, <3>2 DEF Sane
    <2> QED
      BY <2>1, <2>2, <2>3
  <1>6. r.server_addr # server => Swap(r.socket) \in used
    BY <1>1, <1>2 DEF Sound
  <1> QED
    BY <1>1, <1>2, <1>3, <1>4, <1>5, <1>6 DEF Sane

LEMMA GroupsStayKnown ==
  ASSUME GroupsKnown, UNCHANGED <<group_list, crashes>>,
         NEW news, Brings(inbox, inbox', news), \A d \in news : d.to \in Endpoint => Told(d),
         crashes = 0 => \A q \in Process :
           prog'[q] = prog[q] \/ prog'[q].misled \/ Knows(q, prog'[q])
  PROVE  GroupsKnown'
  <1> SUFFICES ASSUME crashes = 0 PROVE GroupsKnown'
    BY DEF GroupsKnown
  <1>1. ASSUME NEW a \in Endpoint, NEW i \in DOMAIN inbox'[a], NEW d, d = inbox'[a][i]
        PROVE  Told(d)'
    <2>1. Told(d)
      BY <1>1 DEF Brings, GroupsKnown
    <2> QED
      BY <2>1 DEF Told, IsGroup
  <1>2. ASSUME NEW q \in Process, NEW o, o = prog'[q], ~o.misled
        PROVE  Knows(q, o)'
    <2>1. Knows(q, o)
      BY <1>2 DEF GroupsKnown
    <2> QED
      BY <2>1 DEF Knows, IsGroup
  <1> QED
    BY <1>1, <1>2 DEF GroupsKnown

LEMMA OneMovesKnowing ==
  ASSUME GroupsKnown, ProcessesSane, UNCHANGED <<group_list, crashes>>,
         NEW news, Brings(inbox, inbox', news), \A d \in news : d.to \in Endpoint => Told(d),
         NEW p \in Process, NEW r, Becomes(p, r), crashes = 0 => r.misled \/ Knows(p, r)
  PROVE  GroupsKnown'
  <1>1. prog'[p] = r /\ \A q \in Process \ {p} : prog'[q] = prog[q]
    BY Becoming
  <1> QED
    BY <1>1, GroupsStayKnown

(* A process that changes nothing of its groups knows what it knew. *)
LEMMA AlikeKnow ==
  ASSUME NEW p, NEW q, NEW r, Knows(p, q),
         \A f \in {"connected", "memberships", "current_group", "multicast_addr", "overheard"} :
           r[f] = q[f]
  PROVE  Knows(p, r)
  <1>1. /\ r.connected = q.connected /\ r.memberships = q.memberships /\ r.overheard = q.overheard
        /\ r.current_group = q.current_group /\ r.multicast_addr = q.multicast_addr
    OBVIOUS
  <1> QED
    BY <1>1 DEF Knows

LEMMA OffKnows ==
  ASSUME NEW p
  PROVE  Knows(p, Off)
  BY DEF Knows, Off

(* An exchange is not disturbed by what happens elsewhere, or to other datagrams. *)
LEMMA ExchangeStays ==
  ASSUME NEW p \in Process, Exchange(p), Queues',
         \A f \in {"pc", "asked", "socket", "misled"} : prog'[p][f] = prog[p][f],
         inbox'[prog[p].socket] = inbox[prog[p].socket],
         NEW k \in Nat,
         \A i \in DOMAIN inbox'[server] : inbox'[server][i].from = prog[p].socket =>
           i + k \in DOMAIN inbox[server] /\ inbox'[server][i] = inbox[server][i + k],
         Served(p)' => Served(p) /\ request' = request
  PROVE  Exchange(p)'
  <1>1. PICK q : q = prog[p]
    OBVIOUS
  <1>2. /\ prog'[p].pc = q.pc /\ prog'[p].asked = q.asked /\ prog'[p].socket = q.socket
        /\ prog'[p].misled = q.misled
    BY <1>1
  <1>3. \A i \in Pending(p)' :
          i + k \in Pending(p) /\ inbox'[server][i] = inbox[server][i + k]
    BY <1>1, <1>2 DEF Pending
  <1>4. \A i \in Pending(p)' : i \in Nat
    <2>1. PICK S : inbox'[server] \in Seq(S)
      BY DEF Queues, AreQueues
    <2>2. DOMAIN inbox'[server] \subseteq Nat
      BY <2>1
    <2> QED
      BY <2>2 DEF Pending
  <1>5. \A i, j \in Pending(p)' : i = j
    BY <1>3, <1>4 DEF Exchange
  <1>6. \A i \in Pending(p)' :
          LET d == inbox'[server][i] IN q.asked = [from |-> d.from, op |-> d.op, args |-> d.args]
    BY <1>1, <1>3 DEF Exchange
  <1>7. /\ Served(p)' => Served(p) /\ request' = q.asked
        /\ Pending(p)' # {} => Pending(p) # {}
    BY <1>1, <1>3 DEF Exchange
  <1>8. Answered(p) => Answered(p)'
    BY <1>1, <1>2 DEF Answered
  <1> QED
    BY <1>1, <1>2, <1>5, <1>6, <1>7, <1>8 DEF Exchange

LEMMA OneMovesApart ==
  ASSUME ProcessesSane, ProcessesSane', Exchanges, Queues',
         UNCHANGED <<cpc, request, faults>>, used \subseteq used',
         NEW p \in Process, NEW r, Becomes(p, r), OnItsOwn(p)' => Exchange(p)',
         \A q \in Process \ {p} : OnItsOwn(q) /\ OnItsOwn(q)' =>
           /\ inbox'[prog[q].socket] = inbox[prog[q].socket]
           /\ \A i \in DOMAIN inbox'[server] : inbox'[server][i].from = prog[q].socket =>
                i \in DOMAIN inbox[server] /\ inbox'[server][i] = inbox[server][i]
  PROVE  Exchanges'
  <1>1. prog'[p] = r /\ \A q \in Process \ {p} : prog'[q] = prog[q]
    BY Becoming
  <1>2. ASSUME NEW q \in Process \ {p}, OnItsOwn(q)'
        PROVE  Exchange(q)'
    <2>1. prog'[q] = prog[q]
      BY <1>1
    <2>2. OnItsOwn(q)
      BY <1>2, <2>1 DEF OnItsOwn, Running, Astray
    <2>3. Exchange(q)
      BY <2>2 DEF Exchanges
    <2>4. Served(q)' => Served(q) /\ request' = request
      BY <2>1 DEF Served
    <2>5. \A i \in DOMAIN inbox'[server] : inbox'[server][i].from = prog[q].socket =>
            i + 0 \in DOMAIN inbox[server] /\ inbox'[server][i] = inbox[server][i + 0]
      <3>1. PICK S : inbox'[server] \in Seq(S)
        BY DEF Queues, AreQueues
      <3>2. \A i \in DOMAIN inbox'[server] : i + 0 = i
        BY <3>1
      <3> QED
        BY <1>2, <2>2, <3>2
    <2>6. inbox'[prog[q].socket] = inbox[prog[q].socket]
      BY <1>2, <2>2
    <2> QED
      BY <2>1, <2>3, <2>4, <2>5, <2>6, ExchangeStays
  <1> QED
    BY <1>2 DEF Exchanges

-----------------------------------------------------------------------------
(* The clients keep what concerns them and what is under way *)

ClientsSound == ProcessesSane /\ Queues /\ Traffic /\ GroupsKnown /\ Exchanges

ServerIdle == UNCHANGED <<sessions, group_list, cpc, request, crashes>>

LEMMA ClientTraffic ==
  ASSUME Traffic, ServerIdle, used \subseteq used', NEW news, Brings(inbox, inbox', news),
         \A d \in news : /\ d.to \in Endpoint => Sound(d.to, d)'
                         /\ d.to = server => FromClient(d)'
  PROVE  Traffic'
  <1>1. /\ \A l \in Location : sessions'[l] # NULL => l \in used'
        /\ cpc' # "recvfrom" =>
             request' \in Asked /\ request'.from \in used' /\ request'.op # "unknown"
    BY DEF Traffic, ServerIdle
  <1> QED
    BY <1>1, TrafficGrows

(* the end of a process, whatever ends it *)
LEMMA StopKeeps ==
  ASSUME ClientsSound, ServerIdle, NEW p \in Process, Becomes(p, Off),
         UNCHANGED <<used, inbox, faults>>
  PROVE  ClientsSound'
  <1>1. /\ Brings(inbox, inbox', {}) /\ Queues'
        /\ prog'[p] = Off /\ Off.pc = "off"
    BY Becoming DEF ClientsSound, Queues, Brings, Off
  <1>2. ProcessesSane'
    BY <1>1, OffIsSane, OneMovesSanely DEF ClientsSound, ProcessesSane
  <1>3. Traffic'
    BY <1>1, ClientTraffic DEF ClientsSound
  <1>4. GroupsKnown'
    BY <1>1, OffKnows, OneMovesKnowing DEF ClientsSound, ServerIdle
  <1>5. ~OnItsOwn(p)'
    BY <1>1 DEF OnItsOwn, Running
  <1>6. Exchanges'
    BY <1>1, <1>2, <1>5, OneMovesApart DEF ClientsSound, ServerIdle
  <1> QED
    BY <1>1, <1>2, <1>3, <1>4, <1>6 DEF ClientsSound

(* a thread of the process gets on *)
LEMMA BindKeeps ==
  ASSUME ClientsSound, ServerIdle, NEW p \in Process, NEW r, Becomes(p, r), r \in Program,
         Running(p), Alike(r, prog[p], {"message_thread", "multicast_thread"}),
         \/ r.message_thread = prog[p].message_thread
         \/ prog[p].message_thread = "starting" /\ r.message_thread \in {"bound", "anywhere"}
            /\ (r.message_thread = "bound" => prog[p].message_port # None),
         UNCHANGED <<used, inbox, faults>>
  PROVE  ClientsSound'
  <1>1. Brings(inbox, inbox', {}) /\ Queues' /\ prog'[p] = r
    BY Becoming DEF ClientsSound, Queues, Brings
  <1>2. PICK q : q = prog[p]
    OBVIOUS
  <1>3. /\ r.pc = q.pc /\ r.socket = q.socket /\ r.asked = q.asked /\ r.location = q.location
        /\ r.server_addr = q.server_addr /\ r.message_port = q.message_port /\ r.misled = q.misled
        /\ r.reused = q.reused
        /\ \A f \in {"connected", "memberships", "current_group", "multicast_addr", "overheard"} :
             r[f] = q[f]
    BY <1>2 DEF Alike, Fields
  <1>4. Sane(p, q) /\ q.pc # "off"
    BY <1>2 DEF ClientsSound, ProcessesSane, Running
  <1>5. Sane(p, r)
    BY <1>2, <1>3, <1>4 DEF Sane
  <1>6. ProcessesSane'
    BY <1>2, <1>3, <1>5, OneMovesSanely DEF ClientsSound, ProcessesSane, Sane
  <1>7. Traffic'
    BY <1>1, ClientTraffic DEF ClientsSound
  <1>8. crashes = 0 => r.misled \/ Knows(p, r)
    BY <1>2, <1>3, AlikeKnow DEF ClientsSound, GroupsKnown
  <1>9. GroupsKnown'
    BY <1>1, <1>8, OneMovesKnowing DEF ClientsSound, ServerIdle
  <1>10. OnItsOwn(p)' => Exchange(p)'
    <2> SUFFICES ASSUME OnItsOwn(p)' PROVE Exchange(p)'
      OBVIOUS
    <2>1. Exchange(p)
      BY <1>1, <1>2, <1>3, <1>4 DEF OnItsOwn, Running, Astray, ClientsSound, Exchanges
    <2>2. Served(p)' => Served(p) /\ request' = request
      BY <1>1, <1>2, <1>3 DEF Served, ServerIdle
    <2>3. \A f \in {"pc", "asked", "socket", "misled"} : prog'[p][f] = prog[p][f]
      BY <1>1, <1>2, <1>3
    <2>4. \A i \in DOMAIN inbox'[server] : inbox'[server][i].from = prog[p].socket =>
            i + 0 \in DOMAIN inbox[server] /\ inbox'[server][i] = inbox[server][i + 0]
      <3>1. PICK S : inbox[server] \in Seq(S)
        BY DEF ClientsSound, Queues, AreQueues
      <3>2. \A i \in DOMAIN inbox[server] : i + 0 = i
        BY <3>1
      <3> QED
        BY <3>2
    <2> QED
      BY <1>1, <2>1, <2>2, <2>3, <2>4, ExchangeStays
  <1>11. Exchanges'
    BY <1>1, <1>6, <1>10, OneMovesApart DEF ClientsSound, ServerIdle
  <1> QED
    BY <1>1, <1>6, <1>7, <1>9, <1>11 DEF ClientsSound

(* What it reads as the answer is the answer, and what remains answers the same. *)
LEMMA ReadGoesOn ==
  ASSUME ClientsSound, ServerIdle, NEW p \in Process, Running(p), Reads(p),
         NEW r, Becomes(p, r), Taking(prog[p], inbox[prog[p].socket][1], r), OnItsOwn(p)'
  PROVE  Exchange(p)'
  <1>1. PICK q : q = prog[p]
    OBVIOUS
  <1>2. PICK a \in Endpoint : a = q.socket /\ Sane(p, q) /\ q.pc # "off"
    BY <1>1 DEF ClientsSound, ProcessesSane, Sane, Running
  <1>3. PICK d : d = inbox[a][1]
    OBVIOUS
  <1>4. /\ inbox[a] # <<>> /\ inbox' = Taken(a) /\ UNCHANGED <<used, faults>> /\ Taking(q, d, r)
        /\ prog'[p] = r
    BY <1>1, <1>2, <1>3, Becoming DEF Reads, ClientsSound
  <1>5. r.socket = a /\ r.pc # "off" /\ r.reused = q.reused /\ r.misled = (q.misled \/ d.re # q.asked)
    BY <1>2, <1>4 DEF Taking, Alike, Fields
  <1>6. Exchange(p)
    <2>1. OnItsOwn(p)
      BY <1>1, <1>2, <1>4, <1>5 DEF OnItsOwn, Running, Astray
    <2> QED
      BY <2>1 DEF ClientsSound, Exchanges
  <1>7. /\ Queues'
        /\ inbox'[server] = inbox[server]
        /\ Len(inbox[a]) \in Nat \ {0} /\ DOMAIN inbox[a] = 1 .. Len(inbox[a])
        /\ Len(inbox'[a]) = Len(inbox[a]) - 1 /\ DOMAIN inbox'[a] = 1 .. Len(inbox'[a])
        /\ \A i \in DOMAIN inbox'[a] : i + 1 \in DOMAIN inbox[a] /\ inbox'[a][i] = inbox[a][i + 1]
    BY <1>4, ServerAssumption, OneIsTaken DEF ClientsSound
  <1>8. ~q.misled /\ ~Served(p) /\ Pending(p) = {} /\ Answered(p)
    BY <1>1, <1>2, <1>4, <1>6 DEF Exchange
  <1>9. /\ \A i \in DOMAIN inbox[a] : inbox[a][i].re = q.asked
        /\ \/ q.pc = "login" /\ Len(inbox[a]) = 1 /\ inbox[a][1].text # "login"
           \/ q.pc = "login" /\ Len(inbox[a]) = 3 /\ inbox[a][1].text = "login" /\ inbox[a][2].text = "port"
           \/ q.pc = "port" /\ Len(inbox[a]) = 2 /\ inbox[a][1].text = "port"
           \/ q.pc \in {"permissions", "reply"} /\ Len(inbox[a]) = 1
    BY <1>1, <1>2, <1>8 DEF Answered
  <1>10. ~r.misled
    <2>1. d.re = q.asked
      BY <1>3, <1>7, <1>9
    <2> QED
      BY <1>5, <1>8, <2>1
  <1>11. Pending(p)' = {} /\ ~Served(p)'
    BY <1>1, <1>2, <1>4, <1>5, <1>7, <1>8 DEF Pending, Served, ServerIdle
  <1>12. ASSUME inbox'[a] # <<>>
         PROVE  Answered(p)'
    <2>1. Len(inbox'[a]) # 0
      <3>1. PICK S : inbox'[a] \in Seq(S)
        BY <1>7 DEF Queues, AreQueues
      <3> QED
        BY <1>12, <3>1, EmptySeq
    <2>2. \/ q.pc = "login" /\ Len(inbox[a]) = 3 /\ inbox[a][1].text = "login" /\ inbox[a][2].text = "port"
          \/ q.pc = "port" /\ Len(inbox[a]) = 2
      BY <1>7, <1>9, <2>1
    <2>3. CASE q.pc = "login"
      <3>1. r.pc = "port" /\ r.asked = q.asked
        BY <1>4, <2>3 DEF Taking, Alike, Fields
      <3>2. Len(inbox'[a]) = 2 /\ inbox'[a][1] = inbox[a][2]
        BY <1>7, <2>2, <2>3
      <3>3. \A i \in DOMAIN inbox'[a] : inbox'[a][i].re = r.asked
        BY <1>7, <1>9, <3>1
      <3> QED
        BY <1>4, <1>5, <2>2, <2>3, <3>1, <3>2, <3>3 DEF Answered
    <2>4. CASE q.pc = "port"
      <3>1. r.pc = "permissions" /\ r.asked = q.asked
        <4>1. d.text = "port"
          BY <1>3, <1>9, <2>4
        <4> QED
          BY <1>4, <2>4, <4>1 DEF Taking, Alike, Fields
      <3>2. Len(inbox'[a]) = 1
        BY <1>7, <2>2, <2>4
      <3>3. \A i \in DOMAIN inbox'[a] : inbox'[a][i].re = r.asked
        BY <1>7, <1>9, <3>1
      <3> QED
        BY <1>4, <1>5, <3>1, <3>2, <3>3 DEF Answered
    <2> QED
      BY <2>2, <2>3, <2>4
  <1> QED
    BY <1>4, <1>5, <1>10, <1>11, <1>12 DEF Exchange

(* What it is told of a group it may believe. *)
LEMMA ReadKnows ==
  ASSUME GroupsKnown, crashes = 0, NEW p \in Process, NEW a \in Endpoint, 1 \in DOMAIN inbox[a],
         NEW r, Taking(prog[p], inbox[a][1], r), ~r.misled
  PROVE  Knows(p, r)
  <1>1. PICK d : d = inbox[a][1]
    OBVIOUS
  <1>2. PICK q : q = prog[p]
    OBVIOUS
  <1>3. Taking(q, d, r) /\ ~q.misled /\ d.re = q.asked /\ Told(d) /\ Knows(p, q)
    BY <1>1, <1>2 DEF Taking, GroupsKnown
  <1>4. CASE \A f \in {"connected", "memberships", "current_group", "multicast_addr", "overheard"} :
               r[f] = q[f]
    BY <1>3, <1>4, AlikeKnow
  <1>5. CASE /\ d.text = "multicast ip" /\ r.multicast_addr = d.about /\ r.current_group = q.asked.args
             /\ r.memberships = q.memberships \cup {d.about}
             /\ r.connected = q.connected \cup {q.asked.args} /\ r.overheard = q.overheard
    <2>1. IsGroup(q.asked.args) /\ d.about = group_list[q.asked.args]
      BY <1>3, <1>5 DEF Told
    <2>2. q.asked.args # None
      BY <2>1, GroupAssumption DEF IsGroup
    <2> QED
      BY <1>3, <1>5, <2>1, <2>2 DEF Knows
  <1>6. \/ \A f \in {"connected", "memberships", "current_group", "multicast_addr", "overheard"} :
             r[f] = q[f]
        \/ /\ d.text = "multicast ip" /\ r.multicast_addr = d.about /\ r.current_group = q.asked.args
           /\ r.memberships = q.memberships \cup {d.about}
           /\ r.connected = q.connected \cup {q.asked.args} /\ r.overheard = q.overheard
    BY <1>3, ZenonT(60) DEF Taking, Alike, Fields
  <1> QED
    BY <1>4, <1>5, <1>6

LEMMA ReadKeeps ==
  ASSUME ClientsSound, ServerIdle, NEW p \in Process, Running(p), Reads(p)
  PROVE  ClientsSound'
  <1>1. PICK q : q = prog[p]
    OBVIOUS
  <1>2. PICK a \in Endpoint : a = q.socket /\ Sane(p, q) /\ q.pc # "off"
    BY <1>1 DEF ClientsSound, ProcessesSane, Sane, Running
  <1>3. inbox[a] # <<>> /\ inbox' = Taken(a) /\ UNCHANGED <<used, faults>>
    BY <1>1, <1>2 DEF Reads
  <1>4. PICK r : Becomes(p, r) /\ (r = Off \/ Taking(q, inbox[a][1], r))
    BY <1>1, <1>2 DEF Reads
  <1>5. /\ Queues' /\ Brings(inbox, inbox', {})
        /\ \A b \in (Endpoint \cup {server}) \ {a} : inbox'[b] = inbox[b]
        /\ 1 \in DOMAIN inbox[a] /\ Sound(a, inbox[a][1])
    <2>1. Sound(a, inbox[a][1])
      BY <1>1, <1>2, <1>3, FirstIsSound DEF ClientsSound
    <2> QED
      BY <1>3, <2>1, OneIsTaken DEF ClientsSound
  <1>6. Sane(p, r) /\ (r.pc # "off" => r.socket = a)
    <2>1. CASE r = Off
      BY <2>1, OffIsSane DEF Off
    <2>2. CASE Taking(q, inbox[a][1], r)
      BY <1>2, <1>5, <2>2, TakingIsSane
    <2> QED
      BY <1>4, <2>1, <2>2
  <1>7. ProcessesSane'
    <2>1. Sane(p, r)'
      BY <1>3, <1>6 DEF Sane
    <2> QED
      BY <1>1, <1>2, <1>3, <1>4, <1>6, <2>1, OneMovesSanely DEF ClientsSound, ProcessesSane
  <1>8. Traffic'
    BY <1>3, <1>5, ClientTraffic DEF ClientsSound
  <1>9. crashes = 0 => r.misled \/ Knows(p, r)
    BY <1>1, <1>4, <1>5, OffKnows, ReadKnows DEF ClientsSound
  <1>10. GroupsKnown'
    BY <1>4, <1>5, <1>9, OneMovesKnowing DEF ClientsSound, ServerIdle
  <1>11. OnItsOwn(p)' => Exchange(p)'
    <2>1. CASE r = Off
      <3>1. prog'[p] = Off /\ Off.pc = "off"
        BY <1>4, <2>1, Becoming DEF ClientsSound, Off
      <3> QED
        BY <3>1 DEF OnItsOwn, Running
    <2>2. CASE Taking(q, inbox[a][1], r)
      BY <1>1, <1>2, <1>4, <2>2, ReadGoesOn
    <2> QED
      BY <1>4, <2>1, <2>2
  <1>12. ASSUME NEW o \in Process \ {p}, OnItsOwn(o)
         PROVE  inbox'[prog[o].socket] = inbox[prog[o].socket]
    <2>1. prog[o].socket # a /\ prog[o].socket \in Endpoint
      BY <1>1, <1>2, <1>12 DEF OnItsOwn, Running, ClientsSound, ProcessesSane, Sane
    <2> QED
      BY <1>5, <2>1
  <1>13. inbox'[server] = inbox[server]
    BY <1>5, ServerAssumption
  <1>14. Exchanges'
    BY <1>3, <1>4, <1>5, <1>7, <1>11, <1>12, <1>13, OneMovesApart DEF ClientsSound, ServerIdle
  <1> QED
    BY <1>5, <1>7, <1>8, <1>10, <1>14 DEF ClientsSound

(* Where a process listens for messages, no other that is on its own has its socket. *)
LEMMA ListensBeside ==
  ASSUME ProcessesSane, NEW p \in Process, prog[p].message_thread = "bound"
  PROVE  /\ Running(p) /\ ListenAt(p) = Swap(prog[p].socket) /\ ListenAt(p) \in Endpoint
         /\ prog[p].socket \in used
         /\ \A o \in Process : OnItsOwn(o) => prog[o].socket # ListenAt(p)
  <1>1. PICK q : q = prog[p]
    OBVIOUS
  <1>2. Sane(p, q) /\ q.pc # "off"
    BY <1>1 DEF ProcessesSane, Sane
  <1>3. /\ q.socket \in used /\ q.socket \in Endpoint
        /\ host[p] = q.socket[1] /\ q.message_port = q.socket[2]
    BY <1>1, <1>2 DEF Sane, ProcessesSane, Program
  <1>4. ListenAt(p) = Swap(q.socket)
    BY <1>1, <1>3 DEF ListenAt, Swap
  <1>5. Swap(q.socket) \in Endpoint /\ Swap(Swap(q.socket)) = q.socket
    BY <1>3, SwapAssumption
  <1> QED
    BY <1>1, <1>2, <1>3, <1>4, <1>5 DEF OnItsOwn, Astray, Running

(* A datagram that leaves the network elsewhere is nobody's answer. *)
LEMMA TakenElsewhere ==
  ASSUME ClientsSound, ServerIdle, UNCHANGED <<prog, used, faults>>,
         NEW a \in Endpoint, inbox[a] # <<>>, inbox' = Taken(a),
         \A o \in Process : OnItsOwn(o) => prog[o].socket # a
  PROVE  ClientsSound'
  <1>1. /\ Queues' /\ Brings(inbox, inbox', {})
        /\ \A b \in (Endpoint \cup {server}) \ {a} : inbox'[b] = inbox[b]
    BY OneIsTaken DEF ClientsSound
  <1>2. ProcessesSane'
    BY DEF ClientsSound, ProcessesSane, Sane, Running
  <1>3. Traffic'
    BY <1>1, ClientTraffic DEF ClientsSound
  <1>4. GroupsKnown'
    BY <1>1, GroupsStayKnown DEF ClientsSound, ServerIdle
  <1>5. ASSUME NEW o \in Process, OnItsOwn(o)'
        PROVE  Exchange(o)'
    <2>1. OnItsOwn(o)
      BY <1>5 DEF OnItsOwn, Running, Astray
    <2>2. Exchange(o) /\ prog[o].socket \in Endpoint
      BY <2>1 DEF ClientsSound, Exchanges, ProcessesSane, Sane, OnItsOwn, Running
    <2>3. inbox'[prog[o].socket] = inbox[prog[o].socket] /\ inbox'[server] = inbox[server]
      BY <1>1, <2>1, <2>2, ServerAssumption
    <2>4. Served(o)' => Served(o) /\ request' = request
      BY DEF Served, ServerIdle
    <2>5. \A i \in DOMAIN inbox'[server] : inbox'[server][i].from = prog[o].socket =>
            i + 0 \in DOMAIN inbox[server] /\ inbox'[server][i] = inbox[server][i + 0]
      <3>1. PICK S : inbox[server] \in Seq(S)
        BY DEF ClientsSound, Queues, AreQueues
      <3>2. \A i \in DOMAIN inbox[server] : i + 0 = i
        BY <3>1
      <3> QED
        BY <2>3, <3>2
    <2> QED
      BY <1>1, <2>2, <2>3, <2>4, <2>5, ExchangeStays
  <1> QED
    BY <1>1, <1>2, <1>3, <1>4, <1>5 DEF ClientsSound, Exchanges

LEMMA ReadMsgKeeps ==
  ASSUME ClientsSound, ServerIdle, NEW p \in Process, read_msg(p)
  PROVE  ClientsSound'
  <1>1. /\ ListenAt(p) \in Endpoint
        /\ \A o \in Process : OnItsOwn(o) => prog[o].socket # ListenAt(p)
    BY ListensBeside DEF read_msg, ClientsSound
  <1> QED
    BY <1>1, TakenElsewhere DEF read_msg, programVars

LEMMA UndeliverableKeeps ==
  ASSUME ClientsSound, ServerIdle, UNCHANGED programVars, Undeliverable(Bound)
  PROVE  ClientsSound'
  <1>1. PICK a \in Endpoint \ Bound : inbox[a] # <<>> /\ inbox' = Taken(a)
    BY DEF Undeliverable
  <1>2. \A o \in Process : prog[o].socket # a
    BY <1>1 DEF Bound
  <1> QED
    BY <1>1, <1>2, TakenElsewhere DEF Undeliverable, programVars

LEMMA FaultKeeps ==
  ASSUME ClientsSound, ServerIdle, UNCHANGED programVars, Fault, faults \in Nat
  PROVE  ClientsSound'
  <1>1. Queues' /\ Brings(inbox, inbox', {})
    BY FaultBringsNothing DEF ClientsSound
  <1>2. ProcessesSane'
    BY DEF ClientsSound, ProcessesSane, Sane, Running, programVars
  <1>3. Traffic'
    BY <1>1, ClientTraffic DEF ClientsSound, programVars
  <1>4. GroupsKnown'
    BY <1>1, GroupsStayKnown DEF ClientsSound, ServerIdle, programVars
  <1>5. faults' # 0
    BY DEF Fault
  <1> QED
    BY <1>1, <1>2, <1>3, <1>4, <1>5 DEF ClientsSound, Exchanges, OnItsOwn

LEMMA LastAppended ==
  ASSUME Queues, NEW a \in Endpoint \cup {server}, NEW d, inbox'[a] = Append(inbox[a], d)
  PROVE  \E n \in DOMAIN inbox'[a] :
           /\ inbox'[a][n] = d
           /\ \A i \in DOMAIN inbox'[a] : i # n =>
                i \in DOMAIN inbox[a] /\ inbox'[a][i] = inbox[a][i]
  <1>1. PICK S : inbox[a] \in Seq(S)
    BY DEF Queues, AreQueues
  <1>2. Len(inbox[a]) \in Nat /\ DOMAIN inbox[a] = 1 .. Len(inbox[a])
    BY <1>1
  <1>3. /\ DOMAIN inbox'[a] = 1 .. Len(inbox[a]) + 1
        /\ inbox'[a][Len(inbox[a]) + 1] = d
        /\ \A i \in 1 .. Len(inbox[a]) : inbox'[a][i] = inbox[a][i]
    BY <1>1
  <1> QED
    BY <1>2, <1>3

(* a message typed for another client *)
LEMMA TypeKeeps ==
  ASSUME ClientsSound, ServerIdle, NEW p \in Process, type_p2p(p)
  PROVE  ClientsSound'
  <1>1. PICK q : q = prog[p]
    OBVIOUS
  <1>2. q.pc = "typing" /\ UNCHANGED <<used, faults>>
    BY <1>1 DEF type_p2p
  <1>3. Sane(p, q) /\ Running(p)
    BY <1>1, <1>2 DEF ClientsSound, ProcessesSane, Running
  <1>4. PICK l \in used : l = q.location /\ l \in Endpoint
    BY <1>2, <1>3 DEF Sane, ClientsSound, ProcessesSane
  <1>5. PICK d : d = [to |-> Swap(l), from |-> Deaf, text |-> "chat", about |-> None,
                      re |-> [meant |-> l]]
    OBVIOUS
  <1>6. inbox' = Sent(<<d>>)
    BY <1>1, <1>4, <1>5 DEF type_p2p, Target
  <1>7. /\ d.to = Swap(l) /\ d.from = Deaf /\ d.text = "chat" /\ d.re = [meant |-> l]
        /\ Swap(l) \in Endpoint /\ Swap(Swap(l)) = l
    BY <1>4, <1>5, SwapAssumption
  <1>8. Sound(d.to, d) /\ Told(d) /\ d.to # server
    BY <1>4, <1>7, ServerAssumption DEF Sound, Told
  <1>9. /\ Queues' /\ Brings(inbox, inbox', {d})
        /\ \A a \in (Endpoint \cup {server}) \ {Swap(l)} : inbox'[a] = inbox[a]
    BY <1>6, <1>7, OneArrives DEF ClientsSound
  <1>10. PICK m : m = ToMenu(q)
    OBVIOUS
  <1>11. m \in Program /\ m.pc = "menu" /\ Alike(m, q, {"pc", "asked"})
    BY <1>3, <1>10, ToMenuIs DEF Sane
  <1>12. PICK r : r = [m EXCEPT !.location = None]
    OBVIOUS
  <1>13. Becomes(p, r)
    BY <1>1, <1>10, <1>12 DEF type_p2p, Becomes
  <1>14. r \in Program /\ r.pc = "menu" /\ Alike(r, m, {"location"})
    BY <1>11, <1>12 DEF Program, Alike, Fields
  <1>15. /\ r.socket = q.socket /\ r.server_addr = q.server_addr /\ r.misled = q.misled
         /\ r.message_port = q.message_port /\ r.message_thread = q.message_thread
         /\ r.reused = q.reused
         /\ \A f \in {"connected", "memberships", "current_group", "multicast_addr", "overheard"} :
              r[f] = q[f]
    BY <1>11, <1>14 DEF Alike, Fields
  <1>16. Sane(p, r)'
    BY <1>2, <1>3, <1>14, <1>15 DEF Sane
  <1>17. ProcessesSane'
    BY <1>1, <1>2, <1>3, <1>13, <1>15, <1>16, OneMovesSanely DEF ClientsSound, ProcessesSane
  <1>18. Traffic'
    <2>1. Sound(d.to, d)'
      BY <1>2, <1>8 DEF Sound
    <2> QED
      BY <1>2, <1>8, <1>9, <2>1, ClientTraffic DEF ClientsSound
  <1>19. GroupsKnown'
    <2>1. crashes = 0 => r.misled \/ Knows(p, r)
      BY <1>1, <1>15, AlikeKnow DEF ClientsSound, GroupsKnown
    <2> QED
      BY <1>8, <1>9, <1>13, <2>1, OneMovesKnowing DEF ClientsSound, ServerIdle
  <1>20. ASSUME NEW o \in Process, OnItsOwn(o)
         PROVE  inbox'[prog[o].socket] = inbox[prog[o].socket]
    <2>1. prog[o].socket \in Endpoint /\ Swap(prog[o].socket) \notin used
      BY <1>20 DEF OnItsOwn, Astray, Running, ClientsSound, ProcessesSane, Sane
    <2> QED
      BY <1>4, <1>7, <1>9, <2>1
  <1>21. inbox'[server] = inbox[server]
    BY <1>7, <1>9, ServerAssumption
  <1>22. prog'[p] = r
    BY <1>13, Becoming DEF ClientsSound
  <1>23. OnItsOwn(p)' => Exchange(p)'
    <2> SUFFICES ASSUME OnItsOwn(p)' PROVE Exchange(p)'
      OBVIOUS
    <2>1. OnItsOwn(p)
      BY <1>1, <1>2, <1>3, <1>15, <1>22 DEF OnItsOwn, Astray, Running
    <2>2. Exchange(p)
      BY <2>1 DEF ClientsSound, Exchanges
    <2>3. ~Answered(p)
      BY <1>1, <1>2 DEF Answered
    <2>4. ~q.misled /\ Pending(p) = {} /\ ~Served(p) /\ inbox[q.socket] = <<>>
      BY <1>1, <1>2, <2>2, <2>3 DEF Exchange
    <2>5. Pending(p)' = {} /\ ~Served(p)' /\ inbox'[r.socket] = <<>>
      BY <1>1, <1>15, <1>20, <1>21, <1>22, <2>1, <2>4 DEF Pending, Served, ServerIdle
    <2> QED
      BY <1>15, <1>22, <2>4, <2>5 DEF Exchange
  <1>24. Exchanges'
    BY <1>2, <1>9, <1>13, <1>17, <1>20, <1>21, <1>23, OneMovesApart DEF ClientsSound, ServerIdle
  <1> QED
    BY <1>9, <1>17, <1>18, <1>19, <1>24 DEF ClientsSound

(* A process sends a request, the only one from its socket if it is on its own. *)
LEMMA RequestKeeps ==
  ASSUME ClientsSound, ServerIdle, UNCHANGED faults, used \subseteq used', ProcessesSane',
         NEW p \in Process, NEW r, Becomes(p, r), Sane(p, r)', r.pc \in {"login", "reply"},
         NEW to \in {server, Deaf}, inbox' = Sent(<<Request(to, r.asked)>>),
         crashes = 0 => r.misled \/ Knows(p, r),
         OnItsOwn(p)' =>
           /\ to = server /\ ~r.misled /\ inbox[r.socket] = <<>>
           /\ cpc # "recvfrom" => request.from # r.socket
           /\ \A i \in DOMAIN inbox[server] : inbox[server][i].from # r.socket
  PROVE  ClientsSound'
  <1>1. PICK d : d = Request(to, r.asked)
    OBVIOUS
  <1>2. r.asked \in Asked /\ r.asked.from = r.socket /\ r.asked.op # "unknown" /\ r.socket \in used'
    BY DEF Sane
  <1>3. /\ d.to = to /\ d.from = r.socket /\ d.op = r.asked.op /\ d.args = r.asked.args
        /\ r.asked = [from |-> d.from, op |-> d.op, args |-> d.args]
        /\ [op |-> d.op, args |-> d.args] \in Operation
    <2>1. PICK e \in Endpoint, o \in Operation : r.asked = [from |-> e, op |-> o.op, args |-> o.args]
      BY <1>2 DEF Asked
    <2>2. o = [op |-> o.op, args |-> o.args]
      BY OperationAssumption
    <2> QED
      BY <1>1, <1>2, <2>1, <2>2 DEF Request
  <1>4. /\ Queues' /\ Brings(inbox, inbox', {d})
        /\ \A a \in Endpoint \cup {server} :
             inbox'[a] = IF a = d.to THEN Append(inbox[a], d) ELSE inbox[a]
    BY <1>1, OneArrives DEF ClientsSound
  <1>5. d.to \notin Endpoint /\ prog'[p] = r
    BY <1>3, ServerAssumption, SentinelAssumption, Becoming DEF ClientsSound
  <1>6. Traffic'
    <2>1. FromClient(d)'
      BY <1>2, <1>3 DEF FromClient
    <2> QED
      BY <1>4, <1>5, <2>1, ClientTraffic DEF ClientsSound
  <1>7. GroupsKnown'
    BY <1>4, <1>5, OneMovesKnowing DEF ClientsSound, ServerIdle
  <1>8. inbox'[server] = inbox[server] \/ inbox'[server] = Append(inbox[server], d)
    BY <1>4
  <1>9. OnItsOwn(p)' => Exchange(p)'
    <2> SUFFICES ASSUME OnItsOwn(p)' PROVE Exchange(p)'
      OBVIOUS
    <2>1. inbox'[server] = Append(inbox[server], d)
      BY <1>3, <1>4
    <2>2. PICK n \in DOMAIN inbox'[server] :
            /\ inbox'[server][n] = d
            /\ \A i \in DOMAIN inbox'[server] : i # n =>
                 i \in DOMAIN inbox[server] /\ inbox'[server][i] = inbox[server][i]
      BY <2>1, LastAppended DEF ClientsSound
    <2>3. Pending(p)' = {n}
      BY <1>3, <1>5, <2>2 DEF Pending
    <2>4. ~Served(p)'
      BY <1>5 DEF Served, ServerIdle
    <2>5. inbox'[r.socket] = <<>>
      <3>1. r.socket \in Endpoint
        BY <1>2 DEF ProcessesSane
      <3> QED
        BY <1>4, <1>5, <3>1
    <2> QED
      BY <1>3, <1>5, <2>2, <2>3, <2>4, <2>5 DEF Exchange
  <1>10. ASSUME NEW o \in Process \ {p}, OnItsOwn(o)
         PROVE  /\ inbox'[prog[o].socket] = inbox[prog[o].socket]
                /\ \A i \in DOMAIN inbox'[server] : inbox'[server][i].from = prog[o].socket =>
                     i \in DOMAIN inbox[server] /\ inbox'[server][i] = inbox[server][i]
    <2>1. prog[o].socket \in Endpoint
      BY <1>10 DEF OnItsOwn, Running, ClientsSound, ProcessesSane, Sane
    <2>2. inbox'[prog[o].socket] = inbox[prog[o].socket]
      BY <1>4, <1>5, <2>1
    <2>3. prog'[o] = prog[o] /\ r.pc # "off"
      BY Becoming DEF ClientsSound
    <2>4. prog[o].socket # r.socket
      BY <1>5, <1>10, <2>3 DEF ProcessesSane, OnItsOwn, Running
    <2>5. CASE inbox'[server] = inbox[server]
      BY <2>2, <2>5
    <2>6. CASE inbox'[server] = Append(inbox[server], d)
      <3>1. PICK n \in DOMAIN inbox'[server] :
              /\ inbox'[server][n] = d
              /\ \A i \in DOMAIN inbox'[server] : i # n =>
                   i \in DOMAIN inbox[server] /\ inbox'[server][i] = inbox[server][i]
        BY <2>6, LastAppended DEF ClientsSound
      <3> QED
        BY <1>3, <2>2, <2>4, <3>1
    <2> QED
      BY <1>8, <2>5, <2>6
  <1>11. Exchanges'
    BY <1>4, <1>9, <1>10, OneMovesApart DEF ClientsSound, ServerIdle
  <1> QED
    BY <1>4, <1>6, <1>7, <1>11 DEF ClientsSound

LEMMA ChooseKeeps ==
  ASSUME ClientsSound, ServerIdle, NEW p \in Process, choose(p)
  PROVE  ClientsSound'
  <1>1. PICK q : q = prog[p]
    OBVIOUS
  <1>2. q.pc = "menu" /\ UNCHANGED <<used, faults>>
    BY <1>1 DEF choose
  <1>3. Sane(p, q) /\ Running(p)
    BY <1>1, <1>2 DEF ClientsSound, ProcessesSane, Running
  <1>4. PICK o \in Operation :
          /\ o.op # "LOGIN" /\ o.op # "unknown"
          /\ LET command == [from |-> q.socket, op |-> o.op, args |-> o.args] IN
             /\ prog' = [prog EXCEPT ![p].pc = "reply", ![p].asked = command]
             /\ inbox' = Sent(<<Request(q.server_addr, command)>>)
    BY <1>1, TypedAssumption DEF choose
  <1>5. PICK command : command = [from |-> q.socket, op |-> o.op, args |-> o.args]
    OBVIOUS
  <1>6. PICK to \in {server, Deaf} : to = q.server_addr
    BY <1>3 DEF Sane, Program
  <1>7. PICK r : r = [q EXCEPT !.pc = "reply", !.asked = command]
    OBVIOUS
  <1>8. Becomes(p, r)
    BY <1>1, <1>4, <1>5, <1>7 DEF Becomes, ClientsSound, ProcessesSane
  <1>9. command \in Asked /\ command.from = q.socket /\ command.op = o.op
    <2>1. q.socket \in Endpoint
      BY <1>2, <1>3, EphemeralAssumption DEF Sane
    <2> QED
      BY <1>5, <2>1 DEF Asked
  <1>10. r \in Program /\ r.pc = "reply" /\ r.asked = command /\ Alike(r, q, {"pc", "asked"})
    BY <1>3, <1>7, <1>9 DEF Sane, Program, Alike, Fields
  <1>11. /\ r.socket = q.socket /\ r.server_addr = q.server_addr /\ r.misled = q.misled
         /\ r.message_port = q.message_port /\ r.message_thread = q.message_thread
         /\ r.reused = q.reused
         /\ \A f \in {"connected", "memberships", "current_group", "multicast_addr", "overheard"} :
              r[f] = q[f]
    BY <1>10 DEF Alike, Fields
  <1>12. Sane(p, r)'
    BY <1>2, <1>3, <1>4, <1>9, <1>10, <1>11 DEF Sane
  <1>13. ProcessesSane'
    BY <1>1, <1>2, <1>3, <1>8, <1>11, <1>12, OneMovesSanely DEF ClientsSound, ProcessesSane
  <1>14. crashes = 0 => r.misled \/ Knows(p, r)
    BY <1>1, <1>11, AlikeKnow DEF ClientsSound, GroupsKnown
  <1>15. ASSUME OnItsOwn(p)'
         PROVE  /\ to = server /\ ~r.misled /\ inbox[r.socket] = <<>>
                /\ cpc # "recvfrom" => request.from # r.socket
                /\ \A i \in DOMAIN inbox[server] : inbox[server][i].from # r.socket
    <2>1. prog'[p] = r
      BY <1>8, Becoming DEF ClientsSound
    <2>2. OnItsOwn(p)
      BY <1>1, <1>2, <1>3, <1>11, <1>15, <2>1 DEF OnItsOwn, Astray, Running
    <2>3. Exchange(p)
      BY <2>2 DEF ClientsSound, Exchanges
    <2>4. ~Answered(p)
      BY <1>1, <1>2 DEF Answered
    <2>5. ~q.misled /\ Pending(p) = {} /\ ~Served(p) /\ inbox[q.socket] = <<>>
      BY <1>1, <1>2, <2>3, <2>4 DEF Exchange
    <2>6. to = server
      BY <1>1, <1>3, <1>6, <2>2 DEF Sane, OnItsOwn, Astray
    <2> QED
      BY <1>1, <1>11, <2>5, <2>6 DEF Pending, Served
  <1>16. inbox' = Sent(<<Request(to, r.asked)>>)
    BY <1>4, <1>5, <1>6, <1>10
  <1> QED
    BY <1>2, <1>8, <1>10, <1>12, <1>13, <1>14, <1>15, <1>16, RequestKeeps

LEMMA StartKeeps ==
  ASSUME ClientsSound, ServerIdle, NEW p \in Process, start(p)
  PROVE  ClientsSound'
  <1> DEFINE from(s, o) == [from |-> s, op |-> o.op, args |-> o.args]
  <1>0. \E s \in Ephemeral \ Bound, o \in Typed[p] :
          /\ s[1] = host[p] /\ o.op = "LOGIN"
          /\ prog' = [prog EXCEPT ![p] = Started(s, from(s, o))]
          /\ inbox' = Sent(<<Request(server, from(s, o))>>)
          /\ used' = used \cup {s}
    BY DEF start
  <1>1. PICK s \in Ephemeral \ Bound, o \in Typed[p] :
          /\ s[1] = host[p] /\ o.op = "LOGIN"
          /\ prog' = [prog EXCEPT ![p] = Started(s, from(s, o))]
          /\ inbox' = Sent(<<Request(server, from(s, o))>>)
          /\ used' = used \cup {s}
    BY <1>0
  <1>2. UNCHANGED faults
    BY DEF start
  <1>3. PICK login : login = [from |-> s, op |-> o.op, args |-> o.args]
    OBVIOUS
  <1>4. PICK reused \in BOOLEAN : reused = (s \in used)
    <2>1. (s \in used) \in BOOLEAN
      OBVIOUS
    <2> QED
      BY <2>1, Zenon
  <1>5. s \in Endpoint /\ o \in Operation /\ \A q \in Process : s # prog[q].socket
    BY <1>1, EphemeralAssumption, TypedAssumption DEF Bound
  <1>6. login \in Asked /\ login.from = s /\ login.op = "LOGIN"
    BY <1>1, <1>3, <1>5 DEF Asked
  <1>7. PICK r : r = Started(s, login)
    OBVIOUS
  <1>8. Becomes(p, r) /\ inbox' = Sent(<<Request(server, login)>>)
    BY <1>1, <1>3, <1>7 DEF Becomes
  <1>9. /\ r \in Program /\ r.pc = "login" /\ r.socket = s /\ r.asked = login /\ r.reused = reused
        /\ Alike(r, Off, {"pc", "socket", "asked", "multicast_thread", "reused"})
    <2>1. r = [Off EXCEPT !.pc = "login", !.socket = s, !.asked = login,
                          !.multicast_thread = "starting", !.reused = reused]
      BY <1>4, <1>7 DEF Started
    <2>2. r \in Program
      BY <1>5, <1>6, <2>1, OffIsProgram, ZenonT(60) DEF Program
    <2>3. r.pc = "login" /\ r.socket = s /\ r.asked = login /\ r.reused = reused
      BY <2>1 DEF Off
    <2>4. Alike(r, Off, {"pc", "socket", "asked", "multicast_thread", "reused"})
      BY <2>1 DEF Off, Alike, Fields
    <2> QED
      BY <2>2, <2>3, <2>4
  <1>10. /\ r.server_addr = server /\ r.misled = FALSE
         /\ r.message_thread = "none" /\ r.message_port = None
         /\ \A f \in {"connected", "memberships", "current_group", "multicast_addr", "overheard"} :
              r[f] = Off[f]
    BY <1>9 DEF Alike, Fields, Off
  <1>11. Sane(p, r)'
    BY <1>1, <1>6, <1>9, <1>10 DEF Sane
  <1>12. ProcessesSane'
    BY <1>1, <1>5, <1>8, <1>9, <1>11, OneMovesSanely DEF ClientsSound, ProcessesSane
  <1>13. Knows(p, r)
    BY <1>10, OffKnows, AlikeKnow
  <1>14. ASSUME OnItsOwn(p)'
         PROVE  /\ inbox[s] = <<>>
                /\ cpc # "recvfrom" => request.from # s
                /\ \A i \in DOMAIN inbox[server] : inbox[server][i].from # s
    <2>1. prog'[p] = r
      BY <1>8, Becoming DEF ClientsSound
    <2>2. s \notin used /\ Swap(s) \notin used
      <3>1. ~r.reused
        BY <1>14, <2>1 DEF OnItsOwn
      <3>2. Swap(s) \notin used'
        BY <1>9, <1>14, <2>1 DEF OnItsOwn, Astray
      <3>3. s \notin used
        BY <1>4, <1>9, <3>1
      <3>4. Swap(s) \notin used
        BY <1>1, <3>2
      <3> QED
        BY <3>3, <3>4
    <2>3. \A l \in used : Swap(Swap(l)) = l
      BY SwapAssumption DEF ClientsSound, ProcessesSane
    <2>4. ASSUME NEW i \in DOMAIN inbox[s] PROVE FALSE
      <3>1. PICK d : d = inbox[s][i]
        OBVIOUS
      <3>2. Sound(s, d)
        BY <1>5, <3>1 DEF ClientsSound, Traffic
      <3>3. ASSUME NEW l \in used, s = Swap(l) PROVE FALSE
        BY <2>2, <2>3, <3>3
      <3> QED
        BY <2>2, <3>2, <3>3 DEF Sound
    <2>5. PICK S : inbox[s] \in Seq(S)
      BY <1>5 DEF ClientsSound, Queues, AreQueues
    <2>6. inbox[s] = <<>>
      <3>1. Len(inbox[s]) \in Nat /\ DOMAIN inbox[s] = 1 .. Len(inbox[s])
        BY <2>5, LenProperties
      <3>2. Len(inbox[s]) = 0
        BY <2>4, <3>1
      <3> QED
        BY <2>5, <3>2, EmptySeq
    <2> QED
      BY <2>2, <2>6 DEF ClientsSound, Traffic, FromClient
  <1>15. used \subseteq used'
    BY <1>1
  <1> QED
    BY <1>2, <1>8, <1>9, <1>10, <1>11, <1>12, <1>13, <1>14, <1>15, RequestKeeps

(* What is heard of groups: only those of the hearer, if its machine is its own, since *)
(* no two groups have the same address.                                                *)
LEMMA MulticastKeeps ==
  ASSUME ClientsSound, ServerIdle, ServerSound, NEW p \in Process, send_multicast(p)
  PROVE  ClientsSound'
  <1>1. /\ UNCHANGED <<used, inbox, faults>>
        /\ prog' = [q \in Process |->
             IF q \notin Audience(p) \/ prog[p].misled THEN prog[q]
             ELSE [prog[q] EXCEPT !.overheard =
                     @ \cup ({prog[p].current_group} \ prog[q].connected)]]
    BY DEF send_multicast, netVars
  <1>2. Brings(inbox, inbox', {}) /\ Queues'
    BY <1>1 DEF ClientsSound, Queues, Brings
  <1>3. PICK g : g = prog[p].current_group
    OBVIOUS
  <1>4. PICK ip : ip = prog[p].multicast_addr
    OBVIOUS
  <1>5. \A q \in Process : q \in Audience(p) =>
          \E r \in Process : host[r] = host[q] /\ ip \in prog[r].memberships
    BY <1>4 DEF Audience
  <1>6. ASSUME NEW q \in Process, NEW o, o = prog[q], NEW r, r = prog'[q]
        PROVE  /\ Sane(q, o) /\ o \in Program
               /\ r \in Program /\ Alike(r, o, {"overheard"})
               /\ \/ r = o
                  \/ /\ q \in Audience(p) /\ ~prog[p].misled
                     /\ r.overheard = o.overheard \cup ({g} \ o.connected)
    <2>1. Sane(q, o) /\ o \in Program
      BY <1>6 DEF ClientsSound, ProcessesSane, Sane
    <2>2. CASE r = o
      BY <2>1, <2>2 DEF Alike
    <2>3. CASE r # o
      <3>1. /\ q \in Audience(p) /\ ~prog[p].misled
            /\ r = [o EXCEPT !.overheard = @ \cup ({g} \ o.connected)]
        BY <1>1, <1>3, <1>6, <2>3
      <3>2. g \in Group \cup {BadArgs, None}
        BY <1>3 DEF ClientsSound, ProcessesSane, Sane, Program
      <3> QED
        BY <2>1, <3>1, <3>2 DEF Program, Alike, Fields
    <2> QED
      BY <2>1, <2>2, <2>3
  <1>7. ProcessesSane'
    <2>1. ASSUME NEW q \in Process, NEW o, o = prog[q], NEW r, r = prog'[q]
          PROVE  /\ Sane(q, r)' /\ r.pc = o.pc /\ r.socket = o.socket
      <3>1. Sane(q, o) /\ r \in Program /\ Alike(r, o, {"overheard"}) /\ (r = o \/ q \in Audience(p))
        BY <1>6, <2>1
      <3>2. o = Off => r = o
        <4>1. Off.multicast_thread # "bound"
          BY DEF Off
        <4>2. q \in Audience(p) => o.multicast_thread = "bound"
          BY <2>1 DEF Audience
        <4> QED
          BY <3>1, <4>1, <4>2
      <3>3. /\ r.pc = o.pc /\ r.socket = o.socket /\ r.asked = o.asked /\ r.location = o.location
            /\ r.server_addr = o.server_addr /\ r.message_port = o.message_port
            /\ r.message_thread = o.message_thread
        BY <3>1 DEF Alike, Fields
      <3>4. Sane(q, r)
        BY <3>1, <3>2, <3>3 DEF Sane
      <3> QED
        BY <1>1, <3>3, <3>4 DEF Sane
    <2>2. prog' = [q \in Process |-> prog'[q]]
      BY <1>1
    <2> QED
      BY <1>1, <2>1, <2>2 DEF ClientsSound, ProcessesSane, Running
  <1>8. Traffic'
    BY <1>1, <1>2, ClientTraffic DEF ClientsSound
  <1>9. ASSUME crashes = 0, NEW q \in Process, NEW o, o = prog[q], NEW r, r = prog'[q], r # o, ~r.misled
        PROVE  Knows(q, r)
    <2>1. /\ Alike(r, o, {"overheard"}) /\ q \in Audience(p) /\ ~prog[p].misled
          /\ r.overheard = o.overheard \cup ({g} \ o.connected)
      BY <1>6, <1>9
    <2>2. /\ r.connected = o.connected /\ r.memberships = o.memberships /\ r.misled = o.misled
          /\ r.current_group = o.current_group /\ r.multicast_addr = o.multicast_addr
      BY <2>1 DEF Alike, Fields
    <2>3. Knows(q, o) /\ Knows(p, prog[p])
      BY <1>9, <2>1, <2>2 DEF ClientsSound, GroupsKnown
    <2>4. ASSUME \A n \in Process : host[n] = host[q] => n = q
          PROVE  r.overheard = {}
      <3>1. ip \in o.memberships
        BY <1>5, <1>9, <2>1, <2>4
      <3>2. PICK h \in o.connected : ip = group_list[h] /\ IsGroup(h)
        BY <2>3, <3>1 DEF Knows
      <3>3. ip \in Index
        BY <1>9, <3>1 DEF ClientsSound, ProcessesSane, Sane, Program
      <3>4. IsGroup(g) /\ ip = group_list[g]
        BY <1>3, <1>4, <2>3, <3>3, GroupAssumption DEF Knows, Index
      <3>5. g = h
        BY <3>2, <3>4 DEF ServerSound, GroupsSound, IsGroup
      <3> QED
        BY <2>1, <2>3, <2>4, <3>5 DEF Knows
    <2> QED
      BY <2>2, <2>3, <2>4 DEF Knows
  <1>10. GroupsKnown'
    BY <1>2, <1>9, GroupsStayKnown DEF ClientsSound, ServerIdle
  <1>11. ASSUME NEW q \in Process, OnItsOwn(q)'
         PROVE  Exchange(q)'
    <2>1. PICK o, r : o = prog[q] /\ r = prog'[q]
      OBVIOUS
    <2>2. Alike(r, o, {"overheard"})
      BY <1>6, <2>1
    <2>3. /\ r.pc = o.pc /\ r.socket = o.socket /\ r.asked = o.asked /\ r.misled = o.misled
          /\ r.reused = o.reused
      BY <2>2 DEF Alike, Fields
    <2>4. Exchange(q)
      BY <1>1, <1>11, <2>1, <2>3 DEF OnItsOwn, Running, Astray, ClientsSound, Exchanges
    <2>5. Served(q)' => Served(q) /\ request' = request
      BY <2>1, <2>3 DEF Served, ServerIdle
    <2>6. \A f \in {"pc", "asked", "socket", "misled"} : prog'[q][f] = prog[q][f]
      BY <2>1, <2>3
    <2>7. \A i \in DOMAIN inbox'[server] : inbox'[server][i].from = prog[q].socket =>
            i + 0 \in DOMAIN inbox[server] /\ inbox'[server][i] = inbox[server][i + 0]
      <3>1. PICK S : inbox[server] \in Seq(S)
        BY DEF ClientsSound, Queues, AreQueues
      <3>2. \A i \in DOMAIN inbox[server] : i + 0 = i
        BY <3>1
      <3> QED
        BY <1>1, <3>2
    <2> QED
      BY <1>1, <1>2, <2>4, <2>5, <2>6, <2>7, ExchangeStays
  <1> QED
    BY <1>2, <1>7, <1>8, <1>10, <1>11 DEF ClientsSound, Exchanges

-----------------------------------------------------------------------------
(* The server keeps what concerns the clients *)

(* A request that ends adds one answer, or the three of a login, to what waits for *)
(* its sender.  Beside it only a process with another at its swapped address gets  *)
(* something.                                                                      *)
LEMMA ServerDelivers ==
  ASSUME Queues, Traffic, used \subseteq Endpoint, cpc # "recvfrom",
         LoginSent \/ MessageSent \/ AnswerSent
  PROVE  /\ inbox'[server] = inbox[server]
         /\ \A a \in Endpoint \ {request.from} : Swap(a) \notin used => inbox'[a] = inbox[a]
         /\ \E news :
              /\ Brings(inbox, inbox', news)
              /\ \A d \in news : d.text = "multicast ip" =>
                   /\ d.re = request /\ request.op = "GETMULTICAST" /\ request.args # BadArgs
                   /\ d.about = group_list[request.args] /\ d.about # NULL
         /\ Swap(request.from) \notin used /\ inbox[request.from] = <<>> =>
              LET box == inbox'[request.from] IN
              /\ \A i \in DOMAIN box : box[i].re = request
              /\ \/ request.op = "LOGIN" /\ Len(box) = 3 /\ box[1].text = "login" /\ box[2].text = "port"
                 \/ Len(box) = 1 /\ box[1].text # "login"
  <1>1. request.from \in Endpoint /\ request.from # server
    BY ServerAssumption DEF Traffic
  <1>2. CASE LoginSent
    <2>perms. PICK perms :
          inbox' = Sent(<<Answer("login", NULL), Answer("port", request.from[2]),
                          Answer("permissions", perms)>>)
      BY <1>2 DEF LoginSent
    <2>1. PICK d, e, g : /\ d = Answer("login", NULL) /\ e = Answer("port", request.from[2])
                         /\ g = Answer("permissions", perms)
      OBVIOUS
    <2>2. /\ d.to = request.from /\ d.re = request /\ d.text = "login"
          /\ e.to = request.from /\ e.re = request /\ e.text = "port"
          /\ g.to = request.from /\ g.re = request /\ g.text = "permissions"
      BY <2>1 DEF Answer
    <2>3. inbox' = Sent(<<d, e, g>>) /\ request.op = "LOGIN"
      BY <1>2, <2>perms, <2>1 DEF LoginSent
    <2>4. /\ Brings(inbox, inbox', {d, e, g})
          /\ \A a \in Endpoint \cup {server} :
               inbox'[a] = IF a = d.to THEN Append(Append(Append(inbox[a], d), e), g) ELSE inbox[a]
      BY <2>2, <2>3, ThreeArrive
    <2>5. ASSUME NEW box, box = Append(Append(Append(<<>>, d), e), g)
          PROVE  /\ \A i \in DOMAIN box : box[i].re = request
                 /\ Len(box) = 3 /\ box[1].text = "login" /\ box[2].text = "port"
      <3>1. PICK one, two : one = Append(<<>>, d) /\ two = Append(one, e)
        OBVIOUS
      <3>2. one \in Seq({d, e, g}) /\ Len(one) = 1 /\ one[1] = d
        BY <3>1
      <3>3. two \in Seq({d, e, g}) /\ Len(two) = 2 /\ two[1] = d /\ two[2] = e
        BY <3>1, <3>2
      <3>4. box = Append(two, g)
        BY <2>5, <3>1
      <3>5. box \in Seq({d, e, g}) /\ Len(box) = 3 /\ box[1] = d /\ box[2] = e /\ box[3] = g
        <4>1. PICK S : S = {d, e, g}
          OBVIOUS
        <4>2. two \in Seq(S) /\ g \in S
          BY <3>3, <4>1
        <4>3. box \in Seq(S) /\ Len(box) = Len(two) + 1 /\ box[Len(two) + 1] = g
              /\ \A i \in 1 .. Len(two) : box[i] = two[i]
          BY <3>4, <4>2, AppendProperties
        <4> QED
          BY <3>3, <3>4, <4>1, <4>3
      <3>6. DOMAIN box = 1 .. 3
        BY <3>5
      <3> QED
        BY <2>2, <3>5, <3>6
    <2>6. inbox[request.from] = <<>> =>
            inbox'[request.from] = Append(Append(Append(<<>>, d), e), g)
      BY <1>1, <2>2, <2>4
    <2>7. \A x \in {d, e, g} : x.text # "multicast ip"
      BY <2>2
    <2>8. /\ inbox'[server] = inbox[server]
          /\ \A a \in Endpoint \ {request.from} : inbox'[a] = inbox[a]
      BY <1>1, <2>2, <2>4
    <2>9. \E news :
            /\ Brings(inbox, inbox', news)
            /\ \A x \in news : x.text = "multicast ip" =>
                 /\ x.re = request /\ request.op = "GETMULTICAST" /\ request.args # BadArgs
                 /\ x.about = group_list[request.args] /\ x.about # NULL
      <3>1. PICK news : news = {d, e, g}
        OBVIOUS
      <3>2. Brings(inbox, inbox', news)
        BY <2>4, <2>7, <3>1
      <3>3. \A x \in news : x.text = "multicast ip" =>
              /\ x.re = request /\ request.op = "GETMULTICAST" /\ request.args # BadArgs
              /\ x.about = group_list[request.args] /\ x.about # NULL
        BY <2>7, <3>1
      <3> QED
        BY <3>2, <3>3
    <2>10. Swap(request.from) \notin used /\ inbox[request.from] = <<>> =>
            LET box == inbox'[request.from] IN
            /\ \A i \in DOMAIN box : box[i].re = request
            /\ \/ request.op = "LOGIN" /\ Len(box) = 3 /\ box[1].text = "login" /\ box[2].text = "port"
               \/ Len(box) = 1 /\ box[1].text # "login"
      BY <2>3, <2>5, <2>6
    <2> QED
      BY <2>8, <2>9, <2>10
  <1>3. ASSUME NEW d, d.re = request, d.text # "login"
        PROVE  \A box : box = Append(<<>>, d) =>
                 (\A i \in DOMAIN box : box[i].re = request) /\ Len(box) = 1 /\ box[1].text # "login"
    <2> SUFFICES ASSUME NEW box, box = <<d>>
                 PROVE  /\ \A i \in DOMAIN box : box[i].re = request
                        /\ Len(box) = 1 /\ box[1].text # "login"
      OBVIOUS
    <2>1. DOMAIN box = {1} /\ Len(box) = 1 /\ box[1] = d
      OBVIOUS
    <2> QED
      BY <1>3, <2>1
  <1>4. CASE MessageSent
    <2>1. PICK l \in Location : /\ sessions[l] # NULL
                               /\ inbox' = Sent(<<Message(l, request.args), Answer("sent", NULL)>>)
      BY <1>4 DEF MessageSent
    <2>2. PICK d, e : d = Message(l, request.args) /\ e = Answer("sent", NULL)
      OBVIOUS
    <2>3. /\ d.to = Swap(l) /\ d.text = "MSG"
          /\ e.to = request.from /\ e.re = request /\ e.text = "sent"
      BY <2>2 DEF Answer, Message
    <2>4. l \in used /\ Swap(l) \in Endpoint /\ Swap(Swap(l)) = l
      BY <2>1, SwapAssumption DEF Traffic
    <2>5. /\ Brings(inbox, inbox', {d, e})
          /\ \A a \in Endpoint \cup {server} :
               a # d.to => inbox'[a] = IF a = e.to THEN Append(inbox[a], e) ELSE inbox[a]
      BY <2>1, <2>2, TwoArrive
    <2>6. \A x \in {d, e} : x.text # "multicast ip"
      BY <2>3
    <2>7. \A a : Swap(a) \notin used => a # d.to
      BY <2>3, <2>4
    <2>8. /\ inbox'[server] = inbox[server]
          /\ \A a \in Endpoint \ {request.from} : Swap(a) \notin used => inbox'[a] = inbox[a]
      BY <1>1, <2>3, <2>4, <2>5, <2>7, ServerAssumption
    <2>9. Swap(request.from) \notin used => inbox'[request.from] = Append(inbox[request.from], e)
      BY <1>1, <2>3, <2>5, <2>7
    <2>10. \A box : box = Append(<<>>, e) =>
             (\A i \in DOMAIN box : box[i].re = request) /\ Len(box) = 1 /\ box[1].text # "login"
      BY <1>3, <2>3
    <2>11. \E news :
            /\ Brings(inbox, inbox', news)
            /\ \A x \in news : x.text = "multicast ip" =>
                 /\ x.re = request /\ request.op = "GETMULTICAST" /\ request.args # BadArgs
                 /\ x.about = group_list[request.args] /\ x.about # NULL
      <3>1. PICK news : news = {d, e}
        OBVIOUS
      <3>2. Brings(inbox, inbox', news)
        BY <2>5, <2>6, <3>1
      <3>3. \A x \in news : x.text = "multicast ip" =>
              /\ x.re = request /\ request.op = "GETMULTICAST" /\ request.args # BadArgs
              /\ x.about = group_list[request.args] /\ x.about # NULL
        BY <2>6, <3>1
      <3> QED
        BY <3>2, <3>3
    <2>12. Swap(request.from) \notin used /\ inbox[request.from] = <<>> =>
            LET box == inbox'[request.from] IN
            /\ \A i \in DOMAIN box : box[i].re = request
            /\ \/ request.op = "LOGIN" /\ Len(box) = 3 /\ box[1].text = "login" /\ box[2].text = "port"
               \/ Len(box) = 1 /\ box[1].text # "login"
      BY <2>9, <2>10
    <2> QED
      BY <2>8, <2>11, <2>12
  <1>5. CASE AnswerSent
    <2>1. PICK text, about :
            /\ inbox' = Sent(<<Answer(text, about)>>)
            /\ text \notin {"login", "port"}
            /\ text = "multicast ip" =>
                 /\ request.op = "GETMULTICAST" /\ request.args # BadArgs
                 /\ about = group_list[request.args] /\ about # NULL
      BY <1>5 DEF AnswerSent
    <2>2. PICK d : d = Answer(text, about)
      OBVIOUS
    <2>3. d.to = request.from /\ d.re = request /\ d.text = text /\ d.about = about
      BY <2>2 DEF Answer
    <2>4. /\ Brings(inbox, inbox', {d})
          /\ \A a \in Endpoint \cup {server} :
               inbox'[a] = IF a = d.to THEN Append(inbox[a], d) ELSE inbox[a]
      BY <2>1, <2>2, OneArrives
    <2>5. /\ inbox'[server] = inbox[server]
          /\ \A a \in Endpoint \ {request.from} : inbox'[a] = inbox[a]
          /\ inbox'[request.from] = Append(inbox[request.from], d)
      BY <1>1, <2>3, <2>4
    <2>6. \A box : box = Append(<<>>, d) =>
            (\A i \in DOMAIN box : box[i].re = request) /\ Len(box) = 1 /\ box[1].text # "login"
      BY <1>3, <2>1, <2>3
    <2>7. \E news :
            /\ Brings(inbox, inbox', news)
            /\ \A x \in news : x.text = "multicast ip" =>
                 /\ x.re = request /\ request.op = "GETMULTICAST" /\ request.args # BadArgs
                 /\ x.about = group_list[request.args] /\ x.about # NULL
      <3>1. PICK news : news = {d}
        OBVIOUS
      <3>2. Brings(inbox, inbox', news)
        BY <2>1, <2>3, <2>4, <3>1
      <3>3. \A x \in news : x.text = "multicast ip" =>
              /\ x.re = request /\ request.op = "GETMULTICAST" /\ request.args # BadArgs
              /\ x.about = group_list[request.args] /\ x.about # NULL
        BY <2>1, <2>3, <3>1
      <3> QED
        BY <3>2, <3>3
    <2>8. Swap(request.from) \notin used /\ inbox[request.from] = <<>> =>
            LET box == inbox'[request.from] IN
            /\ \A i \in DOMAIN box : box[i].re = request
            /\ \/ request.op = "LOGIN" /\ Len(box) = 3 /\ box[1].text = "login" /\ box[2].text = "port"
               \/ Len(box) = 1 /\ box[1].text # "login"
      BY <2>5, <2>6
    <2> QED
      BY <2>5, <2>7, <2>8

  <1> QED
    BY <1>2, <1>4, <1>5

LEMMA GroupsStayGiven ==
  ASSUME GroupsKnown, UNCHANGED <<prog, crashes>>,
         \A g \in Group : group_list[g] # NULL => group_list'[g] = group_list[g],
         NEW news, Brings(inbox, inbox', news), \A d \in news : d.to \in Endpoint => Told(d)
  PROVE  GroupsKnown'
  <1> SUFFICES ASSUME crashes = 0 PROVE GroupsKnown'
    BY DEF GroupsKnown
  <1>1. \A g : IsGroup(g) => group_list'[g] = group_list[g] /\ IsGroup(g)'
    BY DEF IsGroup
  <1>2. ASSUME NEW a \in Endpoint, NEW i \in DOMAIN inbox'[a], NEW d, d = inbox'[a][i]
        PROVE  Told(d)'
    <2>1. Told(d)
      BY <1>2 DEF Brings, GroupsKnown
    <2> QED
      BY <1>1, <2>1 DEF Told
  <1>3. ASSUME NEW q \in Process, NEW o, o = prog[q], ~o.misled
        PROVE  Knows(q, o)'
    <2>1. Knows(q, o)
      BY <1>3 DEF GroupsKnown
    <2>2. \A g \in o.connected : group_list'[g] = group_list[g] /\ IsGroup(g)'
      BY <1>1, <2>1 DEF Knows
    <2>3. o.memberships \subseteq {group_list'[g] : g \in o.connected}
      BY <2>1, <2>2 DEF Knows
    <2>4. IF o.current_group = None THEN o.multicast_addr = None
          ELSE IsGroup(o.current_group)' /\ o.multicast_addr = group_list'[o.current_group]
      BY <1>1, <2>1 DEF Knows
    <2> QED
      BY <2>1, <2>2, <2>3, <2>4 DEF Knows
  <1> QED
    BY <1>2, <1>3 DEF GroupsKnown

(* A group that has an address keeps it as long as the server runs. *)
LEMMA GroupsStayCreated ==
  ASSUME ClientTypeOK, ClientStep
  PROVE  \A g \in Group : group_list[g] # NULL => group_list'[g] = group_list[g]
  <1>1. CASE CreatesGroup
    BY <1>1 DEF CreatesGroup, ClientTypeOK
  <1>2. CASE ~CreatesGroup
    <2>1. UNCHANGED group_list
      BY <1>2, ClientCases DEF NewRequest, recvfrom, lookup, lookup_returns, LoginSucceeds, cmd_msg,
                               cmd_p2p, TellsGroup, Declines, GroupsStay
    <2> QED
      BY <2>1
  <1> QED
    BY <1>1, <1>2

LEMMA ServerReceivesKeeps ==
  ASSUME ServerSound, ClientsSound, ServerReceives
  PROVE  ClientsSound'
  <1>1. /\ UNCHANGED <<prog, used, faults, crashes>>
        /\ inbox[server] # <<>> /\ inbox' = Taken(server)
    BY DEF ServerReceives, programVars
  <1>2. Queues' /\ Traffic'
    BY <1>1, ServerKeepsTraffic DEF ClientsSound, ProcessesSane
  <1>3. ProcessesSane'
    BY <1>1 DEF ClientsSound, ProcessesSane, Sane, Running
  <1>4. PICK d : d = inbox[server][1]
    OBVIOUS
  <1>5. /\ cpc = "recvfrom" /\ request' = [from |-> d.from, op |-> d.op, args |-> d.args]
        /\ UNCHANGED group_list
    BY <1>4, ServerReads DEF ClientsSound, ProcessesSane
  <1>6. /\ Brings(inbox, inbox', {})
        /\ \A b \in Endpoint : inbox'[b] = inbox[b]
        /\ 1 \in DOMAIN inbox[server]
        /\ DOMAIN inbox'[server] = 1 .. Len(inbox'[server])
        /\ \A i \in DOMAIN inbox'[server] :
             i + 1 \in DOMAIN inbox[server] /\ inbox'[server][i] = inbox[server][i + 1]
    BY <1>1, OneIsTaken, ServerAssumption DEF ClientsSound
  <1>7. GroupsKnown'
    BY <1>1, <1>5, <1>6, GroupsStayKnown DEF ClientsSound
  <1>8. ASSUME NEW p \in Process, OnItsOwn(p)'
        PROVE  Exchange(p)'
    <2>1. Exchange(p) /\ prog[p].socket \in Endpoint
      BY <1>1, <1>8 DEF ClientsSound, Exchanges, OnItsOwn, Running, Astray, ProcessesSane, Sane
    <2>2. inbox'[prog[p].socket] = inbox[prog[p].socket] /\ prog'[p] = prog[p]
      BY <1>1, <1>6, <2>1
    <2>3. CASE d.from # prog[p].socket
      <3>1. ~Served(p)'
        BY <1>5, <2>2, <2>3 DEF Served
      <3>2. \A f \in {"pc", "asked", "socket", "misled"} : prog'[p][f] = prog[p][f]
        BY <2>2
      <3> QED
        BY <1>2, <1>6, <2>1, <2>2, <3>1, <3>2, ExchangeStays
    <2>4. CASE d.from = prog[p].socket
      <3>1. 1 \in Pending(p)
        BY <1>4, <1>6, <2>4 DEF Pending
      <3>2. request' = prog[p].asked
        BY <1>4, <1>5, <2>1, <3>1 DEF Exchange
      <3>3. ASSUME NEW i \in Pending(p)' PROVE FALSE
        <4>1. i \in 1 .. Len(inbox'[server]) /\ i + 1 \in Pending(p)
          BY <1>6, <2>2, <3>3 DEF Pending
        <4>2. i + 1 = 1
          BY <2>1, <3>1, <4>1 DEF Exchange
        <4> QED
          BY <4>1, <4>2
      <3>4. inbox'[prog[p].socket] = <<>> /\ ~prog[p].misled /\ prog[p].pc \in {"login", "reply"}
        BY <2>1, <2>2, <3>1 DEF Exchange
      <3> QED
        BY <2>2, <3>2, <3>3, <3>4 DEF Exchange
    <2> QED
      BY <2>3, <2>4
  <1> QED
    BY <1>2, <1>3, <1>7, <1>8 DEF ClientsSound, Exchanges

LEMMA ServerWorksKeeps ==
  ASSUME ServerSound, ClientsSound, ServerWorks
  PROVE  ClientsSound'
  <1>1. UNCHANGED <<prog, used, faults, crashes>>
    BY DEF ServerWorks, programVars
  <1>2. Queues' /\ Traffic'
    BY <1>1, ServerKeepsTraffic DEF ClientsSound, ProcessesSane
  <1>3. ProcessesSane'
    BY <1>1 DEF ClientsSound, ProcessesSane, Sane, Running
  <1>4. /\ ClientStep /\ cpc # "recvfrom" /\ request' = request
        /\ cpc' # "recvfrom" => inbox' = inbox
        /\ cpc' = "recvfrom" => LoginSent \/ MessageSent \/ AnswerSent
    BY ServerSends DEF ServerSound
  <1>5. \A g \in Group : group_list[g] # NULL => group_list'[g] = group_list[g]
    BY <1>4, GroupsStayCreated DEF ServerSound
  <1>6. cpc' = "recvfrom" =>
          /\ inbox'[server] = inbox[server]
          /\ \A a \in Endpoint \ {request.from} : Swap(a) \notin used => inbox'[a] = inbox[a]
          /\ \E news :
               /\ Brings(inbox, inbox', news)
               /\ \A d \in news : d.text = "multicast ip" =>
                    /\ d.re = request /\ request.op = "GETMULTICAST" /\ request.args # BadArgs
                    /\ d.about = group_list[request.args] /\ d.about # NULL
          /\ Swap(request.from) \notin used /\ inbox[request.from] = <<>> =>
               LET box == inbox'[request.from] IN
               /\ \A i \in DOMAIN box : box[i].re = request
               /\ \/ request.op = "LOGIN" /\ Len(box) = 3 /\ box[1].text = "login" /\ box[2].text = "port"
                  \/ Len(box) = 1 /\ box[1].text # "login"
    BY <1>4, ServerDelivers DEF ClientsSound, ProcessesSane
  <1>7. GroupsKnown'
    <2>1. CASE cpc' # "recvfrom"
      <3>1. Brings(inbox, inbox', {})
        BY <1>4, <2>1 DEF Brings
      <3> QED
        BY <1>1, <1>5, <3>1, GroupsStayGiven DEF ClientsSound
    <2>2. CASE cpc' = "recvfrom"
      <3>1. PICK news :
              /\ Brings(inbox, inbox', news)
              /\ \A d \in news : d.text = "multicast ip" =>
                   /\ d.re = request /\ request.op = "GETMULTICAST" /\ request.args # BadArgs
                   /\ d.about = group_list[request.args] /\ d.about # NULL
        BY <1>6, <2>2
      <3>2. request.op = "GETMULTICAST" /\ request.args # BadArgs => request.args \in Group
        BY <1>4, RequestTyped DEF ServerSound
      <3>3. \A d \in news : Told(d)
        BY <3>1, <3>2 DEF Told, IsGroup
      <3> QED
        BY <1>1, <1>5, <3>1, <3>3, GroupsStayGiven DEF ClientsSound
    <2> QED
      BY <2>1, <2>2
  <1>8. ASSUME NEW p \in Process, OnItsOwn(p)'
        PROVE  Exchange(p)'
    <2>1. OnItsOwn(p) /\ prog'[p] = prog[p]
      BY <1>1, <1>8 DEF OnItsOwn, Running, Astray
    <2>2. Exchange(p) /\ Sane(p, prog[p]) /\ prog[p].socket \in Endpoint /\ Swap(prog[p].socket) \notin used
      BY <2>1 DEF ClientsSound, Exchanges, OnItsOwn, Running, Astray, ProcessesSane, Sane
    <2>3. ASSUME inbox'[server] = inbox[server], inbox'[prog[p].socket] = inbox[prog[p].socket],
                 Served(p)' => Served(p)
          PROVE  Exchange(p)'
      <3>1. \A f \in {"pc", "asked", "socket", "misled"} : prog'[p][f] = prog[p][f]
        BY <2>1
      <3>2. \A i \in DOMAIN inbox'[server] : inbox'[server][i].from = prog[p].socket =>
              i + 0 \in DOMAIN inbox[server] /\ inbox'[server][i] = inbox[server][i + 0]
        <4>1. PICK S : inbox[server] \in Seq(S)
          BY DEF ClientsSound, Queues, AreQueues
        <4>2. \A i \in DOMAIN inbox[server] : i + 0 = i
          BY <4>1
        <4> QED
          BY <2>3, <4>2
      <3> QED
        BY <1>2, <1>4, <2>2, <2>3, <3>1, <3>2, ExchangeStays
    <2>4. CASE cpc' # "recvfrom"
      <3>1. Served(p)' => Served(p)
        BY <1>4, <2>1 DEF Served
      <3> QED
        BY <1>4, <2>3, <2>4, <3>1
    <2>5. CASE cpc' = "recvfrom" /\ request.from # prog[p].socket
      <3>1. ~Served(p)'
        BY <2>5 DEF Served
      <3> QED
        BY <1>6, <2>2, <2>3, <2>5, <3>1
    <2>6. CASE cpc' = "recvfrom" /\ request.from = prog[p].socket
      <3>1. Served(p)
        BY <1>4, <2>6 DEF Served
      <3>2. /\ request = prog[p].asked /\ Pending(p) = {} /\ prog[p].pc \in {"login", "reply"}
            /\ inbox[prog[p].socket] = <<>> /\ ~prog[p].misled
        BY <2>2, <3>1 DEF Exchange
      <3>3. prog[p].asked.op = "LOGIN" <=> prog[p].pc # "reply"
        BY <2>2, <3>2 DEF Sane
      <3>4. Answered(p)'
        <4>1. PICK box : box = inbox'[prog[p].socket]
          OBVIOUS
        <4>2. /\ \A i \in DOMAIN box : box[i].re = prog[p].asked
              /\ \/ prog[p].asked.op = "LOGIN" /\ Len(box) = 3 /\ box[1].text = "login" /\ box[2].text = "port"
                 \/ Len(box) = 1 /\ box[1].text # "login"
          BY <1>6, <2>2, <2>6, <3>2, <4>1
        <4>3. \/ prog[p].pc = "login" /\ Len(box) = 1 /\ box[1].text # "login"
              \/ prog[p].pc = "login" /\ Len(box) = 3 /\ box[1].text = "login" /\ box[2].text = "port"
              \/ prog[p].pc = "reply" /\ Len(box) = 1
          BY <3>2, <3>3, <4>2
        <4> QED
          BY <2>1, <4>1, <4>2, <4>3 DEF Answered
      <3>5. Pending(p)' = {} /\ ~Served(p)'
        BY <1>6, <2>1, <2>6, <3>2 DEF Pending, Served
      <3> QED
        BY <2>1, <3>2, <3>4, <3>5 DEF Exchange
    <2> QED
      BY <2>4, <2>5, <2>6
  <1> QED
    BY <1>2, <1>3, <1>7, <1>8 DEF ClientsSound, Exchanges

LEMMA ServerCrashKeeps ==
  ASSUME ServerSound, ClientsSound, ServerCrash, crashes \in Nat
  PROVE  ClientsSound'
  <1>1. /\ UNCHANGED <<prog, used, faults>> /\ crashes' # 0 /\ cpc' = "recvfrom"
        /\ inbox' = [inbox EXCEPT ![server] = <<>>]
    BY DEF ServerCrash, programVars
  <1>2. Queues' /\ Traffic'
    BY <1>1, ServerKeepsTraffic DEF ClientsSound, ProcessesSane
  <1>3. ProcessesSane'
    BY <1>1 DEF ClientsSound, ProcessesSane, Sane, Running
  <1>4. GroupsKnown'
    BY <1>1 DEF GroupsKnown
  <1>5. inbox'[server] = <<>> /\ \A a \in Endpoint : inbox'[a] = inbox[a]
    BY <1>1, ServerAssumption DEF ClientsSound, Queues, AreQueues
  <1>6. ASSUME NEW p \in Process, OnItsOwn(p)'
        PROVE  Exchange(p)'
    <2>1. Exchange(p) /\ prog[p].socket \in Endpoint /\ prog'[p] = prog[p]
      BY <1>1, <1>6 DEF ClientsSound, Exchanges, OnItsOwn, Running, Astray, ProcessesSane, Sane
    <2>2. inbox'[prog[p].socket] = inbox[prog[p].socket]
      BY <1>5, <2>1
    <2>3. ~Served(p)'
      BY <1>1 DEF Served
    <2>4. \A f \in {"pc", "asked", "socket", "misled"} : prog'[p][f] = prog[p][f]
      BY <2>1
    <2>5. \A i \in DOMAIN inbox'[server] : FALSE
      BY <1>5
    <2>6. \A i \in DOMAIN inbox'[server] : inbox'[server][i].from = prog[p].socket =>
            i + 0 \in DOMAIN inbox[server] /\ inbox'[server][i] = inbox[server][i + 0]
      BY <2>5
    <2> QED
      BY <1>2, <2>1, <2>2, <2>3, <2>4, <2>6, ExchangeStays
  <1> QED
    BY <1>2, <1>3, <1>4, <1>6 DEF ClientsSound, Exchanges

-----------------------------------------------------------------------------
(* The invariant *)

ChatInv == ServerSound /\ ClientsSound /\ faults \in Nat /\ crashes \in Nat

LEMMA ClientsStepKeeps ==
  ASSUME ServerSound, ClientsSound, NEW p \in Process, ProgramStep(p), UNCHANGED <<serverVars, crashes>>
  PROVE  ClientsSound' /\ faults' = faults
  <1>1. ServerIdle
    BY DEF ServerIdle, serverVars, clientVars
  <1>2. PICK q : q = prog[p]
    OBVIOUS
  <1>3. Sane(p, q) /\ q \in Program
    BY <1>2 DEF ClientsSound, ProcessesSane, Sane
  <1>4. CASE start(p)
    BY <1>1, <1>4, StartKeeps DEF start
  <1>5. CASE End(p)
    BY <1>1, <1>5, StopKeeps DEF End, Becomes, netVars
  <1>6. CASE choose(p)
    BY <1>1, <1>6, ChooseKeeps DEF choose
  <1>7. CASE type_p2p(p)
    BY <1>1, <1>7, TypeKeeps DEF type_p2p
  <1>8. CASE send_multicast(p)
    BY <1>1, <1>8, MulticastKeeps DEF send_multicast, netVars
  <1>9. CASE ProgramProgress(p)
    <2>1. CASE fail(p)
      BY <1>1, <2>1, StopKeeps DEF fail, Becomes, netVars
    <2>2. CASE ~fail(p)
      <3>1. Running(p) /\ Reads(p)
        BY <1>9, <2>2, ProgressReads DEF ClientsSound
      <3> QED
        BY <1>1, <3>1, ReadKeeps DEF Reads
    <2> QED
      BY <2>1, <2>2
  <1>10. CASE bind_message_port(p)
    <2>1. q.message_thread = "starting" /\ UNCHANGED <<used, inbox, faults>>
          /\ \/ Becomes(p, Off)
             \/ q.message_port = None /\ prog' = [prog EXCEPT ![p].message_thread = "anywhere"]
             \/ q.message_port # None /\ prog' = [prog EXCEPT ![p].message_thread = "bound"]
      BY <1>2, <1>10 DEF bind_message_port, Becomes, netVars
    <2>2. CASE Becomes(p, Off)
      BY <1>1, <2>1, <2>2, StopKeeps
    <2>3. ASSUME NEW bound \in {"bound", "anywhere"}, bound = "bound" => q.message_port # None,
                 prog' = [prog EXCEPT ![p].message_thread = bound]
          PROVE  ClientsSound'
      <3>1. PICK r : r = [q EXCEPT !.message_thread = bound]
        OBVIOUS
      <3>2. Becomes(p, r)
        BY <1>2, <2>3, <3>1 DEF Becomes, ClientsSound, ProcessesSane
      <3>3. r \in Program /\ Alike(r, q, {"message_thread", "multicast_thread"})
            /\ r.message_thread = bound
        BY <1>3, <3>1 DEF Program, Alike, Fields
      <3>4. Running(p)
        BY <1>2, <1>3, <2>1 DEF Running, Sane, Off
      <3> QED
        BY <1>1, <1>2, <2>1, <2>3, <3>2, <3>3, <3>4, BindKeeps
    <2> QED
      BY <2>1, <2>2, <2>3
  <1>11. CASE read_msg(p)
    BY <1>1, <1>11, ReadMsgKeeps DEF read_msg
  <1>12. CASE bind_multicast_port(p)
    <2>1. q.multicast_thread = "starting" /\ UNCHANGED <<used, inbox, faults>>
          /\ (Becomes(p, Off) \/ prog' = [prog EXCEPT ![p].multicast_thread = "bound"])
      BY <1>2, <1>12 DEF bind_multicast_port, Becomes, netVars
    <2>2. CASE Becomes(p, Off)
      BY <1>1, <2>1, <2>2, StopKeeps
    <2>3. CASE prog' = [prog EXCEPT ![p].multicast_thread = "bound"]
      <3>1. PICK r : r = [q EXCEPT !.multicast_thread = "bound"]
        OBVIOUS
      <3>2. Becomes(p, r)
        BY <1>2, <2>3, <3>1 DEF Becomes, ClientsSound, ProcessesSane
      <3>3. r \in Program /\ Alike(r, q, {"message_thread", "multicast_thread"})
            /\ r.message_thread = q.message_thread
        BY <1>3, <3>1 DEF Program, Alike, Fields
      <3>4. Running(p)
        BY <1>2, <1>3, <2>1 DEF Running, Sane, Off
      <3> QED
        BY <1>1, <1>2, <2>1, <3>2, <3>3, <3>4, BindKeeps
    <2> QED
      BY <2>1, <2>2, <2>3
  <1> QED
    BY <1>4, <1>5, <1>6, <1>7, <1>8, <1>9, <1>10, <1>11, <1>12 DEF ProgramStep, ThreadProgress

LEMMA ServerUntouched ==
  ASSUME ServerSound, UNCHANGED serverVars
  PROVE  ServerSound'
  <1>1. /\ UNCHANGED <<data, root, left, right, heap, sessions, group_list, current_group, cpc,
                       request, found, out, seen>>
    BY DEF serverVars, treeVars, clientVars
  <1>2. ClientTypeOK'
    <2>1. ClientTypeOK
      BY DEF ServerSound
    <2>2. /\ sessions' = sessions /\ group_list' = group_list /\ current_group' = current_group
          /\ cpc' = cpc /\ seen' = seen /\ found' = found /\ request' = request
      BY <1>1
    <2> QED
      BY <2>1, <2>2 DEF ClientTypeOK
  <1>3. TableSound'
    BY <1>1 DEF ServerSound, TableSound
  <1>4. Pointers'
    BY <1>1 DEF ServerSound, Pointers, Session
  <1>5. NamesSought'
    BY <1>1 DEF ServerSound, NamesSought, Sought
  <1>6. LoginsSound'
    BY <1>1 DEF ServerSound, LoginsSound, Leads, Reaches, LoggedIn
  <1>7. Sending'
    BY <1>1 DEF ServerSound, Sending
  <1>8. AddressedToUser'
    BY <1>1 DEF ServerSound, AddressedToUser, LoggedIn
  <1>9. GroupsSound'
    BY <1>1 DEF ServerSound, GroupsSound
  <1> QED
    BY <1>2, <1>3, <1>4, <1>5, <1>6, <1>7, <1>8, <1>9 DEF ServerSound

LEMMA ChatStepKeepsInv ==
  ASSUME ChatInv, [ChatNext]_chatVars
  PROVE  ChatInv'
  <1>1. CASE ServerReceives
    <2>1. ClientStep /\ Undisturbed /\ UNCHANGED <<faults, crashes>>
      BY <1>1, ServerReads DEF ServerReceives, ChatInv, ClientsSound, ProcessesSane
    <2> QED
      BY <1>1, <2>1, ClientKeepsServer, ServerReceivesKeeps DEF ChatInv
  <1>2. CASE ServerWorks
    <2>1. ClientStep /\ Undisturbed /\ UNCHANGED <<faults, crashes>>
      BY <1>2, ServerSends DEF ServerWorks, ChatInv, ServerSound
    <2> QED
      BY <1>2, <2>1, ClientKeepsServer, ServerWorksKeeps DEF ChatInv
  <1>3. CASE ServerCrash
    <2>1. faults' = faults /\ crashes' = crashes + 1
      BY <1>3 DEF ServerCrash
    <2> QED
      BY <1>3, <2>1, CrashKeepsServer, ServerCrashKeeps DEF ChatInv
  <1>4. CASE ClientsStep
    <2>1. PICK p \in Process : ProgramStep(p)
      BY <1>4 DEF ClientsStep
    <2>2. UNCHANGED <<serverVars, crashes>>
      BY <1>4 DEF ClientsStep
    <2> QED
      BY <2>1, <2>2, ClientsStepKeeps, ServerUntouched DEF ChatInv
  <1>5. CASE NetworkStep
    <2>1. UNCHANGED <<serverVars, programVars, crashes>> /\ (Fault \/ Undeliverable(Bound))
      BY <1>5 DEF NetworkStep
    <2>2. ServerIdle
      BY <2>1 DEF ServerIdle, serverVars, clientVars
    <2>3. faults' \in Nat
      BY <2>1 DEF Fault, Undeliverable, ChatInv
    <2> QED
      BY <2>1, <2>2, <2>3, FaultKeeps, UndeliverableKeeps, ServerUntouched DEF ChatInv
  <1>6. CASE UNCHANGED chatVars
    <2>1. /\ UNCHANGED <<serverVars, prog, used, inbox, faults, crashes>>
          /\ UNCHANGED <<sessions, group_list, cpc, request>>
      BY <1>6 DEF chatVars, programVars, netVars, serverVars, clientVars
    <2>2. ServerSound'
      BY <2>1, ServerUntouched DEF ChatInv
    <2>3. ProcessesSane' /\ Queues'
      <3>1. ProcessesSane'
        BY <2>1 DEF ChatInv, ClientsSound, ProcessesSane, Sane, Running
      <3>2. Queues'
        BY <2>1 DEF ChatInv, ClientsSound, Queues, AreQueues
      <3> QED
        BY <3>1, <3>2
    <2>4. Traffic'
      <3>1. ServerIdle /\ Brings(inbox, inbox', {})
        BY <2>1 DEF ServerIdle, Brings
      <3> QED
        BY <2>1, <3>1, ClientTraffic DEF ChatInv, ClientsSound
    <2>5. GroupsKnown'
      BY <2>1, ZenonT(60) DEF ChatInv, ClientsSound, GroupsKnown, Told, Knows, IsGroup
    <2>6. Exchanges'
      BY <2>1 DEF ChatInv, ClientsSound, Exchanges, Exchange, OnItsOwn, Running, Astray, Pending,
                  Served, Answered
    <2> QED
      BY <2>1, <2>2, <2>3, <2>4, <2>5, <2>6 DEF ChatInv, ClientsSound
  <1> QED
    BY <1>1, <1>2, <1>3, <1>4, <1>5, <1>6 DEF ChatNext

LEMMA ChatInitSound ==
  ASSUME ChatInit
  PROVE  ChatInv
  <1> DEFINE loaded == {Registered[a].username : a \in Address}
  <1>1. /\ heap = Registered
        /\ data = [u \in Username |-> IF u \in loaded
                     THEN CHOOSE a \in Address : Registered[a].username = u ELSE NULL]
        /\ ClientInit /\ ProgramInit /\ NetInit /\ crashes = 0
    BY DEF ChatInit
  <1>2. TableSound
    <2>1. ASSUME NEW u \in Username
          PROVE  data[u] \in Address \cup {NULL} /\ (data[u] # NULL => heap[data[u]].username = u)
      <3>1. CASE u \in loaded
        <4>1. \E a \in Address : Registered[a].username = u
          BY <3>1
        <4>2. data[u] = CHOOSE a \in Address : Registered[a].username = u
          BY <1>1, <3>1
        <4> QED
          BY <1>1, <4>1, <4>2
      <3>2. CASE u \notin loaded
        BY <1>1, <3>2
      <3> QED
        BY <3>1, <3>2
    <2> QED
      BY <1>1, <2>1, RegisteredAssumption DEF TableSound
  <1> HIDE DEF loaded
  <1>3. /\ sessions = [l \in Location |-> NULL] /\ group_list = [g \in Group |-> NULL]
        /\ current_group = 0 /\ cpc = "recvfrom" /\ request = NULL /\ seen = {}
        /\ found = NULL /\ out = <<>>
    BY <1>1 DEF ClientInit
  <1>4. ServerSound
    <2>1. ClientTypeOK
      BY <1>3, MaxGroupsAssumption DEF ClientTypeOK
    <2>2. Pointers /\ NamesSought
      BY <1>3, AddressAssumption DEF Pointers, NamesSought
    <2>3. LoginsSound
      BY <1>3 DEF LoginsSound, Leads, Reaches, LoggedIn
    <2>4. Sending /\ AddressedToUser
      BY <1>3 DEF Sending, AddressedToUser
    <2>5. GroupsSound
      <3>1. {g \in Group : group_list[g] # NULL} = {}
        BY <1>3
      <3> QED
        BY <1>3, <3>1 DEF GroupsSound
    <2> QED
      BY <1>2, <2>1, <2>2, <2>3, <2>4, <2>5 DEF ServerSound
  <1>5. /\ prog = [p \in Process |-> Off] /\ used = {} /\ faults = 0 /\ crashes = 0
        /\ inbox = [a \in Endpoint \cup {server} |-> <<>>]
    BY <1>1 DEF ProgramInit, NetInit
  <1>6. ProcessesSane
    <2>1. \A p \in Process : prog[p] = Off /\ Sane(p, Off)
      BY <1>5, OffIsSane
    <2>2. Off.pc = "off"
      BY DEF Off
    <2> QED
      BY <1>5, <2>1, <2>2 DEF ProcessesSane, Running
  <1>7. Queues
    <2>1. <<>> \in Seq({})
      OBVIOUS
    <2> QED
      BY <1>5, <2>1 DEF Queues, AreQueues
  <1>8. \A a \in Endpoint \cup {server} : \A i \in DOMAIN inbox[a] : FALSE
    BY <1>5
  <1>9. Traffic
    BY <1>3, <1>8 DEF Traffic
  <1>10. GroupsKnown
    BY <1>5, <1>8, OffKnows DEF GroupsKnown
  <1>11. Exchanges
    <2>1. \A p \in Process : ~Running(p)
      BY <1>5 DEF Running, Off
    <2> QED
      BY <2>1 DEF Exchanges, OnItsOwn
  <1> QED
    BY <1>4, <1>5, <1>6, <1>7, <1>9, <1>10, <1>11 DEF ChatInv, ClientsSound

(* ChatInv is an invariant: it holds at the start, and no step of the server, of a *)
(* client or of the network ends it.                                              *)
LEMMA ChatInvariance == ChatSpec => []ChatInv
  <1>1. ChatInit => ChatInv
    BY ChatInitSound
  <1>2. ChatInv /\ [ChatNext]_chatVars => ChatInv'
    BY ChatStepKeepsInv
  <1> QED
    BY <1>1, <1>2, PTL DEF ChatSpec

-----------------------------------------------------------------------------
(* The theorems *)

(* Whatever crashes and whatever the network does: the server's types, a client's   *)
(* socket on its own machine, what can be on the way to a client and what the       *)
(* server can receive; and a listener for messages has a port, except the one that  *)
(* a client starts before it looks at the second reply, and ends because of it.     *)
THEOREM ChatTypes == ChatSpec => []ChatTypeOK
  <1>1. ChatInv => ChatTypeOK
    <2> SUFFICES ASSUME ChatInv PROVE ChatTypeOK
      OBVIOUS
    <2>1. ClientTypeOK
      BY DEF ChatInv, ServerSound
    <2>2. ASSUME NEW p \in Process
          PROVE  /\ Running(p) => prog[p].socket \in Ephemeral /\ prog[p].socket[1] = host[p]
                 /\ prog[p].server_addr \in {server, Deaf}
                 /\ \/ prog[p].message_thread = "bound"
                    \/ prog[p].message_thread = "starting" /\ prog[p].pc # "failed"
                    => prog[p].message_port \in Port
                 /\ prog[p].memberships \subseteq 0 .. max_groups - 1
      <3>1. PICK q : q = prog[p]
        OBVIOUS
      <3>2. Sane(p, q)
        BY <3>1 DEF ChatInv, ClientsSound, ProcessesSane
      <3>3. q.message_thread = "bound" \/ (q.message_thread = "starting" /\ q.pc # "failed") =>
              q.message_port \in Port
        <4>1. q.message_thread = "bound" \/ (q.message_thread = "starting" /\ q.pc # "failed") =>
                q.socket \in Location /\ q.message_port = q.socket[2]
          BY <3>2, EphemeralAssumption, EndpointAssumption DEF Sane, Program
        <4> QED
          BY <4>1 DEF Location
      <3>4. q.server_addr \in {server, Deaf} /\ q.memberships \subseteq 0 .. max_groups - 1
        BY <3>2 DEF Sane, Program, Index
      <3> QED
        BY <3>1, <3>2, <3>3, <3>4 DEF Sane, Running
    <2>3. ASSUME NEW a \in Endpoint, NEW d \in Range(inbox[a])
          PROVE  d.from \in {server, Deaf} /\ (d.text = "location" => d.about \in Location)
      <3>1. Sound(a, d)
        BY DEF Range, ChatInv, ClientsSound, Traffic
      <3> QED
        BY <3>1, EndpointAssumption DEF Sound, ChatInv, ClientsSound, ProcessesSane
    <2>4. \A d \in Range(inbox[server]) : d.from \in used /\ d.op # "unknown"
      BY DEF Range, ChatInv, ClientsSound, Traffic, FromClient
    <2> QED
      BY <2>1, <2>2, <2>3, <2>4 DEF ChatTypeOK
  <1> QED
    BY <1>1, ChatInvariance, PTL

(* recvfrom overwrites a client's server_addr with the sender of what it takes for a *)
(* reply: still it keeps the address of the server, whatever is lost, repeated or    *)
(* overtaken, unless P2P messages for another process can come to its socket.        *)
THEOREM ClientsKeepServer == ChatSpec => []ServerKept
  <1>1. ChatInv => ServerKept
    BY DEF ChatInv, ClientsSound, ProcessesSane, Sane, Off, ServerKept, Astray
  <1> QED
    BY <1>1, ChatInvariance, PTL

(* A client that has got past the second reply of its login has its own port in        *)
(* message_port: main ends the program over a text without a number, and no port but   *)
(* its own comes to a socket, whatever was lost, repeated or overtaken, whoever had    *)
(* the socket's address before and however often the server was restarted.             *)
THEOREM PortIsKnown == ChatSpec => []PortKnown
  <1>1. ChatInv => PortKnown
    BY DEF ChatInv, ClientsSound, ProcessesSane, Sane, PortKnown
  <1> QED
    BY <1>1, ChatInvariance, PTL

(* What the server (cmd_msg) and the clients (send_p2p) send to a client goes to the *)
(* address its message thread has bound, whatever the byte order of its port.        *)
THEOREM MessagesArriveAtListener == ChatSpec => []MessagesAimRight
  <1>1. ChatInv => MessagesAimRight
    <2> SUFFICES ASSUME ChatInv, NEW p \in Process, prog[p].message_thread = "bound",
                        NEW a \in Endpoint, NEW d \in Range(inbox[a]),
                        d.re = [meant |-> prog[p].socket]
                 PROVE  a = ListenAt(p)
      BY DEF MessagesAimRight
    <2>1. Sound(a, d)
      BY DEF Range, ChatInv, ClientsSound, Traffic
    <2>2. PICK m : m = prog[p].socket
      OBVIOUS
    <2>3. d.re.meant = m /\ DOMAIN d.re = {"meant"}
      BY <2>2
    <2>4. ASSUME NEW e, NEW x, NEW y
          PROVE  d.re # [from |-> e, op |-> x, args |-> y]
      <3>1. "from" \in DOMAIN [from |-> e, op |-> x, args |-> y]
        OBVIOUS
      <3> QED
        BY <2>3, <3>1
    <2>5. ASSUME d.re \in Asked PROVE FALSE
      <3>1. PICK e \in Endpoint, o \in Operation : d.re = [from |-> e, op |-> o.op, args |-> o.args]
        BY <2>5 DEF Asked
      <3> QED
        BY <2>4, <3>1
    <2>6. PICK l \in used : d.re = [meant |-> l] /\ a = Swap(l)
      BY <2>1, <2>5 DEF Sound
    <2>7. l = m
      BY <2>3, <2>6
    <2>8. ListenAt(p) = Swap(m)
      BY <2>2, ListensBeside DEF ChatInv, ClientsSound
    <2> QED
      BY <2>6, <2>7, <2>8
  <1> QED
    BY <1>1, ChatInvariance, PTL

(* As long as the network loses, repeats and reorders nothing, a client takes no     *)
(* datagram for the reply but the answer to what it has just asked, even if the      *)
(* server has crashed in between; unless its address was an earlier client's, or is  *)
(* another process' with the bytes of the port swapped.                              *)
THEOREM RepliesAreAnswers == ChatSpec => []AnswersFit
  <1>1. ChatInv => AnswersFit
    <2> SUFFICES ASSUME ChatInv, NEW p \in Process, prog[p].misled
                 PROVE  faults > 0 \/ prog[p].reused \/ Astray(p)
      BY DEF AnswersFit
    <2>1. Running(p)
      BY DEF ChatInv, ClientsSound, ProcessesSane, Sane, Running, Off
    <2>2. ~OnItsOwn(p)
      BY DEF ChatInv, ClientsSound, Exchanges, Exchange
    <2>3. faults # 0 => faults > 0
      BY DEF ChatInv
    <2> QED
      BY <2>1, <2>2, <2>3 DEF OnItsOwn
  <1> QED
    BY <1>1, ChatInvariance, PTL

(* Under the same provisos a client that is back at its menu has read every datagram *)
(* that the server has sent it.                                                      *)
THEOREM NothingIsLeftUnread == ChatSpec => []NoLeftovers
  <1>1. ChatInv => NoLeftovers
    <2> SUFFICES ASSUME ChatInv, NEW p \in Process, prog[p].pc \in {"menu", "typing"},
                        inbox[prog[p].socket] # <<>>
                 PROVE  faults > 0 \/ prog[p].reused \/ Astray(p)
      BY DEF NoLeftovers
    <2>1. Running(p) /\ ~Answered(p)
      BY DEF Running, Answered
    <2>2. ~OnItsOwn(p)
      BY <2>1 DEF ChatInv, ClientsSound, Exchanges, Exchange
    <2>3. faults # 0 => faults > 0
      BY DEF ChatInv
    <2> QED
      BY <2>1, <2>2, <2>3 DEF OnItsOwn
  <1> QED
    BY <1>1, ChatInvariance, PTL

(* Until the server is restarted, a client sends what it labels with a group's name  *)
(* to the address the server keeps for that group, whatever the network does, unless *)
(* it has taken a wrong reply.                                                       *)
THEOREM LabelsAreRight == ChatSpec => []LabelMatches
  <1>1. ChatInv => LabelMatches
    BY DEF ChatInv, ClientsSound, GroupsKnown, Knows, LabelMatches
  <1> QED
    BY <1>1, ChatInvariance, PTL

(* ... and nobody hears a group it did not connect to, if no other process runs on *)
(* its machine: no two groups have the same address.                               *)
THEOREM GroupsAreNotOverheard == ChatSpec => []GroupMessagesStay
  <1>1. ChatInv => GroupMessagesStay
    BY DEF ChatInv, ClientsSound, GroupsKnown, Knows, GroupMessagesStay
  <1> QED
    BY <1>1, ChatInvariance, PTL

(* With any number of clients, and through crashes, a message and the location that *)
(* P2P answers lead to a session of the user they were asked for, provided that the *)
(* user has logged in since the server was last started.  Until then they lead to   *)
(* whatever session is at the address that the file has for the user.               *)
THEOREM ChatAddressesUsers == ChatSpec => []AddressedToUser
  <1>1. ChatInv => AddressedToUser
    BY DEF ChatInv, ServerSound
  <1> QED
    BY <1>1, ChatInvariance, PTL

=============================================================================
