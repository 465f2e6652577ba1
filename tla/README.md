# Verification of the RC_Project chat server

This directory holds a TLA+ model of the server and of the chat client of this
repository (`src/code/server`, `src/code/client`), the TLC runs that check it on
small instances, and TLAPS proofs about the server, its clients and the network
between them for every instance. The repository has neither documentation nor tests;
everything here is read off the C code.

## 1. The system

A server process serves two kinds of users. *Administrators* connect over TCP
and keep the user table with `LIST`, `ADD`, `DEL` and `QUIT`. *Clients* send
UDP datagrams: `LOGIN`, `MSG` (a message forwarded by the server), `P2P` (the
address of another user), `CREATEMULTICAST` and `GETMULTICAST` (a group name
for a multicast address). `main` loads the user table from the records file,
then starts one thread for each kind. The two threads share the table and use
no lock.

| Component | Source (`src/code/server/src/…`) | State | Operations |
|---|---|---|---|
| User tree | `data_structures/avl_tree.c` | nodes, links, heights, one malloc'ed record per node | `avl_add`, `avl_remove`, `avl_get`, `private_avl_rewrite` |
| Records file, process | `main.c` | the file (survives), three trees, `groups[]`, `current_group` | load, start threads, end at any time (SIGINT, SIGPIPE, fault) |
| Admin server | `admin/`, `admin/commands/` | one connection, its `exit` flag | accept, read, `LIST`, `ADD`, `DEL`, `QUIT`, disconnect |
| Client server | `client/`, `client/commands/`, `group/` | `user_session_list`, `group_list`, `current_group` | receive, find or create session, five commands |
| Client program | `src/code/client/src/main.c` | sockets, `server_addr`, message port, `multicast_ip`, `multicast_addr`, memberships | login, menu, the six options, message thread, multicast thread |
| Network | external | datagrams under way | lose, repeat, reorder; what arrives at no socket is gone |
| Thread pool, queue | `tools/`, `data_structures/queue.c` | – | used by nothing |
| Helpers | `network/`, `utils/` | – | sockets, formatting |

How they interact:

- The admin thread inserts into and removes from `user_list`; the client thread
  looks users up there, keeps the pointer to the *record* in a session, and
  writes the port of a login into it. Records are never freed, tree nodes are.
- `ADD` appends the record to the file, then links the node. `DEL` changes the
  tree, empties the file, then writes every record that is left.
- The client thread alone uses the sessions and the groups. A session belongs
  to the address (ip, port) a datagram came from. There is no logout.
- `MSG` and `P2P` look for the session *at the ip and port in the user's
  record*, not for the session that is logged in as the user.
- A client sends a request and waits for one reply (three for a `LOGIN`), without
  timeout; the first datagram that comes is the reply, and its sender becomes
  `server_addr`. Messages of others come to a second socket, whose port is the
  one the server reported with its bytes exchanged. Messages to a group go from
  client to client at the group's multicast address; the server only gives out
  the addresses.

What is hard here, and hence what the properties are about (the full list with
lines is under `hazards` in `PROJECT.json`): a lookup that overlaps a change of
the tree; crashes inside `ADD` and `DEL`; a tree that is called balanced and
is not; a deletion that has no effect; pointers, ports and addresses that outlive
what they stood for; the number of datagrams a client waits for; ports that are taken,
used again or swapped; group memberships that are never dropped.

What makes each component correct:

- *User tree*: a lookup not overlapped by a removal finds exactly what is in
  the tree; an overlapped one errs only in known ways; calls end.
- *Records file and admin server*: the file always has what a reload needs, up
  to the step in progress, and each name once; the database is durable outside
  a `DEL`.
- *Client server*: the sender gets the replies it waits for; messages go where the
  named user is; groups share no address.
- *Both threads*: sessions keep their account whatever the admin does; the
  latest login to a record is the one its port comes from; nothing but a login
  changes a record, and only the port in it.
- *Client program, with network and server*: a client takes for the reply what
  answers its request and has read all of it before it asks again; it keeps talking
  to the server and knows its own port; messages reach the port where their recipient
  listens, and group messages the group they are labelled with; a wait for a reply ends.

## 2. Modules

| Module | Models | Built on |
|---|---|---|
| `AvlTree` | `avl_add`, `avl_remove`, `avl_get` access by access, writer against reader | – |
| `UserList` | the same tree with one step per change, and the heap of records | – |
| `UserDb` | what the user database promises: an abstract durable set | – |
| `AdminServer` | `main`'s load, the process, the admin thread | `UserList`, implements `UserDb` |
| `ClientServer` | the client thread | `UserList` |
| `Server` | both threads and crashes | `AdminServer`, `ClientServer` |
| `Network` | UDP between clients and server, with faults | – |
| `ClientProgram` | the client: main thread, message thread, multicast thread | `Network` |
| `Chat` | clients, network and the client thread of the server | `ClientServer`, `ClientProgram` |
| `AvlTreeProofs`, `AdminServerProofs` | theorems | the module of that name |
| `AvlListProofs` | theorems: the results of a lookup, the refinement of `UserList` | `AvlTreeProofs` |
| `UserListProofs` | lemmas: the tree stays ordered, a descent finds what is in it | `UserList` |
| `ClientServerProofs` | lemmas: what each step of the client thread keeps | `ClientServer` |
| `ServerProofs` | theorems about both threads | `Server`, `AdminServerProofs`, `ClientServerProofs` |
| `UserDbProofs` | theorems: lookups, the load, the refinement of `UserDb` | `ServerProofs`, `UserListProofs` |
| `ChatProofs` | theorems about clients, network and server together | `Chat`, `ClientServerProofs` |
| `MC*` | constants and views for TLC | |

Two refinements connect the levels: `AvlTree` implements the steps of `UserList`
(`ImplementsUserList`), and `AdminServer`, alone and within `Server`, implements
`UserDb` (`ImplementsUserDb`).

```
   UserDb  <── implements ── AdminServer ──┐
                                 │         ├── Server
   AvlTree ── implements ──> UserList ── ClientServer ──┐
                                                        ├── Chat
                              Network ── ClientProgram ─┘
```

### AvlTree

`memory`, `allocated` and `root` are the nodes in the heap. A freed address
keeps its contents and can be handed out again. The writer (`wpc`, `at`,
`child`, `path`) is the recursion of `private_avl_add` and
`private_avl_remove` with its stack of callers: descend, change, and on the way
back store the child pointer (`LinkChild`, line 114, 116, 148 or 150) and the
height (`UpdateHeight`, line 120 or 168) in every node of the path. The copy
`*current = *temp` of line 159 is three stores (height and data, left, right), with
the `free` of line 161 a fourth step. `avl_add` searches the tree, makes the node and
then descends again, through the same nodes as nobody else writes them: `Descend`
is both descents. `new_avl_node` goes store by store: `NewNode` (malloc, with the height
and the caller's record of lines 41 and 42), `MallocRecord` (line 43, the address of a
copy not yet filled), `FillRecord` (`memcpy`), `ClearLeft`, `ClearRight`, after which
the caller's record is freed. Nothing points to the new node yet, but malloc may have
returned one that was freed under a reader, who then sees these stores: the caller's
record is `Given`, the unfilled copy `Blank`. The Makefile asks for no optimisation, so
the stores happen in the order of the source.

The reader (`rpc`, `cursor`) is `private_avl_get`: compare with the node, then load a
pointer, and at the end load `node->data`. What a comparison with `Given` or `Blank`
says is open (`Outcomes`), as the memory may be written while it is read. An access to a
freed node, or to a link that `new_avl_node` has not yet cleared (`Unset`), is undefined;
the model sends the reader to `"fault"`.

`Height` is line 120 as C parses it, `(1 + (l > r)) ? l : r`, that is `l`: the
height of a node is that of its left child, 0 or 1, and no balance ever
leaves `-1 .. 1`. The rotations are therefore not modelled beyond the
program-counter value `"rotate"`, which `NeverRotates` excludes.

`raced`, `seen` and `keys` are history. `seen` collects what the lookup in
progress may return: a key (or NULL) that was right at some moment since it
began and, once a removal overlaps it, also what `Strays` lists: NULL, the child that
takes the place of the removed node, and of a user being added the record, `Given` and
`Blank`. `LookupAllowed` says that nothing else is ever returned. `Server` uses this
set for the client thread's lookups, so its one abstraction of the race is one
that `AvlTree` checks.

### UserList

`data[u]` is the record address of user `u` (NULL: no node), `left`, `right` and
`root` are names, `heap` holds the `client_t` records. A node can be named
by its key because nothing rotates. An insertion is two steps, `StoreRecord` (the copy of
`new_avl_node` is a record) and `LinkNode` (the tree has it). `private_avl_add` puts the key below its
neighbour in the order; `private_avl_remove` splices out a node with at most
one child and does nothing to a node with two, as the C code does.
`LookupAgrees` says that the descent of `private_avl_get` in this tree and
`data` are the same, so the other modules may use `avl_get(u) == data[u]`.

### AdminServer

`phase` is the life of the process. `LoadRecord` is one turn of `main`'s read
loop. `Crash` may happen at any point; it stands for SIGINT, for a fault, and
for the SIGPIPE of a write to an administrator who has gone. An `ADD` is
`AddWrite` (the append of `avl_add`), `AddCopy` (`new_avl_node`, `copy` is the
record it has made) and `AddInsert` (the node is linked); a `DEL` is `DelFound`,
`DelUnlink`, `DelTruncate`, one `RewriteRecord` for each record and `DelAnswer`.
Between any two the client thread may act or the process end. `exit` is the
uninitialized variable of `handle_admin`. The port of a new record is what
malloc left there (`FreshPort`).

### ClientServer

One datagram at a time: `recvfrom` finds or makes the session, then one of the
early returns (`refuse`), a lookup in two steps, or a command. `out` is what was
sent for the request. `Operation` holds the datagrams clients send; `BadArgs`
stands for arguments that `sscanf` does not match. `Garbage` is a pointer to no record:
the uninitialized one of a new session, or one that a raced lookup found. What is
read through it is any record there could be (`Read`), so a command may go on, refuse or
address anything; what a login writes through it changes no record (`RecordPort`). A login
writes the port and the ip; the ip is the one it has just compared with.
`MCClientServer` runs the module alone on a fixed table, where `Undisturbed` says what a
lookup returns.

### Server

Either thread takes a step, or the process dies with its sessions and groups.
`Overlap` gives the lookups the results described under `AvlTree`; `Given` and
`Blank` are both `Garbage` here, and a user being added is the record at `copy`.
`raced` remembers that a removal overlapped the lookup of the current request.
`LoginBeforeCopy` is the login that found the record of an `ADD` before `new_avl_node`
has copied it: the port it writes there is copied with the rest.

`latest` and `account` are history: where the latest login to each record came from, and
the name and password each session logged in with (`Garbage` if the lookup was raced).

### Network

`inbox[a]` is what is under way to an address or waits in its socket. `Fault` loses
a datagram, brings it twice or lets it be overtaken; `faults` counts them up to
`MaxFaults`. `Undeliverable` drops what comes to an address nobody has bound.

### ClientProgram

`prog[p]` is one process of the client. `pc` is where its main thread is:
`"login"`, `"port"` and `"permissions"` are the three `recvfrom`s of `authenticate`
and `main`, `"menu"` is `options`, `"reply"` the `recvfrom` of the chosen option and
`"typing"` the prompt of `send_p2p`. A step goes from one blocking call to the
next: `choose` sends the request, `print_reply` (`send_msg`,
`create_group_multicast`), `send_p2p` and `connect_multicast` read the answer.
The two threads are `bind_message_port`, `read_msg` and `bind_multicast_port`.
`AwaitPort` starts the message thread (line 382) before `main` looks whether the second
reply was a number at all; if it was not, `"failed"` is the point before line 384 and
`fail` its `error()`. Until then the thread may run with the `message_port` of a global
variable, 0 (`None`), and is bound to a port nobody knows (`"anywhere"`).
`error()` in any thread ends the process, as does the user (`End`). `start` is a
process that is run (again) on a port the kernel chooses.

`server_addr`, `message_port`, `multicast_ip`, `multicast_addr` and `current_group`
are the globals of `main.c`, in the order in which the code sets them:
`connect_multicast` sets `multicast_ip` first and the others only once
the membership was added. `memberships` is what the kernel keeps; nothing drops
one. The multicast socket hears a group if any process of its machine has joined it
and the sender is on another machine (`IP_MULTICAST_LOOP` is off).

Ports are numbers and `htons` exchanges their two bytes. The server keeps
`sin_port` as it came, in network order, and applies `htons` again when it sends
(`Recipient` in `Chat`); so do `send_p2p` (`Target`) and the message thread
(`ListenAt`). The two sides exchange the bytes equally often, so the message arrives.

`used`, `reused`, `misled`, `connected` and `overheard`, and the field `re` of a
datagram (the request it answers, or the session it is meant for), are history: no
step of the program depends on them.

### Chat

`ServerReceives` and `ServerWorks` are the client thread of `ClientServer` with
`recvfrom` fed from the network and its `out` sent to it. `ServerCrash` loses
sessions, groups and what was waiting. The user table is what `main` loads from a
sorted file; the administrator is idle, as `Server` covers that side.

## 3. Runs

| Run | Configuration | Shows | Bounds | Distinct states |
|---|---|---|---|---|
| `avl_safety` | `AvlSafety.cfg` | type, no rotation, lookup results, refinement of `UserList` | 4 keys, 5 nodes | 1 240 000 |
| `avl_liveness` | `AvlLiveness.cfg` | calls and lookups end | 2 keys, 2 nodes | 195 000 |
| `admin_safety` | `AdminSafety.cfg` | tree, file and their refinement of `UserDb` | 4 users, 5 records per life | 488 000 |
| `admin_deleted` | `AdminDeleted.cfg` | counterexample: "deleted" and still there | 3 users | – |
| `client_commands` | `ClientCommands.cfg` | replies, addressing, groups | 4 names, 2 hosts, 2 ports, 3 group names, 2 addresses | 353 000 |
| `server_safety` | `ServerSafety.cfg` | both threads: sessions, logins, file | 2 users, 2 ports, 3 records per life | 609 000 |
| `server_liveness` | `ServerLiveness.cfg` | loads, commands, requests end | 2 users, 1 port, 2 records per life | 287 000 |
| `server_message` | `ServerMessage.cfg` | counterexample: message to a stranger's session | as `server_safety` | – |
| `server_race` | `ServerRace.cfg` | counterexample: message to the child's user | as `server_safety` | – |
| `chat_messages` | `ChatMessages.cfg` | requests and replies, messages by server and P2P | 2 clients on 2 machines, 2 ports | 1 010 000 |
| `chat_groups` | `ChatGroups.cfg` | multicast groups | 2 clients, 2 groups, 2 addresses | 1 660 000 |
| `chat_faults` | `ChatFaults.cfg` | one fault of the network and one restart: replies, port; liveness | 1 client, every command | 570 000 |

Every `CONSTANT` that bounds a run is a size, not a special case:

- `Node`, `Address`: what malloc may return. They bound the tree in `AvlTree`
  (`NewNode`) and the registrations in one life of the process in
  `AdminServer` (`AddWrite`). Four keys make a node with two children, one of which has
  one of its own; the fifth address lets a record be registered while an
  old one is kept.
- `Username` with 3 or more names gives a deletion without effect; the server
  runs need 2, for the race and for two users of one host.
- `Port` with two values gives a second session, and a stale port that
  is another user's. `Group` has one name more than there are addresses.
- `FreshPort`, what malloc leaves in the port of a new record, is no port in the runs, for
  the number of states. The theorems hold for any.
- `avl_liveness` has room for two users. That additions alone cannot keep a lookup going
  is hardly put to the test by it: with 2 keys at most two go on without a removal.
  3 keys and 3 nodes are too many states for the liveness check.
- The file needs no bound of its own: `OneRecordPerUser`.
- `Room`: in `Chat` users type nothing while more than so many datagrams wait
  anywhere. It bounds the queues; a client sends nothing while it waits, so
  more than one waiting datagram needs a second client, a P2P message or a fault.
- `Ephemeral` are the ports the kernel gives out. `chat_messages` uses 513 and, on
  one machine, also 258, which is 513 with its bytes exchanged: the two values a port
  takes in the code, and the smallest set in which a client can get the port
  at which another one listens. Both machines start clients again on used ports.
- `Typed` is what each user types: in `chat_messages` each writes to the other,
  in `chat_groups` one creates and joins both groups and the other joins one.
- `MaxFaults`, `MaxCrashes`: the properties of `chat_faults` are about what one lost,
  repeated or overtaken datagram, and one restart, can bring about. One is enough for the
  second reply of a login to be the wrong one (`PortKnown`), but not for a client
  to be sent to the wrong group: `chat_groups` has two for that.

Deadlock is checked in every run. Of the runs that pass, the largest takes under
three minutes with two workers.

Symmetry is over sets whose elements are only compared for equality (malloc
results, ports of a host, group names), and only in runs without liveness.
The views leave out what no later step and no property reads. In `MCAvlTree`: the contents of
freed nodes, and variables of a call that is over. In `MCServer`: the `exit` flag, which decides
only between outcomes the administrator can also bring about; the answer to the
administrator; where `main`'s load ended; and, once it is served, the request, of which
each run keeps instead whether its property about what was sent holds. In `MCChat`: a
request that was served and, in the run without groups, the state of the multicast
thread, in the run without messages that of the message thread.

### What the counterexamples show

1. `DeletedMeansGone`. `ADD` of 2, 1 and 3, then `DEL` of 2: the node has two
   children, `private_avl_remove` (line 152) has no branch for it, and
   `cmd_del` answers "User 2 deleted." The user stays, also in the file.
   `SortedFileLoadsAsList` tells the sequel: after the next restart the tree
   is a list, and the same `DEL` works.
2. `MessageGoesToUser`. User 1 logs in from port p; a `DEL` writes 1's record
   with p to the file; the server restarts; user 2 of the same host logs in from p;
   a `MSG` to user 1 finds the session at p, user 2's. The lookup itself went well.
3. `AddressedToUser` in the full server. The client thread looks up user 1 while `DEL`
   of 1 copies its child 2 over the node. The lookup returns 2's record.
   Without an overlapping removal the property holds (`AddressedUnlessRaced`).

A lookup that a removal overlaps can also return a pointer to no record, and a login keeps
it: `DEL` frees the node of a user under the reader, an `ADD` gets the node from malloc,
and the reader returns the record `cmd_add` made, which line 49 of `avl_tree.c` frees.
`SessionsSound`, `LoginsReachable` and `AddressedToUser` exempt such sessions by `raced`
and `Garbage`; no run shows the case as a counterexample.

### What the runs of Chat say

Each property has exemptions. Every one of them is needed: with it left out of the
property, TLC shows a behaviour that breaks the rest. The instance is that of the run, with
two exceptions for `GroupMessagesStay`, named below.

- `AnswersFit`, `NoLeftovers`: a client started on the port of an earlier one reads
  what was meant for that one; a client whose port is another one's message port,
  or the reverse, reads that one's messages (`Astray`).
- `ServerKept`: one P2P message to such a client makes its sender the client's
  `server_addr` from then on, and the client talks to a socket nobody reads. Faults of
  the network alone never do that.
- `PortKnown` has no exemption: what arrives at a client's socket and is a number is
  the client's own port, so a client that goes on after the second reply knows it. The
  message thread, which is started before `main` has looked at the reply, is not
  covered: until `error()` ends the program it may listen elsewhere.
- `WaitsOnlyIfLost`: one lost datagram, or a restart of the server at the wrong
  moment, makes a client wait for ever. `main.c:116` has a message for it, "Lost
  connection with the server...", but no socket has a timeout, as `add_timeout` is
  never called. Without a loss no wait is for ever: the server answers each
  request, refusals included, with as many datagrams as the client reads.
- `LabelMatches`, `GroupMessagesStay`: a restarted server hands out the
  same multicast addresses for other groups, while the old memberships remain
  (`GroupMessagesStay`: in the instance of `chat_groups` with one restart). And a
  socket hears what any process of its machine has joined: with two clients on one
  machine and a third elsewhere, the second of the two can join a group before
  its own failing bind ends it, and the first hears that group. The run, where
  each client has a machine of its own, cannot show this; the attempt to prove the
  property did.
- Two clients cannot run on one machine: `MULTICAST_PORT` is taken, and
  `bind_multicast_port` ends the second program. The runs therefore put each client
  on a machine of its own.

### Fairness

Both threads of a running process are scheduled, so a thread that has a step to
take without waiting for anybody is weakly fair: the writer and the reader of
`AvlTree` once they are in a call, `main`'s load, the admin thread inside an
`ADD` or `DEL`, the client thread once it has received a datagram. Nobody promises
that an administrator connects or types, that datagrams arrive, that the process is
started again or that it lives on: none of these is fair, and the liveness
properties end also when the process does. `LookupEnds` holds only if removals do
not go on for ever: while they do, freed nodes can be reused so that a reader is
sent down again and again. `Server` takes a lookup to return, in the same sense.

In `Chat` the server, and each thread of a client that has something to read or to
bind, are fair (`ServerReceives`, `ServerWorks`, `ProgramProgress`, `ThreadProgress`).
Users need not type, nor start or end a program, and faults and crashes need not happen.

## 4. Proofs

`tlapm` on each of the eight `*Proofs` modules checks them; they use SMT, Zenon and,
for the temporal steps, LS4. The assumptions are the named `ASSUME`s of the modules:
NULL, `None` and the other sentinels are outside the sets they are used with, keys are
integers, registrations are typed, the exchange of a port's bytes is its own inverse,
and the users of the client program have no command but those of its menu
(`TypedAssumption`; the server's answer to an unknown command is the subject of
`ServerProofs`). Nothing is assumed finite: any number of users, clients, machines, ports,
groups, faults and restarts.

| Theorem | Statement |
|---|---|
| `AvlTreeProofs!TypeCorrect` | `Spec => []TypeOK` |
| `AvlTreeProofs!NoRotation` | `Spec => []NeverRotates` |
| `AvlListProofs!TreeImplementsUserList` | `Spec => ImplementsUserList` |
| `AvlListProofs!LookupsAllowed` | `Spec => []LookupAllowed` |
| `AdminServerProofs!TypeCorrect` | `AdminSpec => []AdminTypeOK` |
| `AdminServerProofs!FileAndMemoryAgree` | `AdminSpec => []FileMatchesMemory` |
| `AdminServerProofs!NoDuplicateRecords` | `AdminSpec => []OneRecordPerUser` |
| `ServerProofs!ServerTypeCorrect` | `ServerSpec => []ServerTypeOK` |
| `ServerProofs!ClientTypeCorrect` | `ServerSpec => []ClientTypeOK` |
| `ServerProofs!ServerFileAndMemoryAgree` | `ServerSpec => []FileMatchesMemory` |
| `ServerProofs!SessionsAreSound` | `ServerSpec => []SessionsSound` |
| `ServerProofs!LatestLoginReachable` | `ServerSpec => []LoginsReachable` |
| `ServerProofs!AddressedWell` | `ServerSpec => []AddressedUnlessRaced` |
| `ServerProofs!GroupsAreSound` | `ServerSpec => []GroupsSound` |
| `ServerProofs!RequestsAreAnsweredOnce` | `ServerSpec => []AnswerShape` |
| `ServerProofs!IdentityIsKept` | `ServerSpec => IdentityKept` |
| `ServerProofs!OneWriterOnly` | `ServerSpec => OneWriter` |
| `UserDbProofs!LookupIsMembership` | `AdminSpec => []LookupAgrees` |
| `UserDbProofs!ServerLookupIsMembership` | `ServerSpec => []LookupAgrees` |
| `UserDbProofs!SortedFileMakesAList` | `AdminSpec => []SortedFileLoadsAsList` |
| `UserDbProofs!AdminImplementsUserDb` | `AdminSpec => ImplementsUserDb` |
| `UserDbProofs!ServerImplementsUserDb` | `ServerSpec => ImplementsUserDb` |
| `ChatProofs!ChatTypes` | `ChatSpec => []ChatTypeOK` |
| `ChatProofs!ChatAddressesUsers` | `ChatSpec => []AddressedToUser` |
| `ChatProofs!PortIsKnown` | `ChatSpec => []PortKnown` |
| `ChatProofs!ClientsKeepServer` | `ChatSpec => []ServerKept` |
| `ChatProofs!MessagesArriveAtListener` | `ChatSpec => []MessagesAimRight` |
| `ChatProofs!RepliesAreAnswers` | `ChatSpec => []AnswersFit` |
| `ChatProofs!NothingIsLeftUnread` | `ChatSpec => []NoLeftovers` |
| `ChatProofs!LabelsAreRight` | `ChatSpec => []LabelMatches` |
| `ChatProofs!GroupsAreNotOverheard` | `ChatSpec => []GroupMessagesStay` |

*NoRotation.* That no rotation happens is not inductive: a node with a left
child of height 2 would be rotated. The invariant adds that the height in *every*
node at *every* address, freed ones included, is 0 or 1 (`HeightsSmall`).
`HeightIsFirst` says that the C expression is its first operand; heights
are therefore only copied from another node, set to 1 in a new node or set to 0
for a missing child, and a difference of two values in {0, 1} is no cause for a rotation.
The interleaving with the reader adds nothing, as it writes no node.

*TreeImplementsUserList, LookupsAllowed* share one invariant, `ListInv`: between any
two stores of the writer the linked nodes are a search tree, and both threads
are at the right place of it. The tree is read as a caller would find it: a pointer
to a freed node counts as NULL (`Present`), and a node that is taking over its child
counts as what it was until the child is freed (`Contents`). That it is a search tree is
said without recursion, as in `UserDbProofs`: for *some* relation `below` (`TreeSorted`).
The other parts are

- `Shape`: `path`, the callers of `private_avl_add` and `private_avl_remove`, is the
  chain of links the key takes from the root to `at` (`WayTo`), while `Making`, `Taking` and
  `Returning` say how far `new_avl_node` is, what has been copied and what the call gives back. With it
  `LinkChild` stores, in every caller but the last, the pointer that is there already (`WayBack`); in the last it
  links the new leaf or drops the freed one, or stores what was there.
- `Descent`: the keys left behind on the way down do not lie between the key and those
  ahead, so the leaf goes where the descent ends (`Falls`). The descent of a
  removal is the same until the key is found.
- `Search`: unless a removal overlapped, or the key was absent at some moment since the
  lookup began, the reader has a node with its key ahead. A new leaf extends
  `below` by pairs with that leaf only, so what was ahead stays ahead.
- `Reading`: a removal marks the lookup as `raced` with its first store, before the reader
  can meet its effects; what a node in which the reader stopped would give it (`DataOf`) is
  in `seen`, also when the node has been freed, handed out again, and is being built for a
  new key. A reader can be in a node that is being built only if it is `raced`, because the
  node was freed under it.

Only three kinds of writer step change this tree: the store that links a new leaf, the `free`
of a leaf (`RemoveLeaf`) and the `free` after a copy (`FreeChild`). The others, the stores of the
copy, the heights and the way back among them, leave `Linked`, `Top`, `Lefts`, `Rights` and
`Datas` as they are (`WriterCases`), and while no removal is under way the reader sees exactly
this tree (`QuietTree`). For the refinement, `ListStep` shows that these steps are
`List!private_avl_add` and `List!private_avl_remove` of the key (`LeafListed`, `LeafUnlisted`,
`ChildUnlisted`) and that equal trees map to equal lists (`SameTreeSameList`).

*FileAndMemoryAgree, NoDuplicateRecords, TypeCorrect* share one invariant. What a
step may rely on has to be said for every point of a command: which of
`pending`, `deleting` and `unwritten` is set where (`Control`), that a pending
user is not yet in the tree, that the records written so far and those
still unwritten are disjoint in a rewrite, that in a load the accounts in the tree
are those of the prefix read. The two properties need one another:
`FileMatchesMemory` makes the duplicate check in memory good for the file, and
`OneRecordPerUser` makes the refusal of a duplicate in the load never lose a
record. The proof has one lemma for each group of actions and a step for each action.
The invariant is stated with `Account`, a record without its port, because logins
change ports in memory only.

*ServerProofs.* All its theorems rest on one invariant, `SInv`: the invariant of the admin
thread (`Inv`, above), the types, the properties themselves, and some parts that say what
the client thread may rely on between its steps. `Lookups`: every pointer a lookup may
return, or has returned, is `Garbage`, NULL or leads to an allocated record, and it
leads to one with the name that was sought unless a removal overlapped (`raced`); the checks
a command made at dispatch still hold when the lookup is over. `CopyMade`: the record an
`ADD` has made is allocated, which a raced lookup needs. `Sending`: nothing is sent
before the end of a request, and something is addressed to somebody only after a lookup
that found a record. `Leads`: a session logged in with a record of the heap is at that
record's ip, raced or not. `History`: `latest` and `account` agree with sessions and records.

Three facts carry the interleaving: the admin thread only adds records
(`AdminKeepsRecords`), the client thread changes no account (`ClientKeepsAccounts`), so
records keep their names; and the only write of the client thread to a record is
a login (`ClientCases`, which reduces each command to what it changes), which
moves that record's ip and port to the session it logs in (`LoginIsSound`).
`Inv` is stated with accounts, so that the client thread keeps it for nothing; a login that
changes the record of an `ADD` before it is copied changes only its port.
The end of the process brings a state in which the rest holds trivially (`FreshSound`).
`SessionsSound` and `LoginsReachable` are not inductive alone: a login through a
pointer to a record that is not there, or of another host, would break both. That the ip
which `LOGIN` writes is the one that is there (`OneWriterOnly`) rests on the comparison in
`cmd_login` and on nobody else writing an ip meanwhile.
`AnswerShape` is a part of `SInv` too, by the list of what each kind of step sends
(`WhatIsSent`); `Sending` gives it that nothing was sent before. The lemmas about one
step of the client thread are in `ClientServerProofs` and assume of the other thread
only that records keep their names, so that `Chat` can use them as they are.

*UserDbProofs.* Each step of `AdminServer` is a step of `UserDb` under the mapping, or
a stutter. The case that needs an invariant is a `DEL` without effect: `UserDb` allows
it only for a user with others on both sides in the *order*, while the code has
it for a node with two *children*. `Ordered` says that the tree is a search tree,
without recursion: there is *some* relation `below` that contains each node with
itself and with everything its children are below-related to, on the right side of the
node. An insertion extends the relation along the path to the new leaf, a removal
restricts it (`InsertKeepsOrder`, `RemoveKeepsOrder`). The client thread changes neither
tree nor file, so the server implements the same database.

*LookupIsMembership* needs `Ordered` and no more, but a descent has no bound, and the
provers have no induction. `DescentExists` gives a function that solves the equations of
`private_avl_get`: from a node, the descent finds what is `below` it.
`DescentFinds` shows that every solution agrees with it: the users `below` a node are
finitely many, so among the nodes where a solution went wrong there would be one with the
fewest, and the child to which it descends has fewer. *SortedFileMakesAList* rests on
`ListSoFar`: the names in the tree are those of the records read so far, each smaller than the
next one in the file, so every insertion of the load is on the right.

*ChatProofs.* One invariant, `ChatInv`, in two halves. `ServerSound` is what the client
thread knows with the table fixed, kept by its steps (`ClientServerProofs`) and by
a crash, after which nothing is left of it that could be wrong. `ClientsSound` says
what the clients and the network know:

- `ProcessesSane`: what each process may rely on at each blocking call: it has a socket of
  its own machine that nobody else has; past the second reply its `message_port` is the
  port of that socket, and before, it has no message thread; its `server_addr` is wrong only
  if its address is one where somebody may listen. `PortKnown` is part of this, and
  `Traffic` is why it is kept: a number on the way to a socket is that socket's port.
- `Traffic`: a datagram on the way to a client is a message for the listener whose
  port is this one with its bytes exchanged, or answers a request from the address
  it goes to. `MessagesAimRight` and `ServerKept` follow from these two and from no
  count of faults: a lost, repeated or overtaken datagram brings none that was not there
  (`FaultBringsNothing`).
- `Exchanges`: as long as no fault has happened and nothing can stray to a process
  (`OnItsOwn`), its request is in one place: on the way, being served, or answered; and
  the answers that wait for it are as many as it still reads. `AnswersFit`
  and `NoLeftovers` are what this says of a process that reads and of one at its menu. Neither
  is inductive alone, since a second answer could come from a request that is
  still on the way. `AnswerShape` enters here: the server sends as many replies as the
  client reads.
- `GroupsKnown`: until the server restarts, what answers on the way and processes say of
  groups is what the server keeps. `LabelMatches` follows at once; `GroupMessagesStay`
  needs also that no two groups have the same address (`GroupsSound`).

The proof has a lemma for each action of clients, network and server, and in it a step for
each of the four parts. A crash of the server loses requests and answers, which keeps
`Exchanges`, and ends what `GroupsKnown` promises.

Not proved, only model-checked: the liveness properties, `WaitsOnlyIfLost` among them
(fairness and `ENABLED` are out of TLAPS' reach). Every invariant and every action
property or refinement that a passing run checks is a theorem.

## 5. What is not modelled

- *Byte-level data*: lengths, `sscanf` overflow, `buffer[n] = '\0'` (every datagram of a
  client has BUFFER_SIZE bytes, so the terminator goes one past the buffer each time,
  and one before it when `recvfrom` fails), the 100 bytes `send_msg` of the client has for a reply, permissions
  outside {0, 1} as an index, partial reads of a record.
- *Failing system calls*: writes to the file succeed and are complete. In the client,
  a bind fails when the port is taken; other failures, such as a swapped port below
  1024, end the program like `End`.
- *TCP framing*: one `read` is one command. In the code, two commands in one read are
  executed as one. `admin_size`, the uninitialized length given to `accept`, matters
  only to the unused peer address.
- *What sscanf takes for a number*: in `AwaitPort` only the second reply of a `LOGIN`. The
  location of a user whose name begins with a digit, or a message of such a user, would be
  one as well; they come to a client that waits there only if its address was another's.
- *Torn accesses*: one `int` or pointer is read or written in one step.
- *Use of memory that is no record*: a session whose pointer came from a raced lookup
  (`Garbage`) reads anything through it, and `Crash` may come at any time. A login that
  writes through it is taken to hit the record of the `ADD` before it is copied, or memory
  that nobody reads; should malloc have given the freed record away meanwhile, it
  would hit that.
- *`tree->size`*: written, and never read.
- *The delay of group messages*: one reaches its audience in the step that sends it.
- *The administrator in `Chat`*: the table is fixed there; `Server` has the admin thread,
  but takes datagrams from anywhere instead of from client programs.
- Two equal requests of one client are the same in the history field `re`: a late
  reply to the first would count as one to the second.
- `LIST` reads the tree in the thread that also writes it: it changes nothing and races
  with nothing.
- *Thread pool and queue*: compiled, and called by nothing. `new_thread_pool` starts its
  workers with a NULL argument that `thread_job` follows at once, so there is no
  behaviour of a working pool to model.
- *Helpers, GNS3 topology*: no state of their own.

## 6. Plan

Done: all modules of section 2 and the proofs of section 4. In order of importance,
what is left:

1. A stream between administrator and `handle_admin`, several commands in one `read`.
2. Writes to the records file that fail, and what the next load makes of the result.
