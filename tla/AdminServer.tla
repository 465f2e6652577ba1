----------------------------- MODULE AdminServer -----------------------------
(***************************************************************************)
(* The life of the server process (main.c: open the records file, load it, *)
(* start the threads; SIGINT, a fault or a broken pipe ends it) and its    *)
(* admin thread (admin_server.c, admin_commands.c): one TCP connection at  *)
(* a time, whose LIST, ADD, DEL and QUIT commands change user_list and the *)
(* records file.                                                           *)
(*                                                                         *)
(* The client thread looks at user_list between any two steps of an ADD or *)
(* a DEL, and the process may end between any two of them: the steps are   *)
(* the writes to the file and the change of the tree.                      *)
(***************************************************************************)
EXTENDS UserList

CONSTANTS
  Registration,  \* the argument lists of ADD that the admins type
  FreshPort      \* what malloc can leave in the port of a new client_t

ASSUME FreshPortAssumption == FreshPort \subseteq Port \cup {NoPort}
ASSUME RegistrationAssumption ==
  Registration \subseteq
    [username : Username, password : Password, ip : Ip, perms : SUBSET Permission]

VARIABLES
  phase,      \* main: "down", "loading" the file, or "running" both threads
  next,       \* main: position in the file of the next record to load
  file,       \* the records file, opened with O_APPEND; outlives the process
  conn,       \* "closed" while the thread is in accept, else "open"
  exit,       \* handle_admin's exit: "unset", or "0" once a command has set it
  apc,        \* where the admin thread is
  pending,    \* the client_t of an ADD that is on file and not yet copied
  copy,       \* where new_avl_node has copied it, until the node is linked in
  deleting,   \* the username of a DEL that is being written out
  unwritten,  \* the users private_avl_rewrite has still to write
  answer      \* the last message written to the admin, and the user it names

adminVars == <<phase, next, file, conn, exit, apc, pending, copy, deleting,
               unwritten, answer>>
vars == <<treeVars, adminVars>>

Client(reg, port) ==
  [username |-> reg.username, password |-> reg.password, ip |-> reg.ip,
   port |-> port, perms |-> reg.perms]

AnswerText ==
  {"none", "users", "usage", "duplicate", "created", "not found", "deleted", "unknown command"}

NoAnswer == [msg |-> "none", user |-> NULL]

FileNames == {file[i].username : i \in DOMAIN file}

AdminTypeOK ==
  /\ TreeTypeOK
  /\ phase \in {"down", "loading", "running"}
  /\ next \in Nat \ {0}
  /\ file \in Seq(client_t)
  /\ conn \in {"closed", "open"}
  /\ exit \in {"unset", "0"}
  /\ apc \in {"read", "insert", "link", "unlink", "truncate", "rewrite"}
  /\ pending \in client_t \cup {NULL}
  /\ copy \in Address \cup {NULL}
  /\ deleting \in Username \cup {NULL}
  /\ unwritten \subseteq Users
  /\ answer \in [msg : AnswerText, user : Username \cup {NULL}]

AdminInit ==
  /\ EmptyTree
  /\ phase = "down" /\ next = 1 /\ file = <<>>
  /\ conn = "closed" /\ exit = "unset" /\ apc = "read"
  /\ pending = NULL /\ copy = NULL /\ deleting = NULL /\ unwritten = {} /\ answer = NoAnswer

-----------------------------------------------------------------------------
(* main.  Definitions whose name starts with Mutant are slips that a change of *)
(* the code could make: a run is known to notice each of them.                 *)

Boot ==
  /\ phase = "down"
  /\ phase' = "loading" /\ next' = 1
  /\ UNCHANGED <<treeVars, file, conn, exit, apc, pending, copy, deleting, unwritten, answer>>

(* One turn of main's read loop: avl_add, which refuses a name it has. *)
LoadRecord ==
  /\ phase = "loading" /\ next <= Len(file)
  /\ IF avl_get(file[next].username) # NULL
     THEN UNCHANGED treeVars
     ELSE \E a \in Address : InsertAt(a, file[next])
  /\ next' = next + 1
  /\ UNCHANGED <<phase, file, conn, exit, apc, pending, copy, deleting, unwritten, answer>>

(* one record too many is waited for *)
MutantStartThreads ==
  /\ phase = "loading" /\ next > Len(file) + 1
  /\ phase' = "running"
  /\ UNCHANGED <<treeVars, next, file, conn, exit, apc, pending, copy, deleting, unwritten, answer>>

StartThreads ==
  /\ phase = "loading" /\ next > Len(file)
  /\ phase' = "running"
  /\ UNCHANGED <<treeVars, next, file, conn, exit, apc, pending, copy, deleting, unwritten, answer>>

(* The process ends, at any point: the memory is gone, the file stays. *)
Crash ==
  /\ phase # "down"
  /\ phase' = "down" /\ next' = 1
  /\ FreshTree
  /\ conn' = "closed" /\ exit' = "unset" /\ apc' = "read"
  /\ pending' = NULL /\ copy' = NULL /\ deleting' = NULL /\ unwritten' = {}
  /\ answer' = NoAnswer
  /\ UNCHANGED file

-----------------------------------------------------------------------------
(* server_worker and handle_admin *)

Accept ==
  /\ phase = "running" /\ conn = "closed"
  /\ conn' = "open" /\ exit' = "unset" /\ answer' = NoAnswer
  /\ UNCHANGED <<treeVars, phase, next, file, apc, pending, copy, deleting, unwritten>>

(* read returned 0 or less *)
Disconnect ==
  /\ conn = "open" /\ apc = "read"
  /\ conn' = "closed"
  /\ UNCHANGED <<treeVars, phase, next, file, exit, apc, pending, copy, deleting, unwritten, answer>>

Reading == phase = "running" /\ conn = "open" /\ apc = "read"

(* A command that changes nothing but the answer, and sets *exit = 0. *)
Answer(msg, u) ==
  /\ answer' = [msg |-> msg, user |-> u] /\ exit' = "0"
  /\ UNCHANGED <<treeVars, phase, next, file, conn, apc, pending, copy, deleting, unwritten>>

cmd_list == Reading /\ Answer("users", NULL)

(* ADD or DEL whose arguments sscanf does not match *)
InvalidUsage == Reading /\ Answer("usage", NULL)

cmd_quit ==
  /\ Reading
  /\ conn' = "closed"
  /\ UNCHANGED <<treeVars, phase, next, file, exit, apc, pending, copy, deleting, unwritten, answer>>

(* An unknown command does not set exit: until one has, handle_admin tests *)
(* an uninitialized variable, and may leave or go on.                      *)
UnknownCommand ==
  /\ Reading
  /\ answer' = [msg |-> "unknown command", user |-> NULL]
  /\ conn' \in IF exit = "unset" THEN {"open", "closed"} ELSE {"open"}
  /\ UNCHANGED <<treeVars, phase, next, file, exit, apc, pending, copy, deleting, unwritten>>

AddDuplicate(reg) ==
  /\ Reading
  /\ avl_get(reg.username) # NULL
  /\ Answer("duplicate", NULL)

(* cmd_add, first half: avl_add appends the new record to the file.  new_client *)
(* does not set port: it is what malloc left there.  The guard on heap bounds   *)
(* the allocations of one life of the process.                                  *)
AddWrite(reg) ==
  /\ Reading
  /\ avl_get(reg.username) = NULL
  /\ \E a \in Address : heap[a] = NULL
  /\ \E port \in FreshPort : pending' = Client(reg, port)
  /\ file' = Append(file, pending')
  /\ apc' = "insert"
  /\ UNCHANGED <<treeVars, phase, next, conn, exit, copy, deleting, unwritten, answer>>

(* second half: new_avl_node copies the record of cmd_add and frees it, then *)
(* the node enters the tree.  A pointer the client thread got from a lookup  *)
(* that this overlapped may lead to either record (Server).                  *)
AddCopy ==
  /\ apc = "insert"
  /\ \E a \in Address : StoreRecord(a, pending) /\ copy' = a
  /\ pending' = NULL /\ apc' = "link"
  /\ UNCHANGED <<data, root, left, right, phase, next, file, conn, exit, deleting, unwritten, answer>>

AddInsert ==
  /\ apc = "link"
  /\ LinkNode(copy, heap[copy].username)
  /\ answer' = [msg |-> "created", user |-> heap[copy].username]
  /\ copy' = NULL /\ exit' = "0" /\ apc' = "read"
  /\ UNCHANGED <<heap, phase, next, file, conn, pending, deleting, unwritten>>

DelNotFound(u) ==
  /\ Reading
  /\ avl_get(u) = NULL
  /\ Answer("not found", NULL)

(* cmd_del: avl_remove finds the user, changes the tree (its stores lie between *)
(* DelFound and DelUnlink, see AvlTree), empties the file, then writes every    *)
(* record that is left, in order, with the port it has at that moment.          *)
DelFound(u) ==
  /\ Reading
  /\ avl_get(u) # NULL
  /\ deleting' = u
  /\ apc' = "unlink"
  /\ UNCHANGED <<treeVars, phase, next, file, conn, exit, pending, copy, unwritten, answer>>

DelUnlink ==
  /\ apc = "unlink"
  /\ private_avl_remove(deleting)
  /\ apc' = "truncate"
  /\ UNCHANGED <<phase, next, file, conn, exit, pending, copy, deleting, unwritten, answer>>

(* the old records are left in the file *)
MutantDelTruncate ==
  /\ apc = "truncate" /\ unwritten' = Users /\ apc' = "rewrite"
  /\ UNCHANGED <<treeVars, phase, next, file, conn, exit, pending, copy, deleting, answer>>

DelTruncate ==
  /\ apc = "truncate"
  /\ file' = <<>>
  /\ unwritten' = Users
  /\ apc' = "rewrite"
  /\ UNCHANGED <<treeVars, phase, next, conn, exit, pending, copy, deleting, answer>>

RewriteRecord ==
  /\ apc = "rewrite"
  /\ \E u \in unwritten :
       /\ \A v \in unwritten : u <= v
       /\ file' = Append(file, heap[data[u]])
       /\ unwritten' = unwritten \ {u}
  /\ UNCHANGED <<treeVars, phase, next, conn, exit, apc, pending, copy, deleting, answer>>

(* the answer is written and the thread reads on before the file is complete *)
MutantDelAnswer ==
  /\ apc = "rewrite"
  /\ answer' = [msg |-> "deleted", user |-> deleting]
  /\ deleting' = NULL /\ exit' = "0" /\ apc' = "read" /\ unwritten' = {}
  /\ UNCHANGED <<treeVars, phase, next, file, conn, pending, copy>>

(* the thread does not return to reading *)
MutantDelAnswerStays ==
  /\ apc = "rewrite" /\ unwritten = {}
  /\ answer' = [msg |-> "deleted", user |-> deleting] /\ deleting' = NULL
  /\ UNCHANGED <<treeVars, phase, next, file, conn, exit, apc, pending, copy, unwritten>>

DelAnswer ==
  /\ apc = "rewrite" /\ unwritten = {}
  /\ answer' = [msg |-> "deleted", user |-> deleting]
  /\ deleting' = NULL /\ exit' = "0" /\ apc' = "read"
  /\ UNCHANGED <<treeVars, phase, next, file, conn, pending, copy, unwritten>>

-----------------------------------------------------------------------------

MainStep == Boot \/ LoadRecord \/ StartThreads

AdminCommand ==
  \/ cmd_list \/ cmd_quit \/ InvalidUsage \/ UnknownCommand
  \/ \E reg \in Registration : AddDuplicate(reg) \/ AddWrite(reg)
  \/ \E u \in Username : DelNotFound(u) \/ DelFound(u)

(* what the admin thread does next without waiting for the admin *)
AdminProgress == AddCopy \/ AddInsert \/ DelUnlink \/ DelTruncate \/ RewriteRecord \/ DelAnswer

AdminStep == MainStep \/ Accept \/ Disconnect \/ AdminCommand \/ AdminProgress

AdminNext == AdminStep \/ Crash

(* The threads run until the process ends; nobody promises to start it, to *)
(* connect or to type a command.                                           *)
AdminFairness == WF_vars(LoadRecord \/ StartThreads) /\ WF_vars(AdminProgress)

AdminSpec == AdminInit /\ [][AdminNext]_vars /\ AdminFairness

-----------------------------------------------------------------------------
(* Properties *)

(* What ADD registered of a user: a record without its port, which only *)
(* logins change and which reaches the file at the next rewrite.        *)
Account(client) == [client EXCEPT !.port = NoPort]

Known  == {Account(heap[data[u]]) : u \in Users}
Stored == {Account(file[i]) : i \in DOMAIN file}

(***************************************************************************)
(* The file has the accounts user_list has, no more and no less, except    *)
(* for what the step in progress explains: the record that AddWrite has    *)
(* written and AddInsert has not yet linked in, the records not yet loaded *)
(* by main, the records private_avl_rewrite has still to write.            *)
(***************************************************************************)
FileMatchesMemory ==
  CASE phase = "down"    -> TRUE
    [] phase = "loading" -> Known = {Account(file[i]) : i \in 1 .. next - 1}
    [] phase = "running" ->
         CASE apc \in {"read", "unlink"} -> Stored = Known
           [] apc = "insert"   -> Stored = Known \cup {Account(pending)}
           [] apc = "link"     -> Stored = Known \cup {Account(heap[copy])}
           [] apc = "truncate" -> Known \subseteq Stored /\ FileNames = Users \cup {deleting}
           [] apc = "rewrite"  ->
                Known = Stored \cup {Account(heap[data[u]]) : u \in unwritten}

(***************************************************************************)
(* No user name is on file twice, whatever ADDs, DELs, crashes and reloads *)
(* came before: a second record would be dropped silently by main's load.  *)
(***************************************************************************)
OneRecordPerUser ==
  \A i, j \in DOMAIN file : file[i].username = file[j].username => i = j

(***************************************************************************)
(* A file in username order, which is what a DEL leaves behind, is loaded  *)
(* into a tree where no node has a left child.  So after a restart every   *)
(* lookup walks a list, and the deletions that had no effect before it     *)
(* have one.                                                               *)
(***************************************************************************)
SortedFileLoadsAsList ==
  phase = "loading" /\ (\A i, j \in DOMAIN file : i < j => file[i].username < file[j].username)
    => \A u \in Username : left[u] = NULL

(***************************************************************************)
(* The tree, the file, the load and the crash implement UserDb: a user     *)
(* appears by ADD only, disappears by its own DEL or by a crash while a    *)
(* DEL was written out, and a DEL is without effect only between others.   *)
(***************************************************************************)
Db == INSTANCE UserDb WITH
  users   <- IF phase = "running" THEN Users ELSE FileNames,
  inDoubt <- IF apc \in {"truncate", "rewrite"} THEN Users \cup {deleting} ELSE {}

ImplementsUserDb == Db!Spec

(***************************************************************************)
(* "User %s deleted." (admin_commands.c) is written when the user is gone. *)
(***************************************************************************)
DeletedMeansGone == answer.msg = "deleted" => answer.user \notin Users

(***************************************************************************)
(* A load ends, with the threads running, unless the process ends first.   *)
(***************************************************************************)
LoadEnds == phase = "loading" ~> phase # "loading"

(***************************************************************************)
(* An ADD or DEL that has started to change the file or the tree ends and  *)
(* the admin thread reads again, unless the process ends first.            *)
(***************************************************************************)
CommandEnds == apc # "read" ~> apc = "read"

=============================================================================
