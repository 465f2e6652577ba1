-------------------------- MODULE AdminServerProofs --------------------------
(***************************************************************************)
(* AdminServer for every set of users, addresses and registrations: its    *)
(* type invariant, that the file and user_list agree, and that no user is  *)
(* on file twice.                                                          *)
(***************************************************************************)
EXTENDS AdminServer, TLAPS

-----------------------------------------------------------------------------
(* The inductive invariant.  The two safety invariants need each other: the *)
(* duplicate test of ADD looks at user_list, not at the file, and main's    *)
(* load drops a name it already has.  Control says where the thread can be  *)
(* and what the variables of a command hold there.                          *)

Control ==
  /\ phase # "running" => conn = "closed" /\ apc = "read"
  /\ phase = "down" => Users = {}
  /\ phase = "loading" => next <= Len(file) + 1
  /\ apc = "insert" => pending # NULL /\ data[pending.username] = NULL
  /\ apc = "link" =>
       copy # NULL /\ heap[copy] # NULL /\ data[heap[copy].username] = NULL
  /\ apc \in {"unlink", "truncate", "rewrite"} => deleting \in Username
  /\ apc = "unlink" => data[deleting] # NULL
  /\ apc = "rewrite" => unwritten \cap FileNames = {}
  /\ apc # "rewrite" => unwritten = {}

Inv == AdminTypeOK /\ Control /\ FileMatchesMemory /\ OneRecordPerUser

-----------------------------------------------------------------------------
(* What the operations do to the set of accounts in memory and on file *)

LEMMA AccountName ==
  ASSUME NEW c \in client_t
  PROVE  Account(c).username = c.username
  BY DEF Account, client_t

(* A record put in memory of its own: the tree does not see it. *)
LEMMA StoreKeeps ==
  ASSUME TreeTypeOK, NEW a \in Address, NEW c \in client_t, StoreRecord(a, c),
         UNCHANGED <<data, root, left, right>>
  PROVE  /\ TreeTypeOK' /\ heap'[a] = c /\ c # NULL
         /\ Users' = Users /\ Known' = Known
  <1>1. /\ heap' = [heap EXCEPT ![a] = c] /\ heap[a] = NULL /\ c # NULL
        /\ heap \in [Address -> client_t \cup {NULL}]
    BY NullAssumption DEF StoreRecord, TreeTypeOK
  <1>2. \A v \in Users : data[v] # a /\ heap'[data'[v]] = heap[data[v]]
    BY <1>1 DEF TreeTypeOK, Users
  <1>3. Users' = Users
    BY DEF Users
  <1>4. TreeTypeOK'
    BY <1>1, <1>2 DEF TreeTypeOK, Users
  <1>5. Known' = Known
    BY <1>2, <1>3 DEF Known
  <1> QED
    BY <1>1, <1>3, <1>4, <1>5

(* A node linked in the tree: the account it points to is known. *)
LEMMA LinkAdds ==
  ASSUME TreeTypeOK, NEW a \in Address, heap[a] # NULL,
         NEW u \in Username, u = heap[a].username, data[u] = NULL,
         LinkNode(a, u), UNCHANGED heap
  PROVE  /\ TreeTypeOK'
         /\ Users' = Users \cup {u}
         /\ Known' = Known \cup {Account(heap[a])}
  <1>1. /\ data' = [data EXCEPT ![u] = a] /\ a # NULL
        /\ data \in [Username -> Address \cup {NULL}]
    BY AddressAssumption DEF LinkNode, TreeTypeOK
  <1>2. /\ data'[u] = a
        /\ \A v \in Username \ {u} : data'[v] = data[v]
    BY <1>1
  <1>3. Users' = Users \cup {u} /\ u \notin Users
    BY <1>1, <1>2 DEF Users
  <1>4. root' \in Username \cup {NULL}
     /\ left' \in [Username -> Username \cup {NULL}]
     /\ right' \in [Username -> Username \cup {NULL}]
    BY DEF LinkNode, private_avl_add, TreeTypeOK, Users
  <1>5. TreeTypeOK'
    BY <1>1, <1>2, <1>4 DEF TreeTypeOK
  <1>6. Known' = Known \cup {Account(heap[a])}
    BY <1>2, <1>3 DEF Known, Users
  <1> QED
    BY <1>3, <1>5, <1>6

(* A record loaded from the file: both in one. *)
LEMMA InsertAdds ==
  ASSUME TreeTypeOK, NEW a \in Address, NEW c \in client_t,
         data[c.username] = NULL, InsertAt(a, c)
  PROVE  /\ TreeTypeOK'
         /\ Known' = Known \cup {Account(c)}
  <1> DEFINE u == c.username
  <1>1. u \in Username /\ c # NULL /\ a # NULL
    BY NullAssumption, AddressAssumption DEF client_t
  <1>2. /\ data' = [data EXCEPT ![u] = a] /\ heap' = [heap EXCEPT ![a] = c] /\ heap[a] = NULL
        /\ data \in [Username -> Address \cup {NULL}]
        /\ heap \in [Address -> client_t \cup {NULL}]
    BY DEF InsertAt, StoreRecord, LinkNode, TreeTypeOK
  <1>3. /\ data'[u] = a /\ heap'[a] = c
        /\ \A v \in Username \ {u} : data'[v] = data[v]
        /\ \A v \in Users : v # u /\ data[v] # a /\ heap'[data[v]] = heap[data[v]]
    BY <1>1, <1>2 DEF TreeTypeOK, Users
  <1>4. Users' = Users \cup {u}
    BY <1>1, <1>3 DEF Users
  <1>5. root' \in Username \cup {NULL}
     /\ left' \in [Username -> Username \cup {NULL}]
     /\ right' \in [Username -> Username \cup {NULL}]
    BY <1>1 DEF InsertAt, LinkNode, private_avl_add, TreeTypeOK, Users
  <1>6. TreeTypeOK'
    <2>1. data' \in [Username -> Address \cup {NULL}]
          /\ heap' \in [Address -> client_t \cup {NULL}]
      BY <1>1, <1>2
    <2>2. \A v \in Username : data'[v] # NULL => heap'[data'[v]] # NULL /\ heap'[data'[v]].username = v
      BY <1>1, <1>3 DEF TreeTypeOK, Users
    <2> QED
      BY <1>5, <2>1, <2>2 DEF TreeTypeOK
  <1>7. Known' = Known \cup {Account(c)}
    BY <1>3, <1>4 DEF Known, Users
  <1> QED
    BY <1>6, <1>7

(* A removal: nobody else disappears, and no account changes. *)
LEMMA RemoveKeeps ==
  ASSUME TreeTypeOK, NEW u \in Username, data[u] # NULL, private_avl_remove(u)
  PROVE  /\ TreeTypeOK'
         /\ Users' \subseteq Users /\ Users = Users' \cup {u}
         /\ Known' \subseteq Known
  <1>1. CASE HasTwoChildren(u)
    BY <1>1 DEF private_avl_remove, Unlink, TreeTypeOK, Users, Known
  <1>2. CASE ~HasTwoChildren(u)
    <2>1. /\ heap' = heap /\ data' = [data EXCEPT ![u] = NULL]
          /\ data \in [Username -> Address \cup {NULL}]
      BY <1>2 DEF private_avl_remove, Unlink, TreeTypeOK
    <2>2. Users' = Users \ {u} /\ u \in Users
      BY <2>1 DEF Users
    <2>3. \A v \in Users' : heap'[data'[v]] = heap[data[v]]
      BY <2>1, <2>2 DEF Users
    <2>4. Known' \subseteq Known
      BY <2>2, <2>3 DEF Known
    <2>5. \A n \in Username \cup {NULL} : Splice(n, u) \in Username \cup {NULL}
      BY DEF Splice, OnlyChild, TreeTypeOK
    <2>6. /\ root' = Splice(root, u)
          /\ left' = [n \in Username |-> IF n = u THEN NULL ELSE Splice(left[n], u)]
          /\ right' = [n \in Username |-> IF n = u THEN NULL ELSE Splice(right[n], u)]
      BY <1>2 DEF private_avl_remove, Unlink
    <2>7. TreeTypeOK'
      BY <2>1, <2>5, <2>6 DEF TreeTypeOK
    <2> QED
      BY <2>2, <2>4, <2>7
  <1> QED
    BY <1>1, <1>2

(* A record appended to the file: its account and its name are added. *)
LEMMA AppendAdds ==
  ASSUME file \in Seq(client_t), NEW c \in client_t, file' = Append(file, c)
  PROVE  /\ file' \in Seq(client_t)
         /\ Stored' = Stored \cup {Account(c)}
         /\ FileNames' = FileNames \cup {c.username}
         /\ OneRecordPerUser /\ c.username \notin FileNames => OneRecordPerUser'
  <1>1. /\ file' \in Seq(client_t) /\ Len(file') = Len(file) + 1 /\ Len(file) \in Nat
        /\ \A i \in 1 .. Len(file) : file'[i] = file[i]
        /\ file'[Len(file) + 1] = c
    OBVIOUS
  <1>2. DOMAIN file = 1 .. Len(file) /\ DOMAIN file' = DOMAIN file \cup {Len(file) + 1}
    BY <1>1
  <1>3. Stored' = Stored \cup {Account(c)} /\ FileNames' = FileNames \cup {c.username}
    BY <1>1, <1>2 DEF Stored, FileNames
  <1>4. ASSUME OneRecordPerUser, c.username \notin FileNames
        PROVE  OneRecordPerUser'
    BY <1>1, <1>2, <1>4 DEF OneRecordPerUser, FileNames
  <1> QED
    BY <1>1, <1>3, <1>4

(* If the file has the accounts of user_list, it has its names. *)
LEMMA SameNames ==
  ASSUME TreeTypeOK, file \in Seq(client_t), Stored = Known
  PROVE  FileNames = Users
  <1>1. \A u \in Users : heap[data[u]] \in client_t /\ heap[data[u]].username = u
    BY DEF TreeTypeOK, Users
  <1>2. \A i \in DOMAIN file : file[i] \in client_t
    OBVIOUS
  <1>3. FileNames \subseteq Users
    <2> SUFFICES ASSUME NEW i \in DOMAIN file PROVE file[i].username \in Users
      BY DEF FileNames
    <2>1. PICK u \in Users : Account(file[i]) = Account(heap[data[u]])
      BY DEF Stored, Known
    <2> QED
      BY <1>1, <1>2, <2>1, AccountName
  <1>4. Users \subseteq FileNames
    <2> SUFFICES ASSUME NEW u \in Users PROVE u \in FileNames
      OBVIOUS
    <2>1. PICK i \in DOMAIN file : Account(file[i]) = Account(heap[data[u]])
      BY DEF Stored, Known
    <2> QED
      BY <1>1, <1>2, <2>1, AccountName DEF FileNames
  <1> QED
    BY <1>3, <1>4

-----------------------------------------------------------------------------
(* The inductive step, for the actions by what they touch *)

(* The actions that leave the tree, the file and the control state of a      *)
(* command alone.                                                            *)
LEMMA QuietKeepsInv ==
  ASSUME Inv,
         UNCHANGED <<treeVars, file, apc, pending, copy, deleting, unwritten>>,
         UNCHANGED <<phase, next>>,
         phase = "running" \/ UNCHANGED conn,
         conn' \in {"closed", "open"}, exit' \in {"unset", "0"},
         answer' \in [msg : AnswerText, user : Username \cup {NULL}]
  PROVE  Inv'
  <1>1. Users' = Users /\ Known' = Known /\ Stored' = Stored /\ FileNames' = FileNames
    BY DEF Users, Known, Stored, FileNames, treeVars
  <1>2. AdminTypeOK'
    BY <1>1 DEF Inv, AdminTypeOK, TreeTypeOK, treeVars
  <1>3. Control'
    BY <1>1 DEF Inv, Control, treeVars
  <1>4. FileMatchesMemory'
    <2>1. /\ {Account(file[i]) : i \in 1 .. next - 1}' = {Account(file[i]) : i \in 1 .. next - 1}
          /\ {Account(heap[data[u]]) : u \in unwritten}' = {Account(heap[data[u]]) : u \in unwritten}
          /\ Account(pending)' = Account(pending)
          /\ Account(heap[copy])' = Account(heap[copy])
      BY DEF treeVars, Account
    <2> QED
      BY <1>1, <2>1 DEF Inv, FileMatchesMemory
  <1>5. OneRecordPerUser'
    BY DEF Inv, OneRecordPerUser
  <1> QED
    BY <1>2, <1>3, <1>4, <1>5 DEF Inv

LEMMA AnswerKeepsInv ==
  ASSUME Inv, Reading, NEW m \in AnswerText, NEW u \in Username \cup {NULL}, Answer(m, u)
  PROVE  Inv'
  <1>1. answer' \in [msg : AnswerText, user : Username \cup {NULL}]
    BY DEF Answer
  <1> QED
    BY <1>1, QuietKeepsInv DEF Answer, Reading, Inv, AdminTypeOK

LEMMA ConnectionKeepsInv ==
  ASSUME Inv, Accept \/ Disconnect \/ cmd_quit \/ UnknownCommand
  PROVE  Inv'
  <1>1. phase = "running" \/ UNCHANGED conn
    BY DEF Inv, Control, Accept, Disconnect, cmd_quit, UnknownCommand, Reading
  <1>2. /\ conn' \in {"closed", "open"} /\ exit' \in {"unset", "0"}
        /\ answer' \in [msg : AnswerText, user : Username \cup {NULL}]
    <2>1. CASE Accept
      BY <2>1 DEF Accept, NoAnswer, AnswerText
    <2>2. CASE Disconnect \/ cmd_quit
      BY <2>2 DEF Inv, AdminTypeOK, Disconnect, cmd_quit
    <2>3. CASE UnknownCommand
      BY <2>3 DEF Inv, AdminTypeOK, UnknownCommand, AnswerText
    <2> QED
      BY <2>1, <2>2, <2>3
  <1> QED
    BY <1>1, <1>2, QuietKeepsInv DEF Accept, Disconnect, cmd_quit, UnknownCommand

LEMMA MainKeepsInv ==
  ASSUME Inv, MainStep
  PROVE  Inv'
  <1> USE DEF Inv
  <1>1. CASE Boot
    <2>1. /\ Users' = Users /\ FileNames' = FileNames /\ Known' = Known
          /\ Users = {} /\ file \in Seq(client_t)
      BY <1>1 DEF Boot, Users, Known, FileNames, treeVars, Control, AdminTypeOK
    <2>2. AdminTypeOK'
      BY <1>1, <2>1 DEF Boot, AdminTypeOK, TreeTypeOK, treeVars
    <2>3. Control'
      <3>1. Len(file) \in Nat
        BY <2>1
      <3> QED
        BY <1>1, <2>1, <3>1 DEF Boot, Control, treeVars
    <2>4. FileMatchesMemory'
      BY <1>1, <2>1 DEF Boot, FileMatchesMemory, Known, treeVars
    <2> QED
      BY <1>1, <2>2, <2>3, <2>4 DEF Boot, OneRecordPerUser
  <1>2. CASE LoadRecord
    <2>1. /\ phase = "loading" /\ apc = "read" /\ next \in 1 .. Len(file)
          /\ file \in Seq(client_t) /\ TreeTypeOK /\ unwritten = {}
          /\ Known = {Account(file[i]) : i \in 1 .. next - 1}
      BY <1>2 DEF LoadRecord, AdminTypeOK, Control, FileMatchesMemory
    <2>2. file[next] \in client_t /\ DOMAIN file = 1 .. Len(file) /\ Len(file) \in Nat
      BY <2>1
    <2>3. avl_get(file[next].username) = NULL
      <3> SUFFICES ASSUME file[next].username \in Users PROVE FALSE
        BY <2>2 DEF avl_get, Users, client_t
      <3> DEFINE u == file[next].username
      <3>1. PICK i \in 1 .. next - 1 : Account(file[i]) = Account(heap[data[u]])
        BY <2>1 DEF Known
      <3>2. heap[data[u]] \in client_t /\ heap[data[u]].username = u
        BY <2>1 DEF TreeTypeOK, Users
      <3>3. file[i] \in client_t /\ i \in DOMAIN file /\ next \in DOMAIN file /\ i # next
        BY <2>1, <2>2
      <3>4. file[i].username = u
        BY <3>1, <3>2, <3>3, AccountName
      <3> QED
        BY <3>3, <3>4 DEF OneRecordPerUser
    <2>4. PICK a \in Address : InsertAt(a, file[next])
      BY <1>2, <2>3 DEF LoadRecord
    <2>5. /\ TreeTypeOK' /\ Known' = Known \cup {Account(file[next])}
      BY <2>1, <2>2, <2>3, <2>4, InsertAdds DEF avl_get
    <2>6. /\ next' = next + 1
          /\ UNCHANGED <<phase, file, conn, exit, apc, pending, copy, deleting, unwritten, answer>>
      BY <1>2 DEF LoadRecord
    <2>7. AdminTypeOK'
      BY <2>1, <2>5, <2>6 DEF AdminTypeOK
    <2>8. Control'
      BY <2>1, <2>2, <2>6 DEF Control
    <2>9. FileMatchesMemory'
      <3>1. 1 .. next' - 1 = (1 .. next - 1) \cup {next}
        BY <2>1, <2>6
      <3>2. Known' = {Account(file'[i]) : i \in 1 .. next' - 1}
        BY <2>1, <2>5, <2>6, <3>1
      <3> QED
        BY <2>1, <2>6, <3>2 DEF FileMatchesMemory
    <2> QED
      BY <2>6, <2>7, <2>8, <2>9 DEF OneRecordPerUser
  <1>3. CASE StartThreads
    <2>1. /\ Users' = Users /\ FileNames' = FileNames /\ Known' = Known /\ Stored' = Stored
          /\ phase = "loading" /\ apc = "read" /\ unwritten = {}
      BY <1>3 DEF StartThreads, Users, Known, FileNames, Stored, treeVars, Control
    <2>2. AdminTypeOK'
      BY <1>3, <2>1 DEF StartThreads, AdminTypeOK, TreeTypeOK, treeVars
    <2>3. Control'
      BY <1>3, <2>1 DEF StartThreads, Control, treeVars
    <2>4. next - 1 = Len(file) /\ DOMAIN file = 1 .. Len(file)
      BY <1>3 DEF StartThreads, Control, AdminTypeOK
    <2>5. Known = Stored
      BY <2>1, <2>4 DEF FileMatchesMemory, Stored
    <2>6. FileMatchesMemory'
      BY <1>3, <2>1, <2>5 DEF StartThreads, FileMatchesMemory
    <2> QED
      BY <1>3, <2>2, <2>3, <2>6 DEF StartThreads, OneRecordPerUser
  <1> QED
    BY <1>1, <1>2, <1>3 DEF MainStep

LEMMA CrashKeepsInv ==
  ASSUME Inv, Crash
  PROVE  Inv'
  <1>1. /\ data' = [u \in Username |-> NULL] /\ Users' = {} /\ file' = file
    BY DEF Crash, FreshTree, Users
  <1>2. TreeTypeOK'
    BY <1>1 DEF Crash, FreshTree, TreeTypeOK
  <1>3. AdminTypeOK'
    <2>1. file' \in Seq(client_t) /\ next' \in Nat \ {0}
      BY <1>1 DEF Inv, AdminTypeOK, Crash
    <2>2. answer' \in [msg : AnswerText, user : Username \cup {NULL}]
      BY DEF Crash, NoAnswer, AnswerText
    <2> QED
      BY <1>2, <2>1, <2>2 DEF AdminTypeOK, Crash
  <1>4. Control'
    BY <1>1 DEF Crash, Control
  <1> QED
    BY <1>1, <1>3, <1>4 DEF Inv, Crash, FileMatchesMemory, OneRecordPerUser

LEMMA AddKeepsInv ==
  ASSUME Inv, (\E reg \in Registration : AddWrite(reg)) \/ AddCopy \/ AddInsert
  PROVE  Inv'
  <1> USE DEF Inv
  <1>1. ASSUME NEW reg \in Registration, AddWrite(reg) PROVE Inv'
    <2>1. /\ phase = "running" /\ apc = "read" /\ conn = "open" /\ unwritten = {}
          /\ file \in Seq(client_t) /\ TreeTypeOK /\ Stored = Known
      BY <1>1 DEF AddWrite, Reading, AdminTypeOK, Control, FileMatchesMemory
    <2>2. /\ pending' \in client_t /\ pending'.username = reg.username
          /\ file' = Append(file, pending')
      BY <1>1, RegistrationAssumption, FreshPortAssumption DEF AddWrite, Client, client_t
    <2>3. reg.username \notin FileNames
      BY <1>1, <2>1, SameNames DEF AddWrite, avl_get, Users
    <2>4. /\ file' \in Seq(client_t) /\ OneRecordPerUser'
          /\ Stored' = Stored \cup {Account(pending')}
      BY <2>1, <2>2, <2>3, AppendAdds
    <2>5. /\ apc' = "insert" /\ Users' = Users /\ Known' = Known /\ data[reg.username] = NULL
          /\ UNCHANGED <<treeVars, phase, next, conn, exit, copy, deleting, unwritten, answer>>
      BY <1>1 DEF AddWrite, avl_get, Users, Known, treeVars
    <2>6. AdminTypeOK'
      BY <2>2, <2>4, <2>5 DEF AdminTypeOK, TreeTypeOK, treeVars
    <2>7. Control'
      BY <2>1, <2>2, <2>5, NullAssumption DEF Control, treeVars
    <2>8. Account(pending)' = Account(pending')
      BY DEF Account
    <2>9. FileMatchesMemory'
      BY <2>1, <2>4, <2>5, <2>8 DEF FileMatchesMemory
    <2> QED
      BY <2>4, <2>6, <2>7, <2>9
  <1>2. CASE AddCopy
    <2>1. /\ phase = "running" /\ apc = "insert" /\ unwritten = {} /\ TreeTypeOK
          /\ pending \in client_t /\ data[pending.username] = NULL
          /\ Stored = Known \cup {Account(pending)}
      BY <1>2 DEF AddCopy, AdminTypeOK, Control, FileMatchesMemory
    <2>2. PICK a \in Address : StoreRecord(a, pending) /\ copy' = a
      BY <1>2 DEF AddCopy
    <2>3. /\ pending' = NULL /\ apc' = "link"
          /\ UNCHANGED <<data, root, left, right, phase, next, file, conn, exit, deleting, unwritten,
                         answer>>
      BY <1>2 DEF AddCopy
    <2>4. /\ TreeTypeOK' /\ heap'[a] = pending /\ pending # NULL
          /\ Users' = Users /\ Known' = Known
      BY <2>1, <2>2, <2>3, StoreKeeps
    <2>5. AdminTypeOK'
      BY <2>2, <2>3, <2>4 DEF AdminTypeOK
    <2>6. Control'
      BY <2>1, <2>2, <2>3, <2>4, AddressAssumption DEF Control
    <2>7. Stored' = Stored /\ Account(heap[copy])' = Account(pending)
      BY <2>2, <2>3, <2>4 DEF Stored, Account
    <2>8. FileMatchesMemory'
      BY <2>1, <2>3, <2>4, <2>7 DEF FileMatchesMemory
    <2> QED
      BY <2>3, <2>5, <2>6, <2>8 DEF OneRecordPerUser
  <1>3. CASE AddInsert
    <2>1. /\ phase = "running" /\ apc = "link" /\ unwritten = {} /\ TreeTypeOK
          /\ copy \in Address /\ heap[copy] # NULL /\ data[heap[copy].username] = NULL
          /\ Stored = Known \cup {Account(heap[copy])}
      BY <1>3 DEF AddInsert, AdminTypeOK, Control, FileMatchesMemory
    <2>2. PICK u : u = heap[copy].username
      OBVIOUS
    <2>3. u \in Username
      BY <2>1, <2>2 DEF TreeTypeOK, client_t
    <2>4. /\ LinkNode(copy, u) /\ copy' = NULL /\ exit' = "0" /\ apc' = "read"
          /\ answer' = [msg |-> "created", user |-> u]
          /\ UNCHANGED <<heap, phase, next, file, conn, pending, deleting, unwritten>>
      BY <1>3, <2>2 DEF AddInsert
    <2>5. /\ TreeTypeOK' /\ Users' = Users \cup {u}
          /\ Known' = Known \cup {Account(heap[copy])}
      BY <2>1, <2>2, <2>3, <2>4, LinkAdds
    <2>6. answer' \in [msg : AnswerText, user : Username \cup {NULL}]
      BY <2>3, <2>4 DEF AnswerText
    <2>7. AdminTypeOK'
      BY <2>1, <2>4, <2>5, <2>6 DEF AdminTypeOK
    <2>8. Control'
      BY <2>1, <2>4 DEF Control
    <2>9. Stored' = Known'
      BY <2>1, <2>4, <2>5 DEF Stored
    <2>10. FileMatchesMemory'
      BY <2>1, <2>4, <2>9 DEF FileMatchesMemory
    <2> QED
      BY <2>4, <2>7, <2>8, <2>10 DEF OneRecordPerUser
  <1> QED
    BY <1>1, <1>2, <1>3

LEMMA DelKeepsInv ==
  ASSUME Inv, (\E u \in Username : DelFound(u)) \/ DelUnlink \/ DelTruncate
  PROVE  Inv'
  <1> USE DEF Inv
  <1>1. ASSUME NEW u \in Username, DelFound(u) PROVE Inv'
    <2>1. /\ phase = "running" /\ apc = "read" /\ conn = "open" /\ unwritten = {}
          /\ Stored = Known
      BY <1>1 DEF DelFound, Reading, Control, FileMatchesMemory
    <2>2. /\ apc' = "unlink" /\ deleting' = u /\ data[u] # NULL
          /\ UNCHANGED <<treeVars, phase, next, file, conn, exit, pending, copy, unwritten, answer>>
          /\ Users' = Users /\ Known' = Known /\ Stored' = Stored
      BY <1>1 DEF DelFound, avl_get, Users, Known, Stored, treeVars
    <2>3. AdminTypeOK'
      BY <2>2 DEF AdminTypeOK, TreeTypeOK, treeVars
    <2>4. Control'
      BY <2>1, <2>2 DEF Control, treeVars
    <2>5. FileMatchesMemory'
      BY <2>1, <2>2 DEF FileMatchesMemory
    <2> QED
      BY <2>2, <2>3, <2>4, <2>5 DEF OneRecordPerUser
  <1>2. CASE DelUnlink
    <2>1. /\ phase = "running" /\ apc = "unlink" /\ unwritten = {} /\ Stored = Known
          /\ TreeTypeOK /\ file \in Seq(client_t)
          /\ deleting \in Username /\ data[deleting] # NULL
      BY <1>2 DEF DelUnlink, AdminTypeOK, Control, FileMatchesMemory
    <2>2. /\ private_avl_remove(deleting) /\ apc' = "truncate"
          /\ UNCHANGED <<phase, next, file, conn, exit, pending, copy, deleting, unwritten,
                         answer>>
      BY <1>2 DEF DelUnlink
    <2>3. TreeTypeOK' /\ Users = Users' \cup {deleting} /\ Known' \subseteq Known
      BY <2>1, <2>2, RemoveKeeps
    <2>4. Stored' = Stored /\ FileNames' = FileNames /\ FileNames = Users
      BY <2>1, <2>2, SameNames DEF Stored, FileNames
    <2>5. AdminTypeOK'
      BY <2>1, <2>2, <2>3 DEF AdminTypeOK
    <2>6. Control'
      BY <2>1, <2>2 DEF Control
    <2>7. FileMatchesMemory'
      BY <2>1, <2>2, <2>3, <2>4 DEF FileMatchesMemory
    <2> QED
      BY <2>2, <2>5, <2>6, <2>7 DEF OneRecordPerUser
  <1>3. CASE DelTruncate
    <2>1. /\ phase = "running" /\ apc = "truncate" /\ deleting \in Username
          /\ file' = <<>> /\ unwritten' = Users /\ apc' = "rewrite"
          /\ UNCHANGED <<treeVars, phase, next, conn, exit, pending, copy, deleting, answer>>
      BY <1>3 DEF DelTruncate, Control
    <2>2. /\ Stored' = {} /\ FileNames' = {} /\ Users' = Users /\ Known' = Known
      BY <2>1 DEF Stored, FileNames, Users, Known, treeVars
    <2>3. AdminTypeOK'
      BY <2>1, <2>2 DEF AdminTypeOK, TreeTypeOK, treeVars
    <2>4. Control'
      BY <2>1, <2>2 DEF Control
    <2>5. Known' = {Account(heap[data[u]]) : u \in unwritten}'
      BY <2>1, <2>2 DEF Known, treeVars
    <2>6. FileMatchesMemory'
      BY <2>1, <2>2, <2>5 DEF FileMatchesMemory
    <2>7. OneRecordPerUser'
      BY <2>1 DEF OneRecordPerUser
    <2> QED
      BY <2>3, <2>4, <2>6, <2>7
  <1> QED
    BY <1>1, <1>2, <1>3

(* FileMatchesMemory after a step of a rewrite *)
LEMMA RewriteMatches ==
  ASSUME phase' = "running", apc' = "rewrite",
         Known' = Stored' \cup {Account(heap[data[u]]) : u \in unwritten}'
  PROVE  FileMatchesMemory'
  BY DEF FileMatchesMemory

LEMMA RewriteKeepsInv ==
  ASSUME Inv, RewriteRecord \/ DelAnswer
  PROVE  Inv'
  <1> USE DEF Inv
  <1>1. /\ phase = "running" /\ apc = "rewrite" /\ deleting \in Username /\ TreeTypeOK
        /\ file \in Seq(client_t) /\ unwritten \subseteq Users /\ unwritten \cap FileNames = {}
        /\ Known = Stored \cup {Account(heap[data[u]]) : u \in unwritten}
    BY DEF RewriteRecord, DelAnswer, AdminTypeOK, Control, FileMatchesMemory
  <1>2. CASE RewriteRecord
    <2>1. PICK u \in unwritten : file' = Append(file, heap[data[u]]) /\ unwritten' = unwritten \ {u}
      BY <1>2 DEF RewriteRecord
    <2>2. heap[data[u]] \in client_t /\ heap[data[u]].username = u
      BY <1>1 DEF TreeTypeOK, Users
    <2>3. /\ file' \in Seq(client_t) /\ OneRecordPerUser'
          /\ Stored' = Stored \cup {Account(heap[data[u]])}
          /\ FileNames' = FileNames \cup {u}
      BY <1>1, <2>1, <2>2, AppendAdds
    <2>4. /\ UNCHANGED <<treeVars, phase, next, conn, exit, apc, pending, copy, deleting, answer>>
          /\ Users' = Users /\ Known' = Known
      BY <1>2 DEF RewriteRecord, Users, Known, treeVars
    <2>5. AdminTypeOK'
      BY <1>1, <2>1, <2>3, <2>4 DEF AdminTypeOK, TreeTypeOK, treeVars
    <2>6. Control'
      BY <1>1, <2>1, <2>3, <2>4 DEF Control
    <2>7. {Account(heap[data[v]]) : v \in unwritten}'
             = {Account(heap[data[v]]) : v \in unwritten \ {u}}
      BY <2>1, <2>4 DEF treeVars, Account
    <2>8. Known' = Stored' \cup {Account(heap[data[v]]) : v \in unwritten}'
      <3>1. Known = Stored \cup {Account(heap[data[v]]) : v \in unwritten \ {u}}
                           \cup {Account(heap[data[u]])}
        BY <1>1, <2>1
      <3> QED
        BY <3>1, <2>3, <2>4, <2>7
    <2>9. FileMatchesMemory'
      <3>1. phase' = "running" /\ apc' = "rewrite"
        BY <1>1, <2>4
      <3> QED
        BY <3>1, <2>8, RewriteMatches
    <2> QED
      BY <2>3, <2>5, <2>6, <2>9
  <1>3. CASE DelAnswer
    <2>1. /\ unwritten = {} /\ deleting' = NULL /\ exit' = "0" /\ apc' = "read"
          /\ answer' = [msg |-> "deleted", user |-> deleting]
          /\ UNCHANGED <<treeVars, phase, next, file, conn, pending, copy, unwritten>>
          /\ Users' = Users /\ Known' = Known /\ Stored' = Stored
      BY <1>3 DEF DelAnswer, Users, Known, Stored, treeVars
    <2>2. answer' \in [msg : AnswerText, user : Username \cup {NULL}]
      BY <1>1, <2>1 DEF AnswerText
    <2>3. AdminTypeOK'
      BY <1>1, <2>1, <2>2 DEF AdminTypeOK, TreeTypeOK, treeVars
    <2>4. Control'
      BY <1>1, <2>1 DEF Control
    <2>5. FileMatchesMemory'
      BY <1>1, <2>1 DEF FileMatchesMemory
    <2> QED
      BY <2>1, <2>3, <2>4, <2>5 DEF OneRecordPerUser
  <1> QED
    BY <1>2, <1>3

LEMMA InvInductive ==
  /\ AdminInit => Inv
  /\ Inv /\ [AdminNext]_vars => Inv'
  <1>1. ASSUME AdminInit PROVE Inv
    <2>1. Users = {} /\ file = <<>> /\ phase = "down" /\ apc = "read" /\ unwritten = {}
      BY <1>1 DEF AdminInit, EmptyTree, Users
    <2>2. TreeTypeOK
      BY <1>1 DEF AdminInit, EmptyTree, TreeTypeOK
    <2>3. file \in Seq(client_t) /\ answer \in [msg : AnswerText, user : Username \cup {NULL}]
      BY <1>1 DEF AdminInit, NoAnswer, AnswerText
    <2>4. AdminTypeOK
      BY <1>1, <2>1, <2>2, <2>3 DEF AdminInit, AdminTypeOK
    <2>5. Control
      BY <1>1, <2>1 DEF AdminInit, Control
    <2> QED
      BY <2>1, <2>4, <2>5 DEF Inv, FileMatchesMemory, OneRecordPerUser
  <1>2. ASSUME Inv, AdminCommand PROVE Inv'
    <2>1. CASE cmd_list \/ InvalidUsage
      BY <1>2, <2>1, AnswerKeepsInv DEF cmd_list, InvalidUsage, AnswerText
    <2>2. CASE cmd_quit \/ UnknownCommand
      BY <1>2, <2>2, ConnectionKeepsInv
    <2>3. CASE \E reg \in Registration : AddDuplicate(reg)
      BY <1>2, <2>3, AnswerKeepsInv DEF AddDuplicate, AnswerText
    <2>4. CASE \E reg \in Registration : AddWrite(reg)
      BY <1>2, <2>4, AddKeepsInv
    <2>5. CASE \E u \in Username : DelNotFound(u)
      BY <1>2, <2>5, AnswerKeepsInv DEF DelNotFound, AnswerText
    <2>6. CASE \E u \in Username : DelFound(u)
      BY <1>2, <2>6, DelKeepsInv
    <2> QED
      BY <1>2, <2>1, <2>2, <2>3, <2>4, <2>5, <2>6 DEF AdminCommand
  <1>3. ASSUME Inv, AdminProgress PROVE Inv'
    BY <1>3, AddKeepsInv, DelKeepsInv, RewriteKeepsInv DEF AdminProgress
  <1>4. ASSUME Inv, AdminNext PROVE Inv'
    BY <1>2, <1>3, <1>4, MainKeepsInv, ConnectionKeepsInv, CrashKeepsInv DEF AdminNext, AdminStep
  <1>5. ASSUME Inv, UNCHANGED vars PROVE Inv'
    <2>1. conn' \in {"closed", "open"} /\ exit' \in {"unset", "0"}
          /\ answer' \in [msg : AnswerText, user : Username \cup {NULL}]
      BY <1>5 DEF Inv, AdminTypeOK, vars, adminVars
    <2> QED
      BY <1>5, <2>1, QuietKeepsInv DEF vars, adminVars
  <1> QED
    BY <1>1, <1>4, <1>5

-----------------------------------------------------------------------------
(* The theorems *)

(***************************************************************************)
(* The state of the process and of the file stays in its type: every node  *)
(* points to an allocated record that carries the node's name.             *)
(***************************************************************************)
THEOREM TypeCorrect == AdminSpec => []AdminTypeOK
  <1>1. Inv => AdminTypeOK
    BY DEF Inv
  <1> QED
    BY <1>1, InvInductive, PTL DEF AdminSpec

(***************************************************************************)
(* The file and user_list have the same accounts, but for what the step in *)
(* progress explains, over any number of ADDs, DELs, crashes and loads.    *)
(***************************************************************************)
THEOREM FileAndMemoryAgree == AdminSpec => []FileMatchesMemory
  <1>1. Inv => FileMatchesMemory
    BY DEF Inv
  <1> QED
    BY <1>1, InvInductive, PTL DEF AdminSpec

(***************************************************************************)
(* No user name is ever on file twice, so that a load drops no record.     *)
(***************************************************************************)
THEOREM NoDuplicateRecords == AdminSpec => []OneRecordPerUser
  <1>1. Inv => OneRecordPerUser
    BY DEF Inv
  <1> QED
    BY <1>1, InvInductive, PTL DEF AdminSpec

=============================================================================
