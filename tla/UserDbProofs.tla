----------------------------- MODULE UserDbProofs -----------------------------
(***************************************************************************)
(* The tree of AdminServer alone, and of the whole Server: it stays        *)
(* ordered, so lookups find exactly the users in it; and both implement    *)
(* UserDb: whatever the tree, the file, the loads, the crashes and the     *)
(* logins do, a user appears by an ADD only, disappears by its own DEL or  *)
(* a crash during a DEL, and a DEL without effect is one of a user between *)
(* two others.                                                             *)
(***************************************************************************)
EXTENDS ServerProofs, UserListProofs

-----------------------------------------------------------------------------
(* The tree stays ordered (UserListProofs). *)

(* The record of the ADD in progress: cmd_add's, then the copy of it *)
Adder == IF apc = "insert" THEN pending ELSE heap[copy]

LEMMA AdderInHand ==
  ASSUME Inv, apc \in {"insert", "link"}
  PROVE  /\ Adder \in client_t /\ Adder.username \in Username
         /\ Adder.username \notin Users
         /\ apc = "link" => copy \in Address
  <1>1. /\ TreeTypeOK /\ pending \in client_t \cup {NULL} /\ copy \in Address \cup {NULL}
        /\ apc = "insert" => pending # NULL /\ data[pending.username] = NULL
        /\ apc = "link" => copy # NULL /\ heap[copy] # NULL /\ data[heap[copy].username] = NULL
    BY DEF Inv, AdminTypeOK, Control
  <1>2. Adder \in client_t
    BY <1>1 DEF Adder, TreeTypeOK
  <1> QED
    BY <1>1, <1>2 DEF Adder, client_t, Users

(* The admin thread, main and the crash *)
LEMMA StepKeepsOrder ==
  ASSUME Inv, Ordered, AdminNext
  PROVE  Ordered'
  <1>1. TreeTypeOK
    BY DEF Inv, AdminTypeOK
  <1>2. CASE LoadRecord
    <2>1. CASE UNCHANGED treeVars
      BY <2>1 DEF Ordered, Orders, Under, Users, treeVars
    <2>2. CASE \E a \in Address : InsertAt(a, file[next])
      <3>1. (file[next] \in client_t /\ data[file[next].username] = NULL) \/ UNCHANGED treeVars
        BY <1>2 DEF LoadRecord, Inv, AdminTypeOK, avl_get
      <3>2. file[next] \in client_t => file[next].username \in Username
        BY DEF client_t
      <3> QED
        BY <1>1, <2>1, <2>2, <3>1, <3>2, InsertKeepsOrder DEF InsertAt
    <2> QED
      BY <1>2, <2>1, <2>2 DEF LoadRecord
  <1>3. CASE AddInsert
    <2>1. /\ copy \in Address /\ heap[copy].username \in Username
          /\ data[heap[copy].username] = NULL
      BY <1>3, AdderInHand DEF AddInsert, Inv, AdminTypeOK, Control, Adder
    <2> QED
      BY <1>1, <1>3, <2>1, InsertKeepsOrder DEF AddInsert
  <1>4. CASE DelUnlink
    <2>1. deleting \in Username /\ data[deleting] # NULL
      BY <1>4 DEF DelUnlink, Inv, Control
    <2> QED
      BY <1>1, <1>4, <2>1, RemoveKeepsOrder DEF DelUnlink
  <1>5. CASE Crash
    <2>1. /\ Users' = {} /\ root' = NULL
          /\ left' = [u \in Username |-> NULL] /\ right' = [u \in Username |-> NULL]
      BY <1>5 DEF Crash, FreshTree, Users
    <2>2. Orders({})'
      BY <2>1 DEF Orders, Under
    <2> QED
      BY <2>1, <2>2, FS_EmptySet DEF Ordered
  <1>6. CASE UNCHANGED <<data, root, left, right>>
    BY <1>6 DEF Ordered, Orders, Under, Users
  <1>7. CASE Boot \/ StartThreads \/ Accept \/ Disconnect \/ AdminCommand
             \/ DelTruncate \/ RewriteRecord \/ DelAnswer \/ AddCopy
    BY <1>6, <1>7 DEF AddCopy, Boot, StartThreads, Accept, Disconnect, AdminCommand, cmd_list, cmd_quit,
                      InvalidUsage, UnknownCommand, AddDuplicate, AddWrite, DelNotFound,
                      DelFound, Answer, DelTruncate, RewriteRecord, DelAnswer, treeVars
  <1> QED
    BY <1>2, <1>3, <1>4, <1>5, <1>7 DEF AdminNext, AdminStep, MainStep, AdminProgress

-----------------------------------------------------------------------------
(* The steps of UserDb that the steps of the server are *)

dbUsers   == IF phase = "running" THEN Users ELSE FileNames
dbInDoubt == IF apc \in {"truncate", "rewrite"} THEN Users \cup {deleting} ELSE {}

DbStutters == UNCHANGED <<dbUsers, dbInDoubt>>

(* The users on file, wherever the admin thread is *)
LEMMA NamesOnFile ==
  ASSUME Inv, phase = "running"
  PROVE  /\ apc \in {"read", "unlink"} => FileNames = Users
         /\ apc \in {"insert", "link"} => FileNames = Users \cup {Adder.username}
         /\ apc \in {"truncate", "rewrite"} => FileNames \subseteq Users \cup {deleting}
  <1>1. TreeTypeOK /\ file \in Seq(client_t) /\ FileMatchesMemory
    BY DEF Inv, AdminTypeOK
  <1>2. CASE apc \in {"read", "unlink"}
    BY <1>1, <1>2, SameNames DEF FileMatchesMemory
  <1>3. \A u \in Users : heap[data[u]] \in client_t /\ heap[data[u]].username = u
    BY <1>1 DEF TreeTypeOK, Users
  <1>4. \A i \in DOMAIN file : file[i] \in client_t
    BY <1>1
  <1>5. CASE apc \in {"insert", "link"}
    <2>1. Stored = Known \cup {Account(Adder)} /\ Adder \in client_t
      BY <1>1, <1>5, AdderInHand DEF FileMatchesMemory, Adder
    <2>2. ASSUME NEW i \in DOMAIN file PROVE file[i].username \in Users \cup {Adder.username}
      <3>1. CASE Account(file[i]) = Account(Adder)
        BY <1>4, <2>1, <3>1, AccountName
      <3>2. CASE \E u \in Users : Account(file[i]) = Account(heap[data[u]])
        BY <1>3, <1>4, <3>2, AccountName
      <3> QED
        BY <2>1, <3>1, <3>2 DEF Stored, Known
    <2>3. ASSUME NEW u \in Users PROVE u \in FileNames
      <3>1. PICK i \in DOMAIN file : Account(file[i]) = Account(heap[data[u]])
        BY <2>1 DEF Stored, Known
      <3> QED
        BY <1>3, <1>4, <3>1, AccountName DEF FileNames
    <2>4. Adder.username \in FileNames
      <3>1. PICK i \in DOMAIN file : Account(file[i]) = Account(Adder)
        BY <2>1 DEF Stored
      <3> QED
        BY <1>4, <2>1, <3>1, AccountName DEF FileNames
    <2> QED
      BY <1>5, <2>2, <2>3, <2>4 DEF FileNames
  <1>6. CASE apc = "truncate"
    BY <1>1, <1>6 DEF FileMatchesMemory
  <1>7. CASE apc = "rewrite"
    <2>1. Stored \subseteq Known
      BY <1>1, <1>7 DEF FileMatchesMemory
    <2>2. ASSUME NEW i \in DOMAIN file PROVE file[i].username \in Users
      <3>1. PICK u \in Users : Account(file[i]) = Account(heap[data[u]])
        BY <2>1 DEF Stored, Known
      <3> QED
        BY <1>3, <1>4, <3>1, AccountName
    <2> QED
      BY <1>7, <2>2 DEF FileNames
  <1> QED
    BY <1>2, <1>5, <1>6, <1>7

(* A user with two children has users on both sides. *)
LEMMA TwoChildren ==
  ASSUME Ordered, NEW u \in Username, HasTwoChildren(u)
  PROVE  \E v, w \in Users : v < u /\ u < w
  <1>1. PICK below \in SUBSET (Username \X Username) : Orders(below)
    BY DEF Ordered
  <1>2. left[u] \in Users /\ right[u] \in Users /\ u \in Users
    BY <1>1 DEF Orders, HasTwoChildren
  <1>3. left[u] < u /\ u < right[u]
    BY <1>1, <1>2 DEF Orders, Under, HasTwoChildren
  <1> QED
    BY <1>2, <1>3

LEMMA DeleteStep ==
  ASSUME Inv, Ordered, DelUnlink
  PROVE  Db!Next
  <1>1. /\ TreeTypeOK /\ phase = "running" /\ apc = "unlink" /\ phase' = phase /\ apc' = "truncate"
        /\ deleting \in Username /\ data[deleting] # NULL /\ deleting' = deleting
        /\ private_avl_remove(deleting)
    BY DEF DelUnlink, Inv, AdminTypeOK, Control
  <1>2. /\ deleting \in Users /\ Users' \subseteq Users /\ Users = Users' \cup {deleting}
    BY <1>1, RemoveKeeps DEF Users
  <1>3. Users' = Users \ {deleting} \/ (Users' = Users /\ ~ Db!Removable(deleting))
    <2>1. CASE HasTwoChildren(deleting)
      <3>1. Users' = Users
        BY <1>1, <2>1 DEF private_avl_remove, Unlink, Users
      <3>2. ~ Db!Removable(deleting)
        BY <1>1, <2>1, TwoChildren DEF Db!Removable
      <3> QED
        BY <3>1, <3>2
    <2>2. CASE ~HasTwoChildren(deleting)
      <3>1. deleting \notin Users'
        BY <1>1, <2>2 DEF private_avl_remove, Unlink, Users, TreeTypeOK
      <3> QED
        BY <1>2, <3>1
    <2> QED
      BY <2>1, <2>2
  <1>4. /\ dbUsers = Users /\ dbUsers' = Users' /\ dbInDoubt = {}
        /\ dbInDoubt' = Users' \cup {deleting}
    BY <1>1 DEF dbUsers, dbInDoubt
  <1>5. Db!Delete(deleting)
    BY <1>2, <1>3, <1>4 DEF Db!Delete, dbUsers, dbInDoubt
  <1> QED
    BY <1>1, <1>5 DEF Db!Next

LEMMA CrashStep ==
  ASSUME Inv, Crash
  PROVE  Db!Next \/ DbStutters
  <1>1. /\ dbUsers' = FileNames /\ dbInDoubt' = {}
    BY DEF Crash, dbUsers, dbInDoubt, FileNames
  <1>2. CASE phase # "running"
    BY <1>1, <1>2 DEF Inv, Control, dbUsers, dbInDoubt, DbStutters
  <1>3. CASE phase = "running" /\ apc \in {"read", "unlink"}
    BY <1>1, <1>3, NamesOnFile DEF dbUsers, dbInDoubt, DbStutters
  <1>4. CASE phase = "running" /\ apc \in {"insert", "link"}
    <2>1. Adder.username \in Username /\ Adder.username \notin Users
      BY <1>4, AdderInHand
    <2>2. FileNames = Users \cup {Adder.username}
      BY <1>4, NamesOnFile
    <2>3. Db!Create(Adder.username)
      BY <1>1, <1>4, <2>1, <2>2 DEF Db!Create, dbUsers, dbInDoubt
    <2> QED
      BY <2>1, <2>3 DEF Db!Next
  <1>5. CASE phase = "running" /\ apc \in {"truncate", "rewrite"}
    <2>1. FileNames \subseteq Users \cup {deleting}
      BY <1>5, NamesOnFile
    <2>2. Db!CrashInDelete
      BY <1>1, <1>5, <2>1 DEF Db!CrashInDelete, dbUsers, dbInDoubt
    <2> QED
      BY <2>2 DEF Db!Next
  <1> QED
    BY <1>2, <1>3, <1>4, <1>5 DEF Inv, AdminTypeOK

LEMMA DbStep ==
  ASSUME Inv, Ordered, AdminNext
  PROVE  Db!Next \/ DbStutters
  <1>1. CASE UNCHANGED <<data, phase, file, apc, deleting>>
    BY <1>1 DEF DbStutters, dbUsers, dbInDoubt, Users, FileNames
  <1>2. CASE Boot \/ LoadRecord
    <2>1. /\ phase # "running" /\ phase' # "running" /\ apc = "read" /\ apc' = apc /\ file' = file
      BY <1>2 DEF Boot, LoadRecord, Inv, Control
    <2> QED
      BY <2>1 DEF DbStutters, dbUsers, dbInDoubt, FileNames
  <1>3. CASE StartThreads
    <2>1. /\ phase = "loading" /\ phase' = "running" /\ apc = "read" /\ apc' = apc
          /\ file' = file /\ data' = data /\ file \in Seq(client_t) /\ TreeTypeOK
          /\ next - 1 = Len(file) /\ DOMAIN file = 1 .. Len(file)
      BY <1>3 DEF StartThreads, treeVars, Inv, Control, AdminTypeOK
    <2>2. Known = Stored
      BY <2>1 DEF Inv, FileMatchesMemory, Stored
    <2>3. FileNames = Users
      BY <2>1, <2>2, SameNames
    <2> QED
      BY <2>1, <2>3 DEF DbStutters, dbUsers, dbInDoubt, FileNames, Users
  <1>4. CASE \E reg \in Registration : AddWrite(reg)
    <2>1. phase = "running" /\ phase' = phase /\ apc = "read" /\ apc' = "insert" /\ data' = data
      BY <1>4 DEF AddWrite, Reading, treeVars
    <2> QED
      BY <2>1 DEF DbStutters, dbUsers, dbInDoubt, Users
  <1>5. CASE AddCopy
    <2>1. /\ phase = "running" /\ phase' = phase /\ data' = data
          /\ apc = "insert" /\ apc' = "link"
      BY <1>5 DEF AddCopy, Inv, Control
    <2> QED
      BY <2>1 DEF DbStutters, dbUsers, dbInDoubt, Users
  <1>10. CASE AddInsert
    <2>1. /\ TreeTypeOK /\ phase = "running" /\ phase' = phase /\ apc = "link" /\ apc' = "read"
          /\ heap[copy] # NULL /\ Adder = heap[copy]
      BY <1>10 DEF AddInsert, Inv, Control, AdminTypeOK, Adder
    <2>2. /\ copy \in Address /\ Adder.username \in Username /\ Adder.username \notin Users
      BY <2>1, AdderInHand
    <2>3. Users' = Users \cup {Adder.username}
      BY <1>10, <2>1, <2>2, LinkAdds DEF AddInsert, Users
    <2>4. Db!Create(Adder.username)
      BY <2>1, <2>2, <2>3 DEF Db!Create, dbUsers, dbInDoubt
    <2> QED
      BY <2>2, <2>4 DEF Db!Next
  <1>6. CASE \E u \in Username : DelFound(u)
    <2>1. phase = "running" /\ phase' = phase /\ apc = "read" /\ apc' = "unlink" /\ data' = data
      BY <1>6 DEF DelFound, Reading, treeVars
    <2> QED
      BY <2>1 DEF DbStutters, dbUsers, dbInDoubt, Users
  <1>7. CASE DelTruncate \/ RewriteRecord
    <2>1. /\ phase = "running" /\ phase' = phase /\ data' = data /\ deleting' = deleting
          /\ apc \in {"truncate", "rewrite"} /\ apc' = "rewrite"
      BY <1>7 DEF DelTruncate, RewriteRecord, treeVars, Inv, Control
    <2> QED
      BY <2>1 DEF DbStutters, dbUsers, dbInDoubt, Users
  <1>8. CASE DelAnswer
    <2>1. /\ phase = "running" /\ phase' = phase /\ data' = data
          /\ apc = "rewrite" /\ apc' = "read"
      BY <1>8 DEF DelAnswer, treeVars, Inv, Control
    <2>2. Db!CommitDelete
      BY <2>1 DEF Db!CommitDelete, dbUsers, dbInDoubt, Users
    <2> QED
      BY <2>2 DEF Db!Next
  <1>9. CASE \/ Accept \/ Disconnect \/ cmd_list \/ cmd_quit \/ InvalidUsage \/ UnknownCommand
             \/ \E reg \in Registration : AddDuplicate(reg)
             \/ \E u \in Username : DelNotFound(u)
    BY <1>1, <1>9 DEF Accept, Disconnect, cmd_list, cmd_quit, InvalidUsage, UnknownCommand,
                      AddDuplicate, DelNotFound, Answer, treeVars
  <1> QED
    BY <1>2, <1>3, <1>4, <1>5, <1>6, <1>7, <1>8, <1>9, <1>10, DeleteStep, CrashStep
    DEF AdminNext, AdminStep, MainStep, AdminCommand, AdminProgress

LEMMA InitOrdered ==
  ASSUME AdminInit
  PROVE  Ordered /\ Db!Init
  <1>1. /\ Users = {} /\ root = NULL /\ left = [u \in Username |-> NULL] /\ right = [u \in Username |-> NULL]
        /\ phase = "down" /\ apc = "read" /\ FileNames = {}
    BY DEF AdminInit, EmptyTree, Users, FileNames
  <1>2. Orders({})
    BY <1>1 DEF Orders, Under
  <1> QED
    BY <1>1, <1>2, FS_EmptySet DEF Ordered, Db!Init

-----------------------------------------------------------------------------
(* The file in username order: every insertion of the load is on the right. *)

Sorted == \A i, j \in DOMAIN file : i < j => file[i].username < file[j].username

ListSoFar ==
  phase = "down" \/ (phase = "loading" /\ Sorted) => \A u \in Username : left[u] = NULL

LEMMA LoadedBefore ==
  ASSUME Inv, phase = "loading", next <= Len(file), Sorted, NEW u \in Users
  PROVE  u < file[next].username
  <1>1. /\ file \in Seq(client_t) /\ next \in Nat \ {0} /\ TreeTypeOK
        /\ Known = {Account(file[i]) : i \in 1 .. next - 1}
    BY DEF Inv, AdminTypeOK, FileMatchesMemory
  <1>2. heap[data[u]] \in client_t /\ heap[data[u]].username = u
    BY <1>1 DEF TreeTypeOK, Users
  <1>3. PICK i \in 1 .. next - 1 : Account(heap[data[u]]) = Account(file[i])
    BY <1>1 DEF Known
  <1>4. i \in DOMAIN file /\ next \in DOMAIN file /\ i < next /\ file[i] \in client_t
    BY <1>1
  <1>5. file[i].username = u
    BY <1>2, <1>3, <1>4, AccountName
  <1> QED
    BY <1>4, <1>5 DEF Sorted

LEMMA LoadKeepsList ==
  ASSUME Inv, ListSoFar, AdminNext
  PROVE  ListSoFar'
  <1>1. CASE LoadRecord
    <2>1. CASE UNCHANGED treeVars
      BY <1>1, <2>1 DEF LoadRecord, treeVars, ListSoFar, Sorted
    <2>2. CASE \E a \in Address : InsertAt(a, file[next])
      <3>1. SUFFICES ASSUME Sorted PROVE left' = left
        BY <1>1 DEF LoadRecord, ListSoFar, Sorted
      <3>2. file[next] \in client_t
        BY <1>1 DEF LoadRecord, Inv, AdminTypeOK
      <3>3. \A p \in Users : ~LeftSlot(file[next].username, p)
        <4>1. TAKE p \in Users
        <4>2. p < file[next].username
          BY <1>1, <3>1, LoadedBefore DEF LoadRecord
        <4>3. p \in Int /\ file[next].username \in Int
          BY <3>2, UsernameAssumption DEF client_t, Users
        <4> QED
          BY <4>2, <4>3 DEF LeftSlot
      <3> QED
        BY <2>2, <3>3 DEF InsertAt, LinkNode, private_avl_add
    <2> QED
      BY <1>1, <2>1, <2>2 DEF LoadRecord
  <1>2. CASE Crash
    BY <1>2 DEF Crash, FreshTree, ListSoFar
  <1>3. CASE Boot
    BY <1>3 DEF Boot, treeVars, ListSoFar
  <1>4. CASE StartThreads \/ Accept
    BY <1>4 DEF StartThreads, Accept, ListSoFar
  <1>5. CASE /\ phase = "running" /\ UNCHANGED phase
    BY <1>5 DEF ListSoFar
  <1>6. CASE Disconnect \/ AdminCommand \/ AdminProgress
    <2>1. phase = "running"
      BY <1>6 DEF Disconnect, AdminCommand, cmd_list, cmd_quit, InvalidUsage, UnknownCommand,
                  AddDuplicate, AddWrite, DelNotFound, DelFound, Reading, AdminProgress, AddCopy, AddInsert,
                  DelUnlink, DelTruncate, RewriteRecord, DelAnswer, Inv, Control
    <2>2. UNCHANGED phase
      BY <1>6 DEF Disconnect, AdminCommand, cmd_list, cmd_quit, InvalidUsage, UnknownCommand,
                  AddDuplicate, AddWrite, DelNotFound, DelFound, Answer, AdminProgress, AddCopy, AddInsert,
                  DelUnlink, DelTruncate, RewriteRecord, DelAnswer
    <2> QED
      BY <1>5, <2>1, <2>2
  <1> QED
    BY <1>1, <1>2, <1>3, <1>4, <1>6 DEF AdminNext, AdminStep, MainStep

-----------------------------------------------------------------------------
(* The invariant of the tree, for the admin thread alone and for the server *)

TreeInv == Ordered /\ ListSoFar

LEMMA TreeInvInductive ==
  /\ AdminInit => Inv /\ TreeInv
  /\ Inv /\ TreeInv /\ [AdminNext]_vars => Inv' /\ TreeInv'
  <1>1. AdminInit => Inv /\ TreeInv
    BY InvInductive, InitOrdered DEF TreeInv, ListSoFar, AdminInit, EmptyTree
  <1>2. ASSUME TreeInv, UNCHANGED vars PROVE TreeInv'
    BY <1>2 DEF vars, treeVars, adminVars, TreeInv, ListSoFar, Sorted, Ordered, Orders, Under, Users
  <1> QED
    BY <1>1, <1>2, InvInductive, StepKeepsOrder, LoadKeepsList DEF TreeInv

(* The client thread changes nothing of the tree, the file and the phase. *)
LEMMA ClientKeepsTree ==
  ASSUME SInv, (ClientStep /\ UNCHANGED adminVars) \/ LoginBeforeCopy
  PROVE  UNCHANGED <<data, root, left, right, phase, file, apc, deleting>>
  <1>1. ClientStep /\ AdminStays
    BY LoginBeforeCopyStays DEF SInv, Lookups, adminVars, AdminStays
  <1> QED
    BY <1>1, ClientKeepsAccounts DEF SInv, Inv, AdminTypeOK, AdminStays

LEMMA ServerTreeInvInductive ==
  /\ ServerInit => SInv /\ TreeInv
  /\ SInv /\ TreeInv /\ [ServerNext]_serverVars => SInv' /\ TreeInv'
  <1>1. ServerInit => SInv /\ TreeInv
    BY SInvInductive, TreeInvInductive DEF ServerInit
  <1>2. ASSUME SInv, TreeInv, [ServerNext]_serverVars PROVE TreeInv'
    <2>1. CASE AdminNext
      BY <1>2, <2>1, TreeInvInductive DEF SInv
    <2>2. CASE UNCHANGED <<data, root, left, right, phase, file>>
      BY <1>2, <2>2 DEF TreeInv, ListSoFar, Sorted, Ordered, Orders, Under, Users
    <2> QED
      BY <1>2, <2>1, <2>2, ClientKeepsTree
      DEF ServerNext, ServerCrash, AdminNext, serverVars, treeVars, adminVars
  <1> QED
    BY <1>1, <1>2, SInvInductive

-----------------------------------------------------------------------------
(* The theorems *)

(***************************************************************************)
(* Whatever ADDs, DELs, loads and crashes made of the tree, the descent of *)
(* private_avl_get finds a user exactly if the user has a node.            *)
(***************************************************************************)
THEOREM LookupIsMembership == AdminSpec => []LookupAgrees
  <1>1. Inv /\ TreeInv => LookupAgrees
    BY LookupsAgree DEF Inv, AdminTypeOK, TreeInv
  <1> QED
    BY <1>1, TreeInvInductive, PTL DEF AdminSpec

(***************************************************************************)
(* The client thread looks users up in that same tree, while the admin     *)
(* thread is between two changes of it.                                    *)
(***************************************************************************)
THEOREM ServerLookupIsMembership == ServerSpec => []LookupAgrees
  <1>1. SInv /\ TreeInv => LookupAgrees
    BY LookupsAgree DEF SInv, Inv, AdminTypeOK, TreeInv
  <1> QED
    BY <1>1, ServerTreeInvInductive, PTL DEF ServerSpec

(***************************************************************************)
(* A file in username order is loaded into a tree without a left child.    *)
(***************************************************************************)
THEOREM SortedFileMakesAList == AdminSpec => []SortedFileLoadsAsList
  <1>1. TreeInv => SortedFileLoadsAsList
    BY DEF TreeInv, ListSoFar, Sorted, SortedFileLoadsAsList
  <1> QED
    BY <1>1, TreeInvInductive, PTL DEF AdminSpec

(***************************************************************************)
(* The tree, the file, the load and the crash implement UserDb: no user    *)
(* appears or disappears but by an ADD, its own DEL or a crash during a    *)
(* DEL, and a DEL that removes nobody is one of a user between two others. *)
(***************************************************************************)
THEOREM AdminImplementsUserDb == AdminSpec => ImplementsUserDb
  <1>1. AdminInit => Db!Init
    BY InitOrdered
  <1>2. Inv /\ TreeInv /\ [AdminNext]_vars => [Db!Next]_(Db!vars)
    <2>1. ASSUME UNCHANGED vars PROVE DbStutters
      BY <2>1 DEF vars, treeVars, adminVars, DbStutters, dbUsers, dbInDoubt, Users, FileNames
    <2>2. DbStutters => UNCHANGED Db!vars
      BY DEF DbStutters, dbUsers, dbInDoubt, Db!vars
    <2> QED
      BY <2>1, <2>2, DbStep DEF TreeInv
  <1> QED
    BY <1>1, <1>2, TreeInvInductive, PTL DEF AdminSpec, ImplementsUserDb, Db!Spec

(***************************************************************************)
(* Logins, messages and groups change nothing of that: the whole server    *)
(* implements UserDb as well.                                              *)
(***************************************************************************)
THEOREM ServerImplementsUserDb == ServerSpec => ImplementsUserDb
  <1>1. ServerInit => Db!Init
    BY InitOrdered DEF ServerInit
  <1>2. ASSUME UNCHANGED <<data, phase, file, apc, deleting>> PROVE DbStutters
    BY <1>2 DEF DbStutters, dbUsers, dbInDoubt, FileNames, Users
  <1>3. ASSUME SInv, TreeInv, [ServerNext]_serverVars
        PROVE  Db!Next \/ DbStutters
    <2>1. CASE AdminNext
      BY <1>3, <2>1, DbStep DEF SInv, TreeInv
    <2> QED
      BY <1>2, <1>3, <2>1, ClientKeepsTree
      DEF ServerNext, ServerCrash, AdminNext, serverVars, treeVars, adminVars
  <1>4. SInv /\ TreeInv /\ [ServerNext]_serverVars => [Db!Next]_(Db!vars)
    <2>1. DbStutters => UNCHANGED Db!vars
      BY DEF DbStutters, dbUsers, dbInDoubt, Db!vars
    <2> QED
      BY <1>3, <2>1
  <1> QED
    BY <1>1, <1>4, ServerTreeInvInductive, PTL DEF ServerSpec, ImplementsUserDb, Db!Spec

=============================================================================
