------------------------------- MODULE AvlTree -------------------------------
(***************************************************************************)
(* avl_tree.c under two threads: the admin thread adds and removes keys,   *)
(* the client thread looks one up, both on the same nodes and without a    *)
(* lock.  A step is one access to memory the other thread can see: the     *)
(* reader compares with a node, then follows its pointer; the writer goes  *)
(* down, then stores a child pointer and a height at every node of the     *)
(* path on the way back up.  The build does not optimise, so the stores    *)
(* are made in the order of the source.                                    *)
(*                                                                         *)
(* A record is represented by its key.  avl_add and avl_remove search the  *)
(* tree before they change it, and nobody else changes it meanwhile:       *)
(* Descend is that search, avl_add makes its node at the end of it, and    *)
(* the second descent, which reads the same nodes again, is left out.      *)
(***************************************************************************)
EXTENDS Integers, Sequences

CONSTANTS
  Key,    \* what data_cmp orders
  Node,   \* what malloc can return for an avl_node
  Given,  \* the caller's record of an avl_add, which new_avl_node copies and frees
  Blank,  \* the copy while it has not been filled
  NULL

ASSUME KeyAssumption  == Key \subseteq Int /\ NULL \notin Key
ASSUME NodeAssumption == NULL \notin Node

VARIABLES
  memory,     \* the avl_node at each address; what free leaves in one stays there
  allocated,  \* the addresses malloc has given out and free has not taken back
  root,       \* tree->root
  wpc, op, key,       \* the writer: where it is in its call, and the call
  at, child, path,    \*   current, the node in hand, the callers' current_nodes
  rpc, sought,        \* the reader: where it is in its call of avl_get, and the key
  cursor, result,     \*   current, and what avl_get returned
  keys, raced, seen   \* history: the keys in the tree; a removal overlapped the
                      \*   lookup; the results the lookup may have

treeVars    == <<memory, allocated, root>>
writerVars  == <<wpc, op, key, at, child, path>>
readerVars  == <<rpc, sought, cursor, result>>
vars == <<treeVars, writerVars, readerVars, keys, raced, seen>>

Link == Node \cup {NULL}

avl_node == [height : Int, data : Key, left : Link, right : Link]

TreeTypeOK ==
  /\ memory \in [Node -> avl_node]
  /\ allocated \subseteq Node
  /\ root \in Link

(* new_avl_node has the memory of the node, and has not returned. *)
Building == wpc \in {"new record", "fill", "clear left", "clear right"}

WriterTypeOK ==
  /\ \/ wpc \in {"idle", "descend", "copy left", "copy right", "free", "height", "link", "rotate"}
     \/ Building
  /\ op \in {"add", "remove"} /\ key \in Key
  /\ at \in Link /\ child \in Link /\ path \in Seq(Node)
  /\ wpc \in {"copy left", "copy right", "free", "height"} => at \in Node
  /\ wpc \in {"copy left", "copy right", "free"} \/ Building => child \in Node

(* what a lookup can return *)
Record == Key \cup {NULL, Given, Blank}

ReaderTypeOK ==
  /\ rpc \in {"compare", "left", "right", "found", "done", "fault"}
  /\ sought \in Key /\ cursor \in Link /\ result \in Record
  /\ rpc \in {"left", "right", "found"} => cursor \in Node

HistoryTypeOK == keys \subseteq Key /\ raced \in BOOLEAN /\ seen \subseteq Record

TypeOK == TreeTypeOK /\ WriterTypeOK /\ ReaderTypeOK /\ HistoryTypeOK

(* Definitions whose name starts with Mutant are slips that a change of the  *)
(* code could make: a run is known to notice each of them.                   *)

Init ==
  /\ \E k \in Key :
       /\ memory = [n \in Node |-> [height |-> 0, data |-> k, left |-> NULL, right |-> NULL]]
       /\ key = k /\ sought = k
  /\ allocated = {} /\ root = NULL
  /\ wpc = "idle" /\ op = "add" /\ at = NULL /\ child = NULL /\ path = <<>>
  /\ rpc = "done" /\ cursor = NULL /\ result = NULL
  /\ keys = {} /\ raced = FALSE /\ seen = {NULL}

-----------------------------------------------------------------------------
(* The writer *)

get_height(n) == IF n = NULL THEN 0 ELSE memory[n].height

get_balance(n) == get_height(memory[n].left) - get_height(memory[n].right)

(* the heights of a tree that is kept balanced *)
MutantHeight(l, r) == 1 + IF l > r THEN l ELSE r

(* "1 + (l > r) ? l : r" is (1 + (l > r)) ? l : r in C: the condition is 1 or 2. *)
Height(l, r) == IF 1 + (IF l > r THEN 1 ELSE 0) # 0 THEN l ELSE r

(* data_cmp *)
Before(n) == key < memory[n].data

(* avl_add and avl_remove *)
Call(o, k) ==
  /\ wpc = "idle"
  /\ wpc' = "descend" /\ op' = o /\ key' = k
  /\ at' = root /\ child' = NULL /\ path' = <<>>
  /\ UNCHANGED <<treeVars, keys>>

(* the call does not end *)
MutantReturn == UNCHANGED <<wpc, op, key, at, child, path>>

(* the call goes on, as if the node it did not find were there *)
MutantReturnOn == wpc' = "height" /\ UNCHANGED <<op, key, at, child, path>>

Return == wpc' = "idle" /\ UNCHANGED <<op, key, at, child, path>>

Descend ==
  /\ wpc = "descend" /\ at # NULL /\ memory[at].data # key
  /\ at' = IF Before(at) THEN memory[at].left ELSE memory[at].right
  /\ path' = Append(path, at)
  /\ UNCHANGED <<treeVars, wpc, op, key, child, keys>>

(* AVL_DUPLICATED_KEY, AVL_KEY_NOT_FOUND *)
Refuse ==
  /\ wpc = "descend"
  /\ \/ op = "add" /\ at # NULL /\ memory[at].data = key
     \/ op = "remove" /\ at = NULL
  /\ Return
  /\ UNCHANGED <<treeVars, keys>>

(* new_avl_node, store by store.  A lookup that a removal has left in the   *)
(* memory of a freed node sees each of them when malloc gives the node out  *)
(* again.  malloc is one step with the stores of the height and of the      *)
(* caller's record.  A free address is needed: bounds the tree in a run.    *)
NewNode ==
  /\ wpc = "descend" /\ op = "add" /\ at = NULL
  /\ \E n \in Node \ allocated :
       /\ allocated' = allocated \cup {n}
       /\ memory' = [memory EXCEPT ![n].height = 1, ![n].data = key]
       /\ child' = n
  /\ wpc' = "new record"
  /\ UNCHANGED <<root, op, key, at, path, keys>>

(* node->data = malloc(data_size) *)
MallocRecord ==
  /\ wpc = "new record" /\ wpc' = "fill"
  /\ UNCHANGED <<treeVars, op, key, at, child, path, keys>>

(* memcpy *)
FillRecord ==
  /\ wpc = "fill" /\ wpc' = "clear left"
  /\ UNCHANGED <<treeVars, op, key, at, child, path, keys>>

ClearLeft ==
  /\ wpc = "clear left" /\ wpc' = "clear right"
  /\ memory' = [memory EXCEPT ![child].left = NULL]
  /\ UNCHANGED <<allocated, root, op, key, at, child, path, keys>>

(* the node keeps the link of the node that was freed *)
MutantClearRight ==
  /\ wpc = "clear right" /\ wpc' = "link"
  /\ UNCHANGED <<treeVars, op, key, at, child, path, keys>>

(* The caller's record is freed, and the node returned. *)
ClearRight ==
  /\ wpc = "clear right" /\ wpc' = "link"
  /\ memory' = [memory EXCEPT ![child].right = NULL]
  /\ UNCHANGED <<allocated, root, op, key, at, child, path, keys>>

Removing(n) == wpc = "descend" /\ op = "remove" /\ n # NULL /\ memory[n].data = key

(* A leaf is freed while its parent still points to it. *)
RemoveLeaf ==
  /\ Removing(at) /\ memory[at].left = NULL /\ memory[at].right = NULL
  /\ allocated' = allocated \ {at}
  /\ keys' = keys \ {key}
  /\ child' = NULL /\ wpc' = "link"
  /\ UNCHANGED <<memory, root, op, key, at, path>>

(* A node with two children stays. *)
RemoveNothing ==
  /\ Removing(at) /\ memory[at].left # NULL /\ memory[at].right # NULL
  /\ wpc' = "height"
  /\ UNCHANGED <<treeVars, op, key, at, child, path, keys>>

(* A node with one child takes over its contents, member by member, and the *)
(* child is freed.                                                          *)
CopyData ==
  /\ Removing(at) /\ (memory[at].left = NULL) # (memory[at].right = NULL)
  /\ child' = IF memory[at].left # NULL THEN memory[at].left ELSE memory[at].right
  /\ memory' = [memory EXCEPT ![at].height = memory[child'].height,
                              ![at].data = memory[child'].data]
  /\ wpc' = "copy left"
  /\ UNCHANGED <<allocated, root, op, key, at, path, keys>>

CopyLeft ==
  /\ wpc = "copy left"
  /\ memory' = [memory EXCEPT ![at].left = memory[child].left]
  /\ wpc' = "copy right"
  /\ UNCHANGED <<allocated, root, op, key, at, child, path, keys>>

(* one member left out *)
MutantCopyRight ==
  /\ wpc = "copy right" /\ wpc' = "free"
  /\ UNCHANGED <<treeVars, op, key, at, child, path, keys>>

CopyRight ==
  /\ wpc = "copy right"
  /\ memory' = [memory EXCEPT ![at].right = memory[child].right]
  /\ wpc' = "free"
  /\ UNCHANGED <<allocated, root, op, key, at, child, path, keys>>

FreeChild ==
  /\ wpc = "free"
  /\ allocated' = allocated \ {child}
  /\ keys' = keys \ {key}
  /\ wpc' = "height"
  /\ UNCHANGED <<memory, root, op, key, at, child, path>>

(* The end of private_avl_add and private_avl_remove in a node: its height,  *)
(* then its balance, which decides between a rotation and returning the node. *)
UpdateHeight ==
  /\ wpc = "height"
  /\ memory' = [memory EXCEPT ![at].height =
                  Height(get_height(memory[at].left), get_height(memory[at].right))]
  /\ wpc' = IF get_balance(at) \in -1 .. 1 THEN "link" ELSE "rotate"
  /\ child' = at
  /\ UNCHANGED <<allocated, root, op, key, at, path, keys>>

(* The caller stores the node returned: in its own node, or in tree->root. *)
LinkChild ==
  /\ wpc = "link" /\ path # <<>>
  /\ LET parent == path[Len(path)] IN
       /\ memory' = IF Before(parent)
                    THEN [memory EXCEPT ![parent].left = child]
                    ELSE [memory EXCEPT ![parent].right = child]
       /\ at' = parent
  /\ path' = SubSeq(path, 1, Len(path) - 1)
  /\ keys' = IF op = "add" THEN keys \cup {key} ELSE keys
  /\ wpc' = "height"
  /\ UNCHANGED <<allocated, root, op, key, child>>

LinkRoot ==
  /\ wpc = "link" /\ path = <<>>
  /\ root' = child
  /\ keys' = IF op = "add" THEN keys \cup {key} ELSE keys
  /\ Return
  /\ UNCHANGED <<memory, allocated>>

WriterProgress ==
  \/ Descend \/ Refuse \/ RemoveLeaf \/ RemoveNothing
  \/ NewNode \/ MallocRecord \/ FillRecord \/ ClearLeft \/ ClearRight
  \/ CopyData \/ CopyLeft \/ CopyRight \/ FreeChild
  \/ UpdateHeight \/ LinkChild \/ LinkRoot

WriterStep == WriterProgress \/ \E o \in {"add", "remove"}, k \in Key : Call(o, k)

-----------------------------------------------------------------------------
(* The reader.  An access to a node that has been freed, or to a link that  *)
(* new_avl_node has not set, is undefined: "fault", after which the lookup  *)
(* may do anything.                                                         *)

avl_get(k) ==
  /\ rpc = "done"
  /\ rpc' = "compare" /\ sought' = k /\ cursor' = root
  /\ UNCHANGED result

(* node->data *)
DataOf(n) ==
  IF n = child /\ wpc = "new record" THEN Given
  ELSE IF n = child /\ wpc = "fill" THEN Blank ELSE memory[n].data

(* data_cmp with the record of a node.  What it reads of the caller's record  *)
(* or of the unfilled copy may be overwritten as it reads.                    *)
Outcomes(n) ==
  IF n \notin allocated THEN {"fault"}
  ELSE IF n = child /\ wpc \in {"new record", "fill"} THEN {"left", "right", "found"}
  ELSE IF sought < memory[n].data THEN {"left"}
  ELSE IF sought > memory[n].data THEN {"right"} ELSE {"found"}

CompareData ==
  /\ rpc = "compare" /\ cursor # NULL
  /\ rpc' \in Outcomes(cursor)
  /\ UNCHANGED <<sought, cursor, result>>

(* the recursive call with the same node *)
MutantLinkOf(n) == n

LinkOf(n) == IF rpc = "left" THEN memory[n].left ELSE memory[n].right

(* not yet cleared *)
Unset(n) == n = child /\ Building /\ (wpc = "clear right" => rpc = "right")

FollowLink ==
  /\ rpc \in {"left", "right"}
  /\ IF cursor \in allocated /\ ~Unset(cursor)
     THEN rpc' = "compare" /\ cursor' = LinkOf(cursor)
     ELSE rpc' = "fault" /\ UNCHANGED cursor
  /\ UNCHANGED <<sought, result>>

(* "return node->data" *)
ReturnData ==
  /\ rpc = "found"
  /\ IF cursor \in allocated
     THEN rpc' = "done" /\ result' = DataOf(cursor)
     ELSE rpc' = "fault" /\ UNCHANGED result
  /\ UNCHANGED <<sought, cursor>>

ReturnNull ==
  /\ rpc = "compare" /\ cursor = NULL
  /\ rpc' = "done" /\ result' = NULL
  /\ UNCHANGED <<sought, cursor>>

ReaderProgress == CompareData \/ FollowLink \/ ReturnData \/ ReturnNull

ReaderStep == ReaderProgress \/ \E k \in Key : avl_get(k)

-----------------------------------------------------------------------------
(* What a lookup may return.  As long as no removal overlaps it: the record, *)
(* or NULL, as the tree has the key or not at some moment of the lookup.     *)
(* If one does: also NULL, the record that took the place of a removed one,  *)
(* and, of a user being added since, the record, the caller's record that    *)
(* new_avl_node frees, and the copy before it is filled.                     *)

RemovalUnderWay == op = "remove" /\ wpc \notin {"idle", "descend"}

Current == IF sought \in keys THEN {sought} ELSE {NULL}

Made ==
  {r \in Record : /\ op = "add"
                  /\ \/ wpc = "new record" /\ r = Given
                     \/ wpc = "fill" /\ r = Blank
                     \/ wpc \in {"clear left", "clear right", "link"} /\ r = key}

Strays ==
  {NULL} \cup Made' \cup (IF wpc' = "copy left" THEN {memory[child'].data} ELSE {})

Overlap ==
  \/ rpc = "done" /\ rpc' = "done" /\ UNCHANGED <<raced, seen>>
  \/ /\ rpc = "done" /\ rpc' # "done"
     /\ raced' = RemovalUnderWay
     /\ seen' = Current' \cup (IF raced' THEN {NULL} ELSE {})
  \/ /\ rpc # "done"
     /\ raced' = (raced \/ RemovalUnderWay')
     /\ seen' = seen \cup Current' \cup (IF raced' THEN Strays ELSE {})

Next ==
  /\ \/ WriterStep /\ UNCHANGED readerVars
     \/ ReaderStep /\ UNCHANGED <<treeVars, writerVars, keys>>
  /\ Overlap

Fairness ==
  /\ WF_vars(WriterProgress /\ UNCHANGED readerVars /\ Overlap)
  /\ WF_vars(ReaderProgress /\ UNCHANGED <<treeVars, writerVars, keys>> /\ Overlap)

Spec == Init /\ [][Next]_vars /\ Fairness

-----------------------------------------------------------------------------
(* Properties *)

(***************************************************************************)
(* No call of private_avl_add or private_avl_remove ever gets to its       *)
(* rotations, whatever the sequence of keys: the tree is an unbalanced     *)
(* binary search tree, and a key never moves to another depth by an ADD.   *)
(***************************************************************************)
NeverRotates == wpc # "rotate"

(***************************************************************************)
(* A lookup that no removal overlaps is right, however many additions it   *)
(* overlaps.  One that a removal overlaps, and that reads no freed memory, *)
(* returns nothing but what Strays lists, which is what Overlap of module  *)
(* Server lets the client thread find: a record of the tree, NULL, or a    *)
(* record avl_add is making.  And only a removal can make the reader touch *)
(* freed memory.                                                           *)
(***************************************************************************)
LookupAllowed ==
  /\ rpc = "done" => result \in seen
  /\ rpc = "fault" => raced

-----------------------------------------------------------------------------
(* What the tree is between two stores, in the terms of UserList: while a    *)
(* node takes over its child's contents it still counts as what it was, a    *)
(* pointer to a freed node is NULL, and the new node of an avl_add is not    *)
(* yet in the tree.                                                          *)

Copying == wpc \in {"copy left", "copy right", "free"}

Contents(n) ==
  IF Copying /\ n = at
  THEN [height |-> memory[n].height, data |-> key,
        left  |-> IF memory[child].data < key THEN child ELSE NULL,
        right |-> IF memory[child].data > key THEN child ELSE NULL]
  ELSE memory[n]

Linked ==
  IF op = "add" /\ at = NULL /\ (Building \/ wpc = "link")
  THEN allocated \ {child} ELSE allocated

Name(n) == IF n \in Linked THEN Contents(n).data ELSE NULL

NodesOf(k) == {n \in Linked : Contents(n).data = k}

List == INSTANCE UserList WITH
  Username <- Key, Address <- Key, Ip <- {}, Password <- {}, Port <- {}, NoPort <- NULL,
  heap  <- [k \in Key |-> NULL],
  data  <- [k \in Key |-> IF NodesOf(k) # {} THEN k ELSE NULL],
  root  <- Name(root),
  left  <- [k \in Key |->
             IF NodesOf(k) # {} THEN Name(Contents(CHOOSE n \in NodesOf(k) : TRUE).left) ELSE NULL],
  right <- [k \in Key |->
             IF NodesOf(k) # {} THEN Name(Contents(CHOOSE n \in NodesOf(k) : TRUE).right) ELSE NULL]

ListAdd(k) ==
  /\ List!avl_get(k) = NULL /\ List!Users' = List!Users \cup {k}
  /\ List!private_avl_add(k)

(***************************************************************************)
(* Between calls and during them, the nodes and pointers change as the     *)
(* one-step insertions and removals of UserList say: the stores of         *)
(* private_avl_add and private_avl_remove, the heights, the copying of a   *)
(* child and the reuse of freed nodes come to one such step, or to none.   *)
(***************************************************************************)
ImplementsUserList ==
  [][\/ UNCHANGED List!treeVars
     \/ \E k \in Key : ListAdd(k)
     \/ \E k \in Key : List!avl_get(k) # NULL /\ List!private_avl_remove(k)]_vars

(***************************************************************************)
(* Every call of avl_add and avl_remove returns.                           *)
(***************************************************************************)
CallsReturn == wpc # "idle" ~> wpc = "idle"

(***************************************************************************)
(* A lookup ends unless removals go on without end: additions alone, which *)
(* also change the path under the reader, cannot keep it in the tree.      *)
(***************************************************************************)
LookupEnds ==
  <>[](~RemovalUnderWay) => (rpc = "compare" ~> rpc \in {"done", "fault"})

=============================================================================
