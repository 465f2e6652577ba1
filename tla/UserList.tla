------------------------------ MODULE UserList ------------------------------
(***************************************************************************)
(* The user table of the server: the global user_list of memory.h, a       *)
(* binary search tree of client_t records keyed by username, and the heap  *)
(* the records live in.  The admin thread changes its shape, the client    *)
(* thread looks users up in it and keeps pointers into the heap.           *)
(*                                                                         *)
(* A tree node is named by the username it holds.  private_avl_add and     *)
(* private_avl_remove never rotate (module AvlTree shows why), so a node   *)
(* changes its children only where a key is attached or spliced out.       *)
(***************************************************************************)
EXTENDS Integers, FiniteSets, Sequences

CONSTANTS
  Username,   \* user names; their order as integers is the order of strcmp
  Ip,         \* addresses in text form
  Password,
  Port,       \* the values sin_port takes
  NoPort,     \* an int that is no sin_port
  Address,    \* what malloc can return for a client_t: bounds the allocations of a run
  NULL

ASSUME UsernameAssumption == Username \subseteq Int /\ NULL \notin Username
ASSUME PortAssumption     == NoPort \notin Port
ASSUME AddressAssumption  == NULL \notin Address

VARIABLES
  data,         \* data[u]: the record the node of u points to, NULL if u has no node
  root,         \* the username at the root
  left, right,  \* the usernames below a node
  heap          \* heap[a]: the client_t stored at a, NULL while a is not allocated

treeVars == <<data, root, left, right, heap>>

Permission == {"client_server", "p2p", "group"}

(* struct client.  The three permission ints are the set of the nonzero ones. *)
client_t ==
  [username : Username, password : Password, ip : Ip,
   port : Port \cup {NoPort}, perms : SUBSET Permission]

ASSUME NullAssumption == NULL \notin client_t

TreeTypeOK ==
  /\ data \in [Username -> Address \cup {NULL}]
  /\ root \in Username \cup {NULL}
  /\ left \in [Username -> Username \cup {NULL}]
  /\ right \in [Username -> Username \cup {NULL}]
  /\ heap \in [Address -> client_t \cup {NULL}]
  \* a node points to an allocated record that carries the node's name
  /\ \A u \in Username : data[u] # NULL =>
        heap[data[u]] # NULL /\ heap[data[u]].username = u

(* new_avl_tree: the empty tree, in a process that has allocated nothing. *)
EmptyTree ==
  /\ data = [u \in Username |-> NULL]
  /\ root = NULL
  /\ left = [u \in Username |-> NULL]
  /\ right = [u \in Username |-> NULL]
  /\ heap = [a \in Address |-> NULL]

FreshTree ==
  /\ data' = [u \in Username |-> NULL]
  /\ root' = NULL
  /\ left' = [u \in Username |-> NULL]
  /\ right' = [u \in Username |-> NULL]
  /\ heap' = [a \in Address |-> NULL]

Users == {u \in Username : data[u] # NULL}

-----------------------------------------------------------------------------
(* private_avl_get, the descent of the C code.  avl_get is the membership   *)
(* test the other operators use; LookupAgrees says the two are the same.    *)

private_avl_get(u) ==
  LET from[n \in Username \cup {NULL}] ==
        IF n = NULL \/ n = u THEN n
        ELSE IF u < n THEN from[left[n]] ELSE from[right[n]]
  IN from[root]

avl_get(u) == data[u]

(* Where the descent for an absent u falls off the tree: below its successor *)
(* on the left, or below its predecessor on the right.                       *)
Between(u, v) == {w \in Users : (u < w /\ w < v) \/ (v < w /\ w < u)}

(* Definitions whose name starts with Mutant are slips that a change of the  *)
(* code could make: a run is known to notice each of them.                   *)

(* a larger key goes to the left *)
MutantLeftSlot(u, p) == p < u /\ left[p] = NULL /\ Between(u, p) = {}

LeftSlot(u, p)  == u < p /\ left[p] = NULL /\ Between(u, p) = {}
RightSlot(u, p) == p < u /\ right[p] = NULL /\ Between(u, p) = {}

private_avl_add(u) ==
  \/ Users = {} /\ root' = u /\ UNCHANGED <<left, right>>
  \/ \E p \in Users :
       \/ LeftSlot(u, p) /\ left' = [left EXCEPT ![p] = u] /\ UNCHANGED <<root, right>>
       \/ RightSlot(u, p) /\ right' = [right EXCEPT ![p] = u] /\ UNCHANGED <<root, left>>

(* new_avl_node: the record is copied to memory of its own. *)
StoreRecord(a, client) == heap[a] = NULL /\ heap' = [heap EXCEPT ![a] = client]

(* private_avl_add: the new node, a leaf, is linked in. *)
LinkNode(a, u) == data' = [data EXCEPT ![u] = a] /\ private_avl_add(u)

InsertAt(a, client) == StoreRecord(a, client) /\ LinkNode(a, client.username)

(* only leaves are removed *)
MutantHasTwoChildren(u) == left[u] # NULL \/ right[u] # NULL

HasTwoChildren(u) == left[u] # NULL /\ right[u] # NULL

OnlyChild(u) == IF left[u] # NULL THEN left[u] ELSE right[u]

(* the child of a removed node is lost *)
MutantSplice(n, u) == IF n = u THEN NULL ELSE n

Splice(n, u) == IF n = u THEN OnlyChild(u) ELSE n

(* private_avl_remove: a node with at most one child is replaced by that     *)
(* child; a node with two children matches no branch and stays.  The record  *)
(* is not freed in either case.                                              *)
Unlink(u) ==
  IF HasTwoChildren(u)
  THEN UNCHANGED <<data, root, left, right>>
  ELSE /\ data' = [data EXCEPT ![u] = NULL]
       /\ root' = Splice(root, u)
       /\ left' = [n \in Username |-> IF n = u THEN NULL ELSE Splice(left[n], u)]
       /\ right' = [n \in Username |-> IF n = u THEN NULL ELSE Splice(right[n], u)]

(* the record is freed with the node, or without *)
Mutant_avl_remove(u) == Unlink(u) /\ heap' = [heap EXCEPT ![data[u]] = NULL]

private_avl_remove(u) == Unlink(u) /\ UNCHANGED heap

(***************************************************************************)
(* A lookup finds exactly the users that have a node, whatever sequence of *)
(* insertions, removals and reloads built the tree: the descent of         *)
(* private_avl_get never takes the wrong side and never loses a subtree    *)
(* that private_avl_remove spliced.                                        *)
(***************************************************************************)
LookupAgrees ==
  \A u \in Username : private_avl_get(u) = IF u \in Users THEN u ELSE NULL

=============================================================================
