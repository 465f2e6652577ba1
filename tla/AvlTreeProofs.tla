---------------------------- MODULE AvlTreeProofs ----------------------------
(***************************************************************************)
(* AvlTree for every set of keys and of nodes: its type invariant, and     *)
(* that private_avl_add and private_avl_remove never rotate.               *)
(***************************************************************************)
EXTENDS AvlTree, TLAPS

(***************************************************************************)
(* The reason why no call rotates.  Height returns its first argument, so  *)
(* a node's height is 1 when new_avl_node has made it, and afterwards      *)
(* the height of its left child or 0: the heights are 0 and 1 only.        *)
(***************************************************************************)
HeightsSmall == \A n \in Node : memory[n].height \in {0, 1}

Inv == TypeOK /\ HeightsSmall /\ NeverRotates

(* The conditional of the code is its first alternative. *)
LEMMA HeightIsFirst ==
  ASSUME NEW l, NEW r
  PROVE  Height(l, r) = l
  BY DEF Height

LEMMA HeightTyped ==
  ASSUME TreeTypeOK, NEW n \in Link
  PROVE  get_height(n) \in Int
  <1>1. CASE n = NULL
    BY <1>1 DEF get_height
  <1>2. CASE n # NULL
    <2>1. memory[n] \in avl_node
      BY <1>2 DEF TreeTypeOK, Link
    <2> QED
      BY <1>2, <2>1 DEF get_height, avl_node
  <1> QED
    BY <1>1, <1>2

(* If the heights are 0 and 1, no balance is out of bounds. *)
LEMMA BalanceSmall ==
  ASSUME TreeTypeOK, HeightsSmall, NEW n \in Node
  PROVE  get_height(memory[n].left) \in {0, 1} /\ get_balance(n) \in -1 .. 1
  <1>1. memory[n].left \in Link /\ memory[n].right \in Link
    BY DEF TreeTypeOK, avl_node
  <1>2. \A c \in Link : get_height(c) = 0 \/ get_height(c) = 1
    BY DEF get_height, HeightsSmall, Link
  <1>3. \A l, r : (l = 0 \/ l = 1) /\ (r = 0 \/ r = 1) => l - r \in -1 .. 1
    OBVIOUS
  <1> QED
    BY <1>1, <1>2, <1>3 DEF get_balance

(* The first stores of new_avl_node *)
LEMMA StoresTyped ==
  ASSUME NEW node \in avl_node, NEW k \in Key
  PROVE  [node EXCEPT !.height = 1, !.data = k] \in avl_node
  <1>1. PICK one : one = 1
    OBVIOUS
  <1>2. one \in Int
    BY <1>1
  <1>3. [node EXCEPT !.height = one, !.data = k] \in avl_node
    BY <1>2 DEF avl_node
  <1> QED
    BY <1>1, <1>3

(* A call leaves the links and the writer's variables well typed. *)
LEMMA WriterKeepsType ==
  ASSUME TypeOK, WriterStep
  PROVE  TreeTypeOK' /\ WriterTypeOK' /\ keys' \subseteq Key
  <1> USE DEF TypeOK, TreeTypeOK, WriterTypeOK, Building, HistoryTypeOK, Link, avl_node, treeVars
  <1>1. CASE \E o \in {"add", "remove"}, k \in Key : Call(o, k)
    BY <1>1 DEF Call
  <1>2. CASE Descend
    BY <1>2 DEF Descend
  <1>3. CASE Refuse
    BY <1>3 DEF Refuse, Return
  <1>4. CASE NewNode \/ MallocRecord \/ FillRecord \/ ClearLeft \/ ClearRight
    <2>1. CASE NewNode
      <3>1. PICK n \in Node \ allocated :
              /\ allocated' = allocated \cup {n} /\ child' = n
              /\ memory' = [memory EXCEPT ![n].height = 1, ![n].data = key]
        BY <2>1 DEF NewNode
      <3>2. key \in Key /\ memory[n] \in avl_node
        BY <3>1
      <3>3. [memory[n] EXCEPT !.height = 1, !.data = key] \in avl_node
        BY <3>2, StoresTyped
      <3>4. memory' \in [Node -> avl_node]
        BY <3>1, <3>3
      <3> QED
        BY <2>1, <3>1, <3>4 DEF NewNode
    <2>2. CASE MallocRecord \/ FillRecord
      BY <2>2 DEF MallocRecord, FillRecord
    <2>3. CASE ClearLeft
      BY <2>3 DEF ClearLeft
    <2>4. CASE ClearRight
      BY <2>4 DEF ClearRight
    <2> QED
      BY <1>4, <2>1, <2>2, <2>3, <2>4
  <1>5. CASE RemoveLeaf
    BY <1>5 DEF RemoveLeaf, Removing
  <1>6. CASE RemoveNothing
    BY <1>6 DEF RemoveNothing, Removing
  <1>7. CASE CopyData
    <2>1. at \in Node /\ child' \in Node
      BY <1>7 DEF CopyData, Removing
    <2>2. memory[at] \in avl_node /\ memory[child'] \in avl_node
      BY <2>1
    <2>3. [memory[at] EXCEPT !.height = memory[child'].height, !.data = memory[child'].data]
             \in avl_node
      BY <2>2
    <2>4. memory' \in [Node -> avl_node]
      BY <1>7, <2>1, <2>3, ZenonT(60) DEF CopyData
    <2> QED
      BY <1>7, <2>1, <2>4 DEF CopyData
  <1>8. CASE CopyLeft
    BY <1>8 DEF CopyLeft
  <1>9. CASE CopyRight
    BY <1>9 DEF CopyRight
  <1>10. CASE FreeChild
    BY <1>10 DEF FreeChild
  <1>11. CASE UpdateHeight
    <2>1. at \in Node
      BY <1>11 DEF UpdateHeight
    <2>2. Height(get_height(memory[at].left), get_height(memory[at].right))
             = get_height(memory[at].left)
      BY HeightIsFirst
    <2>3. memory[at].left \in Link
      BY <2>1
    <2>4. get_height(memory[at].left) \in Int
      BY <2>3, HeightTyped
    <2> QED
      BY <1>11, <2>1, <2>2, <2>4 DEF UpdateHeight
  <1>12. CASE LinkChild
    <2>1. path[Len(path)] \in Node /\ SubSeq(path, 1, Len(path) - 1) \in Seq(Node)
      BY <1>12 DEF LinkChild
    <2> QED
      BY <1>12, <2>1 DEF LinkChild
  <1>13. CASE LinkRoot
    BY <1>13 DEF LinkRoot, Return
  <1> QED
    BY <1>1, <1>2, <1>3, <1>4, <1>5, <1>6, <1>7, <1>8, <1>9, <1>10, <1>11, <1>12, <1>13
    DEF WriterStep, WriterProgress

(* A lookup leaves the reader's variables well typed. *)
LEMMA ReaderKeepsType ==
  ASSUME TypeOK, ReaderStep
  PROVE  ReaderTypeOK'
  <1> USE DEF TypeOK, TreeTypeOK, ReaderTypeOK, Record, Link, avl_node
  <1>1. CASE \E k \in Key : avl_get(k)
    BY <1>1 DEF avl_get
  <1>2. CASE CompareData
    BY <1>2 DEF CompareData, Outcomes
  <1>3. CASE FollowLink
    BY <1>3 DEF FollowLink, LinkOf
  <1>4. CASE ReturnData
    BY <1>4 DEF ReturnData, DataOf
  <1>5. CASE ReturnNull
    BY <1>5 DEF ReturnNull
  <1> QED
    BY <1>1, <1>2, <1>3, <1>4, <1>5 DEF ReaderStep, ReaderProgress

(* The history variables stay well typed. *)
LEMMA OverlapKeepsType ==
  ASSUME HistoryTypeOK, Overlap, TreeTypeOK, WriterTypeOK', ReaderTypeOK', keys' \subseteq Key
  PROVE  HistoryTypeOK'
  <1>1. Current' \subseteq Record
    BY DEF Current, ReaderTypeOK, Record
  <1>2. Strays \subseteq Record
    BY DEF Strays, Made, WriterTypeOK, TreeTypeOK, avl_node, Record
  <1>3. RemovalUnderWay \in BOOLEAN /\ RemovalUnderWay' \in BOOLEAN
    BY DEF RemovalUnderWay
  <1> QED
    BY <1>1, <1>2, <1>3 DEF Overlap, HistoryTypeOK, Record

(* Heights outside {0, 1} never come about, nor does a balance beyond 1. *)
LEMMA WriterKeepsHeights ==
  ASSUME Inv, WriterStep
  PROVE  HeightsSmall' /\ NeverRotates'
  <1> USE DEF Inv, TypeOK, TreeTypeOK, WriterTypeOK, Building, Link, avl_node, treeVars,
              HeightsSmall, NeverRotates
  <1>1. CASE \E o \in {"add", "remove"}, k \in Key : Call(o, k)
    BY <1>1 DEF Call
  <1>2. CASE Descend \/ Refuse \/ RemoveLeaf \/ RemoveNothing \/ FreeChild \/ LinkRoot
    BY <1>2 DEF Descend, Refuse, RemoveLeaf, RemoveNothing, FreeChild, LinkRoot, Return, Removing
  <1>3. CASE NewNode \/ MallocRecord \/ FillRecord \/ ClearLeft \/ ClearRight
    <2>1. CASE NewNode
      BY <2>1 DEF NewNode
    <2>2. CASE MallocRecord \/ FillRecord \/ ClearLeft \/ ClearRight
      BY <2>2 DEF MallocRecord, FillRecord, ClearLeft, ClearRight
    <2> QED
      BY <1>3, <2>1, <2>2
  <1>4. CASE CopyData
    <2>1. at \in Node /\ child' \in Node
      BY <1>4 DEF CopyData, Removing
    <2> QED
      BY <1>4, <2>1, ZenonT(60) DEF CopyData
  <1>5. CASE CopyLeft \/ CopyRight
    BY <1>5 DEF CopyLeft, CopyRight
  <1>6. CASE UpdateHeight
    <2>1. at \in Node
      BY <1>6 DEF UpdateHeight
    <2>2. get_height(memory[at].left) \in {0, 1} /\ get_balance(at) \in -1 .. 1
      BY <2>1, BalanceSmall
    <2> QED
      BY <1>6, <2>1, <2>2, HeightIsFirst DEF UpdateHeight
  <1>7. CASE LinkChild
    <2>1. path[Len(path)] \in Node
      BY <1>7 DEF LinkChild
    <2> QED
      BY <1>7, <2>1 DEF LinkChild
  <1> QED
    BY <1>1, <1>2, <1>3, <1>4, <1>5, <1>6, <1>7 DEF WriterStep, WriterProgress

LEMMA InvInductive ==
  /\ Init => Inv
  /\ Inv /\ [Next]_vars => Inv'
  <1>1. ASSUME Init PROVE Inv
    <2>1. PICK k \in Key :
            /\ memory = [n \in Node |-> [height |-> 0, data |-> k, left |-> NULL, right |-> NULL]]
            /\ key = k /\ sought = k
      BY <1>1 DEF Init
    <2>2. TreeTypeOK /\ HeightsSmall
      BY <1>1, <2>1 DEF Init, TreeTypeOK, HeightsSmall, Link, avl_node
    <2>3. WriterTypeOK /\ NeverRotates
      BY <1>1, <2>1 DEF Init, WriterTypeOK, Building, NeverRotates, Link
    <2>4. ReaderTypeOK /\ HistoryTypeOK
      BY <1>1, <2>1 DEF Init, ReaderTypeOK, HistoryTypeOK, Record, Link
    <2> QED
      BY <2>2, <2>3, <2>4 DEF Inv, TypeOK
  <1>2. ASSUME Inv, Next PROVE Inv'
    <2>1. CASE WriterStep /\ UNCHANGED readerVars
      <3>1. TreeTypeOK' /\ WriterTypeOK' /\ keys' \subseteq Key
        BY <1>2, <2>1, WriterKeepsType DEF Inv
      <3>2. ReaderTypeOK'
        BY <1>2, <2>1 DEF Inv, TypeOK, ReaderTypeOK, Record, readerVars
      <3>3. HistoryTypeOK'
        BY <1>2, <3>1, <3>2, OverlapKeepsType DEF Inv, TypeOK, Next
      <3> QED
        BY <1>2, <2>1, <3>1, <3>2, <3>3, WriterKeepsHeights DEF Inv, TypeOK
    <2>2. CASE ReaderStep /\ UNCHANGED <<treeVars, writerVars, keys>>
      <3>1. TreeTypeOK' /\ WriterTypeOK' /\ keys' \subseteq Key
        BY <1>2, <2>2 DEF Inv, TypeOK, TreeTypeOK, WriterTypeOK, Building, HistoryTypeOK, treeVars, writerVars
      <3>2. ReaderTypeOK'
        BY <1>2, <2>2, ReaderKeepsType DEF Inv
      <3>3. HistoryTypeOK'
        BY <1>2, <3>1, <3>2, OverlapKeepsType DEF Inv, TypeOK, Next
      <3>4. HeightsSmall' /\ NeverRotates'
        BY <1>2, <2>2 DEF Inv, HeightsSmall, NeverRotates, treeVars, writerVars
      <3> QED
        BY <3>1, <3>2, <3>3, <3>4 DEF Inv, TypeOK
    <2> QED
      BY <1>2, <2>1, <2>2 DEF Next
  <1>3. ASSUME Inv, UNCHANGED vars PROVE Inv'
    BY <1>3 DEF Inv, TypeOK, TreeTypeOK, WriterTypeOK, Building, ReaderTypeOK, HistoryTypeOK,
                HeightsSmall, NeverRotates, vars, treeVars, writerVars, readerVars
  <1> QED
    BY <1>1, <1>2, <1>3

(***************************************************************************)
(* The variables of the writer and the reader stay in their types.         *)
(***************************************************************************)
THEOREM TypeCorrect == Spec => []TypeOK
  <1>1. Inv => TypeOK
    BY DEF Inv
  <1> QED
    BY <1>1, InvInductive, PTL DEF Spec

(***************************************************************************)
(* Whatever keys are added and removed, in whatever order, no call gets to *)
(* a rotation of private_avl_add or private_avl_remove.                    *)
(***************************************************************************)
THEOREM NoRotation == Spec => []NeverRotates
  <1>1. Inv => NeverRotates
    BY DEF Inv
  <1> QED
    BY <1>1, InvInductive, PTL DEF Spec

=============================================================================
