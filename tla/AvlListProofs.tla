---------------------------- MODULE AvlListProofs ----------------------------
(***************************************************************************)
(* AvlTree for every set of keys and of nodes: the results of a lookup     *)
(* beside additions and removals, and the refinement of UserList.          *)
(*                                                                         *)
(* Both rest on one invariant, ListInv: the nodes are a search tree        *)
(* between any two stores, the writer's path is the way to its key in it,  *)
(* and the reader has its key ahead.                                       *)
(***************************************************************************)
EXTENDS AvlTreeProofs, SequenceTheorems

-----------------------------------------------------------------------------
(* A search tree on a set N of nodes: its root, the children and the keys.  *)
(* "below" is the relation between a node and the nodes of the tree under it. *)

Under(below, side, x, y) == side[x] # NULL /\ <<side[x], y>> \in below

IsTree(N, top, l, r, below) ==
  /\ l \in [N -> N \cup {NULL}] /\ r \in [N -> N \cup {NULL}] /\ top \in N \cup {NULL}
  /\ \A x, y \in N :
       <<x, y>> \in below <=> x = y \/ Under(below, l, x, y) \/ Under(below, r, x, y)
  /\ \A x, y, z \in N : <<x, y>> \in below /\ <<y, z>> \in below => <<x, z>> \in below
  /\ \A y \in N : top # NULL /\ <<top, y>> \in below
  /\ N = {} => top = NULL

(* no node is a child twice *)
OneParent(N, l, r) ==
  /\ \A x, y \in N : (l[x] # NULL /\ l[x] = l[y]) \/ (r[x] # NULL /\ r[x] = r[y]) => x = y
  /\ \A x, y \in N : l[x] # NULL => l[x] # r[y]

IsSorted(N, l, r, d, below) ==
  /\ d \in [N -> Int]
  /\ \A x, y \in N : Under(below, l, x, y) => d[y] < d[x]
  /\ \A x, y \in N : Under(below, r, x, y) => d[x] < d[y]
  /\ \A x, y \in N : d[x] = d[y] => x = y

Orders(N, top, l, r, d, below) ==
  IsTree(N, top, l, r, below) /\ OneParent(N, l, r) /\ IsSorted(N, l, r, d, below)

Inside(a, b, c) == (b < a /\ a < c) \/ (c < a /\ a < b)

(* A first node *)
LEMMA FirstNode ==
  ASSUME NEW c, c # NULL, NEW k \in Int
  PROVE  Orders({c}, c, [n \in {c} |-> NULL], [n \in {c} |-> NULL], [n \in {c} |-> k], {<<c, c>>})
  BY DEF Orders, IsTree, OneParent, IsSorted, Under

(* p is where the descent for k ends *)
Falls(N, l, r, d, k, p) ==
  /\ p \in N /\ k \in Int
  /\ IF k < d[p] THEN l[p] = NULL ELSE r[p] = NULL
  /\ \A x \in N : d[x] # k /\ ~Inside(d[x], k, d[p])

(* c is a new leaf below p *)
Attached(N, l, r, d, k, p, c, l2, r2, d2) ==
  /\ c \notin N /\ c # NULL
  /\ l2 \in [N \cup {c} -> N \cup {c, NULL}] /\ r2 \in [N \cup {c} -> N \cup {c, NULL}]
  /\ d2 \in [N \cup {c} -> Int]
  /\ l2[c] = NULL /\ r2[c] = NULL /\ d2[c] = k
  /\ \A x \in N : /\ l2[x] = (IF x = p /\ k < d[p] THEN c ELSE l[x])
                   /\ r2[x] = (IF x = p /\ ~(k < d[p]) THEN c ELSE r[x])
                   /\ d2[x] = d[x]

(* The tree with the leaf is a search tree, and the leaf is below the same nodes as p. *)
LEMMA Attach ==
  ASSUME NEW N, NULL \notin N, NEW top, NEW l, NEW r, NEW d, NEW below,
         Orders(N, top, l, r, d, below),
         NEW k, NEW p, Falls(N, l, r, d, k, p),
         NEW c, NEW l2, NEW r2, NEW d2, Attached(N, l, r, d, k, p, c, l2, r2, d2)
  PROVE  \E new : /\ Orders(N \cup {c}, top, l2, r2, d2, new)
                  /\ \A x, y \in N : <<x, y>> \in new <=> <<x, y>> \in below
  <1>0. /\ p \in N /\ k \in Int
        /\ IF k < d[p] THEN l[p] = NULL ELSE r[p] = NULL
        /\ \A x \in N : d[x] # k /\ ~Inside(d[x], k, d[p])
        /\ c \notin N /\ c # NULL
        /\ l2 \in [N \cup {c} -> N \cup {c, NULL}] /\ r2 \in [N \cup {c} -> N \cup {c, NULL}]
        /\ d2 \in [N \cup {c} -> Int]
        /\ l2[c] = NULL /\ r2[c] = NULL /\ d2[c] = k
        /\ \A x \in N : /\ l2[x] = (IF x = p /\ k < d[p] THEN c ELSE l[x])
                         /\ r2[x] = (IF x = p /\ ~(k < d[p]) THEN c ELSE r[x])
                         /\ d2[x] = d[x]
    BY DEF Falls, Attached
  <1>00. c \notin N /\ p \in N
    BY <1>0
  <1> DEFINE M == N \cup {c}
             In(x, y) == \/ x \in N /\ y \in N /\ <<x, y>> \in below
                         \/ x \in N /\ y = c /\ <<x, p>> \in below
                         \/ x = c /\ y = c
  <1>1. PICK new \in SUBSET (M \X M) : \A x, y \in M : <<x, y>> \in new <=> In(x, y)
    <2> WITNESS {z \in M \X M : In(z[1], z[2])} \in SUBSET (M \X M)
    <2> QED
      OBVIOUS
  <1>2. /\ \A x, y \in N : <<x, y>> \in new <=> <<x, y>> \in below
        /\ \A x \in N : <<x, c>> \in new <=> <<x, p>> \in below
        /\ \A y \in N : <<c, y>> \notin new
        /\ <<c, c>> \in new
    <2>1. \A x, y \in N : <<x, y>> \in new <=> <<x, y>> \in below
      BY <1>00, <1>1
    <2>2. \A x \in N : <<x, c>> \in new <=> <<x, p>> \in below
      BY <1>00, <1>1
    <2>3. /\ \A y \in N : <<c, y>> \notin new
          /\ <<c, c>> \in new
      BY <1>00, <1>1
    <2> QED
      BY <2>1, <2>2, <2>3
  <1> HIDE <1>1
  <1> USE <1>0
  <1>3. IsTree(N, top, l, r, below) /\ OneParent(N, l, r) /\ IsSorted(N, l, r, d, below)
    BY DEF Orders
  <1>4. top \in N /\ <<p, p>> \in below
    BY <1>3 DEF IsTree
  <1>5. \A x \in N : /\ l2[x] = l[x] \/ (x = p /\ l2[x] = c /\ l[x] = NULL /\ k < d[x])
                     /\ r2[x] = r[x] \/ (x = p /\ r2[x] = c /\ r[x] = NULL /\ d[x] < k)
    BY <1>3 DEF IsSorted
  <1>6. \A x \in N, y \in M : Under(new, l2, x, y) <=>
           \/ y \in N /\ Under(below, l, x, y)
           \/ y = c /\ (Under(below, l, x, p) \/ (x = p /\ k < d[p]))
    BY <1>2, <1>3, <1>4, <1>5, SMTT(60) DEF Under, IsTree
  <1>7. \A x \in N, y \in M : Under(new, r2, x, y) <=>
           \/ y \in N /\ Under(below, r, x, y)
           \/ y = c /\ (Under(below, r, x, p) \/ (x = p /\ ~(k < d[p])))
    BY <1>2, <1>3, <1>4, <1>5 DEF Under, IsTree
  <1>8. \A y \in M : ~Under(new, l2, c, y) /\ ~Under(new, r2, c, y)
    BY DEF Under
  <1>9. IsTree(M, top, l2, r2, new)
    <2>1. ASSUME NEW x \in M, NEW y \in M
          PROVE  <<x, y>> \in new <=> x = y \/ Under(new, l2, x, y) \/ Under(new, r2, x, y)
      <3>1. CASE x \in N /\ y \in N
        BY <1>2, <1>3, <1>6, <1>7, <3>1 DEF IsTree
      <3>2. CASE x \in N /\ y = c
        <4>1. <<x, p>> \in below <=> x = p \/ Under(below, l, x, p) \/ Under(below, r, x, p)
          BY <1>3, <3>2 DEF IsTree
        <4>2. <<x, y>> \in new <=> <<x, p>> \in below
          BY <1>2, <3>2
        <4> QED
          BY <1>6, <1>7, <3>2, <4>1, <4>2
      <3>3. CASE x = c
        BY <1>2, <1>8, <3>3
      <3> QED
        BY <3>1, <3>2, <3>3
    <2>2. ASSUME NEW x \in M, NEW y \in M, NEW z \in M, <<x, y>> \in new, <<y, z>> \in new
          PROVE  <<x, z>> \in new
      BY <1>2, <1>3, <2>2 DEF IsTree
    <2>3. \A y \in M : top # NULL /\ <<top, y>> \in new
      BY <1>2, <1>3, <1>4 DEF IsTree
    <2> QED
      BY <1>4, <2>1, <2>2, <2>3 DEF IsTree
  <1>10. OneParent(M, l2, r2)
    BY <1>3, <1>5 DEF OneParent, IsTree
  <1>11. IsSorted(M, l2, r2, d2, new)
    <2>1. ASSUME NEW x \in M, NEW y \in M, Under(new, l2, x, y)
          PROVE  d2[y] < d2[x]
      <3>1. x \in N
        BY <1>8, <2>1
      <3>2. CASE y \in N /\ Under(below, l, x, y)
        BY <1>3, <3>1, <3>2 DEF IsSorted
      <3>3. CASE y = c /\ Under(below, l, x, p)
        <4>1. d[p] < d[x] /\ d[x] # k /\ ~Inside(d[x], k, d[p])
          BY <1>3, <3>1, <3>3 DEF IsSorted
        <4>2. d[p] \in Int /\ d[x] \in Int
          BY <1>3, <3>1 DEF IsSorted
        <4>3. k < d[x]
          BY <4>1, <4>2 DEF Inside
        <4> QED
          BY <3>1, <3>3, <4>3
      <3>4. CASE y = c /\ x = p /\ k < d[p]
        BY <3>4
      <3> QED
        BY <1>6, <2>1, <3>1, <3>2, <3>3, <3>4
    <2>2. ASSUME NEW x \in M, NEW y \in M, Under(new, r2, x, y)
          PROVE  d2[x] < d2[y]
      <3>1. x \in N
        BY <1>8, <2>2
      <3>2. CASE y \in N /\ Under(below, r, x, y)
        BY <1>3, <3>1, <3>2 DEF IsSorted
      <3>3. CASE y = c /\ Under(below, r, x, p)
        <4>1. d[x] < d[p] /\ d[x] # k /\ ~Inside(d[x], k, d[p])
          BY <1>3, <3>1, <3>3 DEF IsSorted
        <4>2. d[p] \in Int /\ d[x] \in Int
          BY <1>3, <3>1 DEF IsSorted
        <4>3. d[x] < k
          BY <4>1, <4>2 DEF Inside
        <4> QED
          BY <3>1, <3>3, <4>3
      <3>4. CASE y = c /\ x = p /\ ~(k < d[p])
        <4>1. d[p] \in Int /\ d[p] # k
          BY <1>3 DEF IsSorted
        <4> QED
          BY <3>4, <4>1
      <3> QED
        BY <1>7, <2>2, <3>1, <3>2, <3>3, <3>4
    <2>3. \A x, y \in M : d2[x] = d2[y] => x = y
      BY <1>3 DEF IsSorted
    <2> QED
      BY <2>1, <2>2, <2>3 DEF IsSorted
  <1> QED
    BY <1>2, <1>9, <1>10, <1>11 DEF Orders

(* A leaf that goes *)
LEMMA Detach ==
  ASSUME NEW N, NULL \notin N, NEW top, NEW l, NEW r, NEW d, NEW below,
         Orders(N, top, l, r, d, below),
         NEW a \in N, l[a] = NULL, r[a] = NULL,
         NEW top2, top2 = (IF top = a THEN NULL ELSE top),
         NEW l2, NEW r2, NEW d2,
         l2 = [x \in N \ {a} |-> IF l[x] = a THEN NULL ELSE l[x]],
         r2 = [x \in N \ {a} |-> IF r[x] = a THEN NULL ELSE r[x]],
         d2 = [x \in N \ {a} |-> d[x]]
  PROVE  Orders(N \ {a}, top2, l2, r2, d2, below)
  <1> DEFINE M == N \ {a}
  <1>1. IsTree(N, top, l, r, below) /\ OneParent(N, l, r) /\ IsSorted(N, l, r, d, below)
    BY DEF Orders
  <1>2. \A y \in M : <<a, y>> \notin below
    BY <1>1 DEF IsTree, Under
  <1>3. \A x, y \in M : /\ Under(below, l2, x, y) <=> Under(below, l, x, y)
                        /\ Under(below, r2, x, y) <=> Under(below, r, x, y)
    BY <1>2 DEF Under
  <1>4. \A x \in M : /\ l2[x] # NULL => l2[x] = l[x]
                     /\ r2[x] # NULL => r2[x] = r[x]
                     /\ l2[x] \in M \cup {NULL} /\ r2[x] \in M \cup {NULL} /\ d2[x] = d[x]
    BY <1>1 DEF IsTree
  <1>5. IsTree(M, top2, l2, r2, below)
    <2>1. top2 \in M \cup {NULL}
      BY <1>1 DEF IsTree
    <2>2. \A y \in M : top2 # NULL /\ <<top2, y>> \in below
      BY <1>1, <1>2 DEF IsTree
    <2>3. M = {} => top2 = NULL
      BY <1>1 DEF IsTree
    <2>4. l2 \in [M -> M \cup {NULL}] /\ r2 \in [M -> M \cup {NULL}]
      BY <1>4
    <2>5. \A x, y \in M :
            <<x, y>> \in below <=> x = y \/ Under(below, l2, x, y) \/ Under(below, r2, x, y)
      BY <1>1, <1>3 DEF IsTree
    <2>6. \A x, y, z \in M : <<x, y>> \in below /\ <<y, z>> \in below => <<x, z>> \in below
      BY <1>1 DEF IsTree
    <2> QED
      BY <2>1, <2>2, <2>3, <2>4, <2>5, <2>6 DEF IsTree
  <1>6. OneParent(M, l2, r2)
    BY <1>1, <1>4 DEF OneParent
  <1>7. IsSorted(M, l2, r2, d2, below)
    <2>1. d2 \in [M -> Int]
      BY <1>1 DEF IsSorted
    <2> QED
      BY <1>1, <1>3, <1>4, <2>1 DEF IsSorted
  <1> QED
    BY <1>5, <1>6, <1>7 DEF Orders

(* A node that takes the place of its parent, which has no other child *)
LEMMA Merge ==
  ASSUME NEW N, NULL \notin N, NEW top, NEW l, NEW r, NEW d, NEW below,
         Orders(N, top, l, r, d, below),
         NEW a \in N, NEW c \in N,
         (l[a] = c /\ r[a] = NULL) \/ (r[a] = c /\ l[a] = NULL),
         NEW l2 \in [N \ {c} -> N \cup {NULL}], NEW r2 \in [N \ {c} -> N \cup {NULL}],
         NEW d2 \in [N \ {c} -> Int],
         \A x \in N \ {c} : /\ l2[x] = (IF x = a THEN l[c] ELSE l[x])
                            /\ r2[x] = (IF x = a THEN r[c] ELSE r[x])
                            /\ d2[x] = (IF x = a THEN d[c] ELSE d[x])
  PROVE  /\ Orders(N \ {c}, top, l2, r2, d2, below) /\ a # c /\ top # c
         /\ \A x \in N : l[x] = c \/ r[x] = c => x = a
  <1> DEFINE M == N \ {c}
  <1>1. IsTree(N, top, l, r, below) /\ OneParent(N, l, r) /\ IsSorted(N, l, r, d, below)
    BY DEF Orders
  <1>2. <<c, c>> \in below /\ <<a, a>> \in below /\ <<a, c>> \in below
    BY <1>1 DEF IsTree, Under
  <1>3. \A x, y \in N : (l[x] = y \/ r[x] = y) => d[x] # d[y] /\ d[x] \in Int /\ <<x, y>> \in below
    <2>1. ASSUME NEW x \in N, NEW y \in N, l[x] = y
          PROVE  d[y] < d[x] /\ <<x, y>> \in below
      <3>1. Under(below, l, x, y)
        BY <1>1, <2>1 DEF IsTree, Under
      <3> QED
        BY <1>1, <3>1 DEF IsTree, IsSorted
    <2>2. ASSUME NEW x \in N, NEW y \in N, r[x] = y
          PROVE  d[x] < d[y] /\ <<x, y>> \in below
      <3>1. Under(below, r, x, y)
        BY <1>1, <2>2 DEF IsTree, Under
      <3> QED
        BY <1>1, <3>1 DEF IsTree, IsSorted
    <2>3. \A x \in N : d[x] \in Int
      BY <1>1 DEF IsSorted
    <2> QED
      BY <2>1, <2>2, <2>3
  <1>4. a # c
    BY <1>3
  <1>5. \A x \in N : l[x] = c \/ r[x] = c => x = a
    BY <1>1 DEF OneParent
  <1>6. <<c, a>> \notin below
    <2>1. SUFFICES ASSUME <<c, a>> \in below PROVE FALSE
      OBVIOUS
    <2>2. Under(below, l, a, a) \/ Under(below, r, a, a)
      BY <2>1 DEF Under
    <2>3. d[a] < d[a] /\ d[a] \in Int
      BY <1>1, <2>2 DEF IsSorted
    <2> QED
      BY <2>3
  <1>7. top # c
    BY <1>1, <1>6 DEF IsTree
  <1>8. l[c] # c /\ r[c] # c /\ l[c] # a /\ r[c] # a
    BY <1>3, <1>6
  <1>9. \A x \in M : /\ l2[x] \in M \cup {NULL} /\ r2[x] \in M \cup {NULL}
                     /\ x # a => l2[x] = l[x] /\ r2[x] = r[x] /\ d2[x] = d[x]
                     /\ x = a => l2[x] = l[c] /\ r2[x] = r[c] /\ d2[x] = d[c]
    BY <1>1, <1>5, <1>8 DEF IsTree
  <1>10. a \in M
    BY <1>4
  <1>11. IsTree(M, top, l2, r2, below)
    <2>1. l2 \in [M -> M \cup {NULL}] /\ r2 \in [M -> M \cup {NULL}]
      BY <1>9
    <2>2. ASSUME NEW x \in M, NEW y \in M
          PROVE  <<x, y>> \in below <=> x = y \/ Under(below, l2, x, y) \/ Under(below, r2, x, y)
      <3>1. CASE x # a
        BY <1>1, <1>9, <3>1 DEF IsTree, Under
      <3>2. CASE x = a
        <4>1. <<a, y>> \in below <=> a = y \/ <<c, y>> \in below
          BY <1>1 DEF IsTree, Under
        <4>2. <<c, y>> \in below <=> Under(below, l, c, y) \/ Under(below, r, c, y)
          BY <1>1 DEF IsTree
        <4> QED
          BY <1>9, <3>2, <4>1, <4>2 DEF Under
      <3> QED
        BY <3>1, <3>2
    <2>3. \A x, y, z \in M : <<x, y>> \in below /\ <<y, z>> \in below => <<x, z>> \in below
      BY <1>1 DEF IsTree
    <2>4. (\A y \in M : top # NULL /\ <<top, y>> \in below) /\ top \in M \cup {NULL} /\ M # {}
      BY <1>1, <1>7, <1>10 DEF IsTree
    <2> QED
      BY <2>1, <2>2, <2>3, <2>4 DEF IsTree
  <1>12. OneParent(M, l2, r2)
    BY <1>1, <1>4, <1>9 DEF OneParent
  <1>13. IsSorted(M, l2, r2, d2, below)
    <2>1. d2 \in [M -> Int]
      <3>1. \A x \in N : d[x] \in Int
        BY <1>1 DEF IsSorted
      <3> QED
        BY <3>1
    (* what is over a is over c *)
    <2>2. \A x \in M : /\ Under(below, l, x, a) => Under(below, l, x, c)
                       /\ Under(below, r, x, a) => Under(below, r, x, c)
      <3>1. \A x \in M : l[x] # NULL => l[x] \in N
        BY <1>1 DEF IsTree
      <3>2. \A x \in M : r[x] # NULL => r[x] \in N
        BY <1>1 DEF IsTree
      <3>3. \A x \in N : <<x, a>> \in below => <<x, c>> \in below
        BY <1>1, <1>2 DEF IsTree
      <3> QED
        BY <3>1, <3>2, <3>3 DEF Under
    <2>3. ASSUME NEW x \in M, NEW y \in M, Under(below, l2, x, y)
          PROVE  d2[y] < d2[x]
      <3>1. CASE x = a
        <4>1. Under(below, l, c, y) /\ y # a
          BY <1>1, <1>6, <1>9, <2>3, <3>1 DEF Under, IsTree
        <4> QED
          BY <1>1, <1>9, <3>1, <4>1 DEF IsSorted
      <3>2. CASE x # a /\ y # a
        BY <1>1, <1>9, <2>3, <3>2 DEF IsSorted, Under
      <3>3. CASE x # a /\ y = a
        <4>1. Under(below, l, x, c)
          BY <1>9, <2>2, <2>3, <3>3 DEF Under
        <4> QED
          BY <1>1, <1>9, <3>3, <4>1 DEF IsSorted
      <3> QED
        BY <3>1, <3>2, <3>3
    <2>4. ASSUME NEW x \in M, NEW y \in M, Under(below, r2, x, y)
          PROVE  d2[x] < d2[y]
      <3>1. CASE x = a
        <4>1. Under(below, r, c, y) /\ y # a
          BY <1>1, <1>6, <1>9, <2>4, <3>1 DEF Under, IsTree
        <4> QED
          BY <1>1, <1>9, <3>1, <4>1 DEF IsSorted
      <3>2. CASE x # a /\ y # a
        BY <1>1, <1>9, <2>4, <3>2 DEF IsSorted, Under
      <3>3. CASE x # a /\ y = a
        <4>1. Under(below, r, x, c)
          BY <1>9, <2>2, <2>4, <3>3 DEF Under
        <4> QED
          BY <1>1, <1>9, <3>3, <4>1 DEF IsSorted
      <3> QED
        BY <3>1, <3>2, <3>3
    <2>5. \A x, y \in M : d2[x] = d2[y] => x = y
      BY <1>1, <1>9 DEF IsSorted
    <2> QED
      BY <2>1, <2>3, <2>4, <2>5 DEF IsSorted
  <1> QED
    BY <1>4, <1>5, <1>7, <1>11, <1>12, <1>13 DEF Orders

-----------------------------------------------------------------------------
(* The tree in memory between two stores, in the terms of UserList: a pointer *)
(* to a freed node is NULL, and a node that takes over its child's contents   *)
(* still counts as what it was (Contents of AvlTree).                         *)

Present(p) == IF p \in Linked THEN p ELSE NULL

Top    == Present(root)
Lefts  == [n \in Linked |-> Present(Contents(n).left)]
Rights == [n \in Linked |-> Present(Contents(n).right)]
Datas  == [n \in Linked |-> Contents(n).data]

TreeSorted(below) == Orders(Linked, Top, Lefts, Rights, Datas, below)

SameTree == UNCHANGED <<Linked, Top, Lefts, Rights, Datas>>

KeysMatch == keys = {Datas[n] : n \in Linked}

(* The writer in its call: "path" is the way from the root to n, by the links *)
(* the descent for key takes.                                                 *)

Last == path[Len(path)]

Slot(k, m) == IF k < m.data THEN m.left ELSE m.right

WayTo(n) ==
  /\ \A i \in DOMAIN path : path[i] \in Linked /\ memory[path[i]].data # key
  /\ \A i \in 1 .. Len(path) - 1 : Slot(key, memory[path[i]]) = path[i + 1]
  /\ IF path = <<>> THEN root = n ELSE root = path[1] /\ Slot(key, memory[Last]) = n

(* A leaf has been freed, and its parent, or the root, still points to it. *)
Unhooked == wpc = "link" /\ at \in Node \ allocated

Pointers ==
  /\ \A n \in Linked :
       /\ \/ memory[n].left \in Linked \cup {NULL}
          \/ Unhooked /\ memory[n].left = at /\ path # <<>> /\ n = Last /\ Before(n)
       /\ \/ memory[n].right \in Linked \cup {NULL}
          \/ Unhooked /\ memory[n].right = at /\ path # <<>> /\ n = Last /\ ~Before(n)
  /\ \/ root \in Linked \cup {NULL}
     \/ Unhooked /\ root = at /\ path = <<>>

(* A node is taking over its child, as far as the members have been copied. *)
Taking ==
  /\ op = "remove" /\ at \in allocated /\ child \in allocated /\ child # at
  /\ \A i \in DOMAIN path : path[i] # at
  /\ memory[at].data = memory[child].data
  /\ memory[child].data # key
  /\ wpc \in {"copy right", "free"} => memory[at].left = memory[child].left
  /\ wpc = "free" => memory[at].right = memory[child].right

(* What private_avl_add or private_avl_remove returns to its caller: the node  *)
(* it was called with, a new leaf, or NULL for a freed one.                    *)
Returning ==
  \/ at \in Linked /\ child = at
  \/ /\ at = NULL /\ op = "add" /\ child \in allocated
     /\ memory[child].left = NULL /\ memory[child].right = NULL /\ memory[child].data = key
  \/ at \in Node \ allocated /\ op = "remove" /\ child = NULL

(* The node new_avl_node is making, as far as its links have been cleared. *)
Making ==
  /\ op = "add" /\ at = NULL /\ child \in allocated /\ memory[child].data = key
  /\ wpc = "clear right" => memory[child].left = NULL

Position ==
  /\ wpc # "idle" => WayTo(at)
  /\ Building => Making
  /\ Copying => Taking
  /\ wpc = "height" => at \in Linked
  /\ wpc = "link" => Returning

Shape == Pointers /\ Position /\ KeysMatch

(* What a call of avl_add has done to keys before it is back at the root *)
Added == op = "add" /\ (wpc = "height" \/ (wpc = "link" /\ at # NULL)) => key \in keys

(* The nodes the descent has not left behind *)
Beyond(below, n) == at # NULL /\ <<at, n>> \in below

(* The descent has left behind neither its key nor a key between its own and   *)
(* one that is ahead of it, or that of the node it came from: where it ends is *)
(* where the key belongs.                                                      *)
Falling == wpc = "descend" \/ Building \/ (wpc = "link" /\ at = NULL)

Descent(below) ==
  Falling =>
   \A n \in Linked : ~Beyond(below, n) =>
     /\ Datas[n] # key
     /\ \A y \in Linked : Beyond(below, y) \/ (path # <<>> /\ y = Last) =>
           ~Inside(Datas[n], key, Datas[y])

(* The nodes a lookup can still get to *)
Ahead(below, n) ==
  \/ rpc = "compare" /\ cursor # NULL /\ <<cursor, n>> \in below
  \/ rpc = "left" /\ Under(below, Lefts, cursor, n)
  \/ rpc = "right" /\ Under(below, Rights, cursor, n)

(* Unless a removal has overlapped it, or the key was not there at some moment *)
(* of it, the lookup still has its key ahead.                                  *)
Search(below) ==
  rpc \in {"compare", "left", "right"} /\ ~raced /\ NULL \notin seen =>
    \E n \in Linked : Datas[n] = sought /\ Ahead(below, n)

(* What Overlap keeps of Reading, whoever has made the step *)
Recorded ==
  /\ rpc # "done" => Current \subseteq seen /\ (RemovalUnderWay => raced) /\ (raced => NULL \in seen)
  /\ rpc # "done" /\ raced => Made \subseteq seen

(* The reader is on a node of the tree unless a removal has overlapped the     *)
(* lookup; even then, what it will find in the node it has stopped at is one   *)
(* of the results the lookup may have.                                         *)
Reading ==
  /\ Recorded
  /\ rpc = "done" => result \in seen
  /\ rpc = "fault" => raced
  /\ rpc \notin {"done", "fault"} /\ ~raced => cursor \in Linked \cup {NULL}
  /\ rpc = "found" /\ cursor \in allocated => DataOf(cursor) \in seen

(* The inductive invariant.  The order of the tree is the relation "below";   *)
(* which one it is is not computed, so that no induction on trees is needed.  *)
ListInv ==
  /\ Inv /\ Shape /\ Added /\ Reading
  /\ \E below : TreeSorted(below) /\ Descent(below) /\ Search(below)

-----------------------------------------------------------------------------
(* The tree in memory *)

(* While no node is being copied *)
LEMMA PlainTree ==
  ASSUME ~Copying
  PROVE  \A n \in Linked : /\ Lefts[n] = Present(memory[n].left)
                           /\ Rights[n] = Present(memory[n].right)
                           /\ Datas[n] = memory[n].data
  BY DEF Lefts, Rights, Datas, Contents

(* The nodes of the tree have been allocated, all but a leaf in the caller's hand. *)
LEMMA LinkedNodes ==
  ASSUME TypeOK
  PROVE  /\ Linked \subseteq allocated /\ Linked \subseteq Node /\ NULL \notin Linked
         /\ op # "add" \/ at # NULL \/ ~(Building \/ wpc = "link") => Linked = allocated
         /\ \A n \in Linked : memory[n] \in avl_node
         /\ Datas \in [Linked -> Key]
  <1>1. Linked \subseteq allocated /\ Linked \subseteq Node /\ NULL \notin Linked
    BY NodeAssumption DEF Linked, TypeOK, TreeTypeOK, Building
  <1>2. \A n \in Linked : memory[n] \in avl_node
    BY <1>1 DEF TypeOK, TreeTypeOK
  <1>3. \A n \in Linked : Contents(n).data \in Key
    BY <1>2 DEF Contents, TypeOK, WriterTypeOK, avl_node
  <1> QED
    BY <1>1, <1>2, <1>3 DEF Linked, Datas, Building

(* If neither the nodes nor the links and keys in them change, the tree does not. *)
LEMMA StaysTree ==
  ASSUME ~Copying, ~Copying', Linked' = Linked, root' = root \/ Present(root)' = Present(root),
         \A n \in Linked : /\ Present(memory[n].left)' = Present(memory[n].left)
                           /\ Present(memory[n].right)' = Present(memory[n].right)
                           /\ memory'[n].data = memory[n].data
  PROVE  SameTree
  BY DEF SameTree, Top, Present, Lefts, Rights, Datas, Contents

(* A call begins at the root. *)
LEMMA CallKeeps ==
  ASSUME TypeOK, Shape, NEW o \in {"add", "remove"}, NEW k \in Key, Call(o, k)
  PROVE  Shape' /\ SameTree
  <1>1. wpc = "idle" /\ wpc' = "descend" /\ op' = o /\ key' = k /\ at' = root /\ child' = NULL
        /\ path' = <<>> /\ UNCHANGED <<memory, allocated, root, keys>>
    BY DEF Call, treeVars
  <1>2. Linked = allocated /\ Linked' = Linked /\ ~Copying /\ ~Copying' /\ ~Unhooked
    BY <1>1 DEF Linked, Copying, Unhooked, Building
  <1>3. SameTree
    BY <1>1, <1>2, StaysTree DEF Present
  <1>4. Pointers'
    BY <1>1, <1>2 DEF Shape, Pointers
  <1>5. Position'
    BY <1>1, <1>2 DEF Position, WayTo, Building
  <1>6. KeysMatch'
    BY <1>1, <1>3 DEF Shape, KeysMatch, SameTree
  <1> QED
    BY <1>3, <1>4, <1>5, <1>6 DEF Shape

(* The descent is on the tree. *)
LEMMA AtLinked ==
  ASSUME TypeOK, Shape, wpc = "descend"
  PROVE  at \in Linked \cup {NULL}
  <1>1. ~Unhooked /\ WayTo(at) /\ Pointers
    BY DEF Unhooked, Shape, Position, Building
  <1>2. CASE path = <<>>
    BY <1>1, <1>2 DEF WayTo, Pointers
  <1>3. CASE path # <<>>
    <2>1. Len(path) \in DOMAIN path
      BY <1>3 DEF TypeOK, WriterTypeOK
    <2> QED
      BY <1>1, <1>3, <2>1 DEF WayTo, Pointers, Slot, Last
  <1> QED
    BY <1>2, <1>3

(* The descent goes one node on. *)
LEMMA DescendKeeps ==
  ASSUME TypeOK, Shape, Descend
  PROVE  Shape' /\ SameTree
  <1>1. wpc = "descend" /\ wpc' = "descend" /\ at # NULL /\ memory[at].data # key
        /\ at' = Slot(key, memory[at]) /\ path' = Append(path, at)
        /\ UNCHANGED <<memory, allocated, root, op, key, child, keys>>
    BY DEF Descend, treeVars, Slot, Before
  <1>2. Linked = allocated /\ Linked' = Linked /\ ~Copying /\ ~Copying' /\ ~Unhooked
    BY <1>1 DEF Linked, Copying, Unhooked, Building
  <1>3. SameTree
    BY <1>1, <1>2, StaysTree DEF Present
  <1>4. Pointers'
    BY <1>1, <1>2 DEF Shape, Pointers
  <1>5. Position'
    <2>1. WayTo(at) /\ at \in Linked /\ path \in Seq(Node)
      BY <1>1, AtLinked DEF Shape, Position, TypeOK, WriterTypeOK, Building
    <2>2. /\ DOMAIN path' = 1 .. Len(path) + 1 /\ Len(path') = Len(path) + 1 /\ path' # <<>>
          /\ \A i \in DOMAIN path : path'[i] = path[i] /\ path'[Len(path) + 1] = at
          /\ path'[Len(path) + 1] = at
      BY <1>1, <2>1
    <2>4. \A i \in DOMAIN path' : path'[i] \in Linked' /\ memory'[path'[i]].data # key'
      BY <1>1, <1>2, <2>1, <2>2 DEF WayTo
    <2>5. \A i \in 1 .. Len(path') - 1 : Slot(key', memory'[path'[i]]) = path'[i + 1]
      <3>1. TAKE i \in 1 .. Len(path') - 1
      <3>2. i \in DOMAIN path /\ path'[i] = path[i]
        BY <2>1, <2>2
      <3>3. CASE i = Len(path)
        <4>1. Slot(key, memory[path[i]]) = at
          BY <2>1, <3>2, <3>3 DEF WayTo, Last
        <4> QED
          BY <1>1, <2>2, <3>2, <3>3, <4>1
      <3>4. CASE i < Len(path)
        <4>1. Slot(key, memory[path[i]]) = path[i + 1] /\ path'[i + 1] = path[i + 1]
          BY <2>1, <2>2, <3>2, <3>4 DEF WayTo
        <4> QED
          BY <1>1, <3>2, <4>1
      <3> QED
        BY <2>1, <2>2, <3>2, <3>3, <3>4
    <2>6. root' = path'[1] /\ Slot(key', memory'[Last']) = at'
      <3>1. Last' = at
        BY <2>2 DEF Last
      <3>3. root = path'[1]
        <4>1. CASE path = <<>>
          BY <2>1, <2>2, <4>1 DEF WayTo
        <4>2. CASE path # <<>>
          BY <2>1, <2>2, <4>2 DEF WayTo
        <4> QED
          BY <4>1, <4>2
      <3> QED
        BY <1>1, <3>1, <3>3
    <2>7. WayTo(at)'
      BY <2>2, <2>4, <2>5, <2>6 DEF WayTo
    <2> QED
      BY <1>1, <1>2, <2>7 DEF Position, Building
  <1>6. KeysMatch'
    BY <1>1, <1>3 DEF Shape, KeysMatch, SameTree
  <1> QED
    BY <1>3, <1>4, <1>5, <1>6 DEF Shape

(* the steps from descend to idle or height that change no node *)
LEMMA GivesUpKeeps ==
  ASSUME TypeOK, Shape, Refuse \/ RemoveNothing
  PROVE  Shape' /\ SameTree
  <1>1. wpc = "descend" /\ wpc' \in {"idle", "height"} /\ (wpc' = "height" => at # NULL)
        /\ UNCHANGED <<memory, allocated, root, op, key, at, child, path, keys>>
    BY DEF Refuse, RemoveNothing, Removing, Return, treeVars
  <1>2. Linked = allocated /\ Linked' = Linked /\ ~Copying /\ ~Copying' /\ ~Unhooked
    BY <1>1 DEF Linked, Copying, Unhooked, Building
  <1>3. SameTree
    BY <1>1, <1>2, StaysTree DEF Present
  <1>4. Pointers'
    BY <1>1, <1>2 DEF Shape, Pointers
  <1>5. Position'
    BY <1>1, <1>2, AtLinked DEF Position, WayTo, Shape, Last, Building
  <1>6. KeysMatch'
    BY <1>1, <1>3 DEF Shape, KeysMatch, SameTree
  <1> QED
    BY <1>3, <1>4, <1>5, <1>6 DEF Shape

(* The way back is as long as the nodes on it keep their keys and links. *)
LEMMA WayStays ==
  ASSUME TypeOK, WayTo(at), UNCHANGED <<path, root, key, at>>,
         \A i \in DOMAIN path :
           /\ path[i] \in Linked' /\ memory'[path[i]].data = memory[path[i]].data
           /\ memory'[path[i]].left = memory[path[i]].left
           /\ memory'[path[i]].right = memory[path[i]].right
  PROVE  WayTo(at)'
  <1>1. path \in Seq(Node)
    BY DEF TypeOK, WriterTypeOK
  <1>2. \A i \in DOMAIN path : Slot(key, memory'[path[i]]) = Slot(key, memory[path[i]])
    BY DEF Slot
  <1>3. \A i \in 1 .. Len(path) - 1 : Slot(key, memory'[path[i]]) = path[i + 1]
    BY <1>1, <1>2 DEF WayTo
  <1>4. path # <<>> => Slot(key, memory'[Last]) = Slot(key, memory[Last]) /\ Last' = Last
    BY <1>1, <1>2 DEF Last
  <1> QED
    BY <1>3, <1>4 DEF WayTo

(* A new node is allocated but not yet linked. *)
LEMMA NewNodeKeeps ==
  ASSUME TypeOK, Shape, NewNode
  PROVE  Shape' /\ SameTree
  <1>1. PICK n \in Node \ allocated :
          /\ allocated' = allocated \cup {n}
          /\ memory' = [memory EXCEPT ![n].height = 1, ![n].data = key]
          /\ child' = n
    BY DEF NewNode
  <1>2. wpc = "descend" /\ wpc' = "new record" /\ op = "add" /\ at = NULL
        /\ UNCHANGED <<root, op, key, at, path, keys>>
    BY DEF NewNode
  <1>3. Linked = allocated /\ Linked' = Linked /\ ~Copying /\ ~Copying' /\ ~Unhooked /\ ~Unhooked'
    BY <1>1, <1>2 DEF Linked, Copying, Unhooked, Building
  <1>4. \A m \in Linked : memory'[m] = memory[m]
    <2>1. Linked \subseteq Node /\ n \notin Linked /\ memory \in [Node -> avl_node]
      BY <1>1, <1>3, LinkedNodes DEF TypeOK, TreeTypeOK
    <2> QED
      BY <1>1, <2>1
  <1>5. memory'[n].data = key
    BY <1>1 DEF TypeOK, TreeTypeOK, avl_node
  <1>6. SameTree
    BY <1>2, <1>3, <1>4, StaysTree DEF Present
  <1>7. Pointers'
    BY <1>2, <1>3, <1>4 DEF Shape, Pointers
  <1>8. WayTo(at)'
    <2>1. WayTo(at)
      BY <1>2 DEF Shape, Position, Building
    <2>2. \A i \in DOMAIN path : path[i] \in Linked' /\ memory'[path[i]] = memory[path[i]]
      BY <1>3, <1>4, <2>1 DEF WayTo
    <2> QED
      BY <1>2, <2>1, <2>2, WayStays
  <1>9. Making'
    BY <1>1, <1>2, <1>5 DEF Making
  <1>10. Position'
    BY <1>2, <1>3, <1>8, <1>9 DEF Position, Building
  <1>11. KeysMatch'
    BY <1>2, <1>6 DEF Shape, KeysMatch, SameTree
  <1> QED
    BY <1>6, <1>7, <1>10, <1>11 DEF Shape

(* What is known of the node new_avl_node is making *)
LEMMA NodeInHand ==
  ASSUME TypeOK, Shape, Building
  PROVE  /\ op = "add" /\ at = NULL /\ child \in allocated /\ child \in Node /\ child # NULL
         /\ memory[child].data = key /\ Linked = allocated \ {child} /\ child \notin Linked
         /\ ~Copying /\ ~Unhooked /\ WayTo(at)
  <1>1. op = "add" /\ at = NULL /\ child \in allocated /\ memory[child].data = key /\ WayTo(at)
        /\ ~Copying /\ ~Unhooked
    BY DEF Shape, Position, Making, Copying, Unhooked, Building
  <1> QED
    BY <1>1, NodeAssumption DEF Linked, TypeOK, TreeTypeOK, Building

(* The record and the links of the new node are set. *)
LEMMA BuildKeeps ==
  ASSUME TypeOK, Shape, MallocRecord \/ FillRecord \/ ClearLeft \/ ClearRight
  PROVE  Shape' /\ SameTree
  <1>1. Building /\ (Building' \/ wpc' = "link") /\ UNCHANGED <<allocated, root, op, key, at, child, path, keys>>
    BY DEF MallocRecord, FillRecord, ClearLeft, ClearRight, treeVars, Building
  <1>2. PICK c \in Node : c = child
    BY <1>1, NodeInHand
  <1>3. /\ op = "add" /\ at = NULL /\ c \in allocated /\ memory[c].data = key
        /\ Linked = allocated \ {c} /\ c \notin Linked /\ ~Copying /\ ~Unhooked /\ WayTo(at)
    BY <1>1, <1>2, NodeInHand
  <1>4. Linked' = Linked /\ ~Copying' /\ ~Unhooked'
    BY <1>1, <1>2, <1>3, NodeAssumption DEF Linked, Copying, Unhooked, Building
  <1>5. \/ memory' = memory
        \/ wpc' = "clear right" /\ memory' = [memory EXCEPT ![c].left = NULL]
        \/ wpc' = "link" /\ memory' = [memory EXCEPT ![c].right = NULL]
    BY <1>2 DEF MallocRecord, FillRecord, ClearLeft, ClearRight, treeVars
  <1>6. memory \in [Node -> avl_node] /\ Linked \subseteq Node
    BY LinkedNodes DEF TypeOK, TreeTypeOK
  <1>7. \A m \in Linked : memory'[m] = memory[m]
    BY <1>3, <1>5, <1>6
  <1>8. SameTree
    BY <1>1, <1>3, <1>4, <1>7, StaysTree DEF Present
  <1>9. Pointers'
    BY <1>1, <1>3, <1>4, <1>7 DEF Shape, Pointers
  <1>10. WayTo(at)'
    <2>1. \A i \in DOMAIN path : path[i] \in Linked' /\ memory'[path[i]] = memory[path[i]]
      BY <1>3, <1>4, <1>7 DEF WayTo
    <2> QED
      BY <1>1, <1>3, <2>1, WayStays
  <1>11. memory'[c].data = key
    BY <1>3, <1>5, <1>6 DEF avl_node
  <1>12. /\ wpc' = "clear right" => memory'[c].left = NULL
         /\ wpc' = "link" => memory'[c].left = NULL /\ memory'[c].right = NULL
    <2>1. CASE ClearLeft
      BY <1>6, <2>1, <1>2 DEF ClearLeft, avl_node
    <2>2. CASE ClearRight
      <3>1. memory[c].left = NULL
        BY <1>2, <2>2 DEF ClearRight, Shape, Position, Making, Building
      <3> QED
        BY <1>2, <1>6, <2>2, <3>1 DEF ClearRight, avl_node
    <2> QED
      BY <2>1, <2>2 DEF MallocRecord, FillRecord
  <1>13. Position'
    <2>1. Building' => Making'
      BY <1>1, <1>2, <1>3, <1>11, <1>12 DEF Making
    <2>2. wpc' = "link" => Returning'
      BY <1>1, <1>2, <1>3, <1>11, <1>12 DEF Returning
    <2> QED
      BY <1>1, <1>4, <1>10, <2>1, <2>2 DEF Position, Building
  <1>14. KeysMatch'
    BY <1>1, <1>8 DEF Shape, KeysMatch, SameTree
  <1> QED
    BY <1>8, <1>9, <1>13, <1>14 DEF Shape

(* A leaf is freed, and its parent's pointer is left. *)
LEMMA RemoveLeafKeeps ==
  ASSUME TypeOK, Shape, NEW below, TreeSorted(below), RemoveLeaf
  PROVE  /\ Shape' /\ TreeSorted(below)'
         /\ at \in Linked /\ Datas[at] = key /\ Lefts[at] = NULL /\ Rights[at] = NULL
         /\ Linked' = Linked \ {at} /\ Top' = (IF Top = at THEN NULL ELSE Top)
         /\ Lefts' = [x \in Linked \ {at} |-> IF Lefts[x] = at THEN NULL ELSE Lefts[x]]
         /\ Rights' = [x \in Linked \ {at} |-> IF Rights[x] = at THEN NULL ELSE Rights[x]]
         /\ Datas' = [x \in Linked \ {at} |-> Datas[x]]
  <1>1. wpc = "descend" /\ op = "remove" /\ at # NULL /\ memory[at].data = key
        /\ memory[at].left = NULL /\ memory[at].right = NULL
        /\ allocated' = allocated \ {at} /\ keys' = keys \ {key}
        /\ child' = NULL /\ wpc' = "link"
        /\ UNCHANGED <<memory, root, op, key, at, path>>
    BY DEF RemoveLeaf, Removing
  <1>2. at \in Linked /\ Linked = allocated /\ Linked' = Linked \ {at}
        /\ ~Copying /\ ~Copying' /\ ~Unhooked /\ Unhooked'
    BY <1>1, AtLinked, LinkedNodes DEF Linked, Copying, Unhooked, Building
  <1>3. NULL \notin Linked /\ Linked \subseteq Node
    BY LinkedNodes
  <1>4. \A n \in Linked : /\ Lefts[n] = memory[n].left /\ Rights[n] = memory[n].right
                          /\ Datas[n] = memory[n].data
    BY <1>2, PlainTree DEF Shape, Pointers, Present
  <1>5. Lefts[at] = NULL /\ Rights[at] = NULL /\ Datas[at] = key
    BY <1>1, <1>2, <1>4
  <1>6. /\ Top' = (IF Top = at THEN NULL ELSE Top)
        /\ Lefts' = [x \in Linked \ {at} |-> IF Lefts[x] = at THEN NULL ELSE Lefts[x]]
        /\ Rights' = [x \in Linked \ {at} |-> IF Rights[x] = at THEN NULL ELSE Rights[x]]
        /\ Datas' = [x \in Linked \ {at} |-> Datas[x]]
    <2>1. Top' = (IF Top = at THEN NULL ELSE Top)
      BY <1>1, <1>2, <1>3 DEF Top, Present
    <2>2. \A p : Present(p)' = IF p = at THEN NULL ELSE Present(p)
      BY <1>1, <1>2, <1>3 DEF Present
    <2>3. /\ \A n \in Linked \ {at} : Contents(n)' = memory[n]
          /\ \A n \in Linked : Contents(n) = memory[n]
      BY <1>1, <1>2 DEF Contents
    <2>4. /\ \A n \in Linked : Lefts[n] = Present(memory[n].left)
          /\ \A n \in Linked : Rights[n] = Present(memory[n].right)
      BY <2>3 DEF Lefts, Rights
    <2>5. \A p : (IF Present(p) = at THEN NULL ELSE Present(p)) = IF p = at THEN NULL ELSE Present(p)
      BY <1>2, <1>3 DEF Present
    <2>6. Lefts' = [x \in Linked \ {at} |-> IF Lefts[x] = at THEN NULL ELSE Lefts[x]]
      <3>1. Lefts' = [x \in Linked \ {at} |-> Present(memory[x].left)']
        BY <1>1, <1>2, <2>3 DEF Lefts, Present
      <3> QED
        BY <1>1, <2>2, <2>4, <2>5, <3>1 DEF Present
    <2>7. Rights' = [x \in Linked \ {at} |-> IF Rights[x] = at THEN NULL ELSE Rights[x]]
      <3>1. Rights' = [x \in Linked \ {at} |-> Present(memory[x].right)']
        BY <1>1, <1>2, <2>3 DEF Rights, Present
      <3> QED
        BY <1>1, <2>2, <2>4, <2>5, <3>1 DEF Present
    <2>8. Datas' = [x \in Linked \ {at} |-> Datas[x]]
      BY <1>2, <2>3 DEF Datas
    <2> QED
      BY <2>1, <2>6, <2>7, <2>8
  <1>7. TreeSorted(below)'
    <2>1. PICK a : a = at
      OBVIOUS
    <2>2. Orders(Linked \ {a}, Top', Lefts', Rights', Datas', below)
      BY <1>2, <1>3, <1>5, <1>6, <2>1, Detach DEF TreeSorted
    <2> QED
      BY <1>2, <2>1, <2>2 DEF TreeSorted
  <1>8. WayTo(at) /\ path \in Seq(Node)
    BY <1>1 DEF Shape, Position, TypeOK, WriterTypeOK, Building
  <1>9. WayTo(at)'
    BY <1>1, <1>2, <1>8, WayStays DEF WayTo
  <1>10. Position'
    BY <1>1, <1>2, <1>3, <1>9 DEF Position, Returning, Building
  <1>11. Pointers'
    <2>1. OneParent(Linked, Lefts, Rights) /\ IsTree(Linked, Top, Lefts, Rights, below)
      BY DEF TreeSorted, Orders
    <2>2. root = at => path = <<>>
      BY <1>1, <1>8 DEF WayTo
    <2>3. ASSUME NEW n \in Linked \ {at}, Lefts[n] = at \/ Rights[n] = at
          PROVE  path # <<>>
      <3>1. SUFFICES ASSUME path = <<>> PROVE FALSE
        OBVIOUS
      <3>2. Top = at
        BY <1>2, <1>8, <3>1 DEF Top, Present, WayTo
      <3>3. <<at, n>> \in below
        BY <2>1, <3>2 DEF IsTree
      <3> QED
        BY <1>2, <1>5, <2>1, <2>3, <3>3, ZenonT(60) DEF IsTree, Under
    <2>4. path # <<>> => Last \in Linked /\ Slot(key, memory[Last]) = at
      BY <1>8 DEF WayTo, Last
    <2>5. ASSUME NEW n \in Linked \ {at}
          PROVE  /\ memory[n].left \in (Linked \ {at}) \cup {NULL}
                    \/ (memory[n].left = at /\ path # <<>> /\ n = Last /\ Before(n))
                 /\ memory[n].right \in (Linked \ {at}) \cup {NULL}
                    \/ (memory[n].right = at /\ path # <<>> /\ n = Last /\ ~Before(n))
      <3>1. memory[n].left \in Linked \cup {NULL} /\ memory[n].right \in Linked \cup {NULL}
        BY <1>2 DEF Shape, Pointers
      <3>2. CASE memory[n].left = at
        <4>1. path # <<>> /\ Lefts[n] = at
          BY <1>4, <2>3, <3>2
        <4>2. n = Last /\ Before(Last)
          BY <1>2, <1>3, <1>4, <2>1, <2>4, <4>1 DEF OneParent, Slot, Before
        <4>3. memory[n].right # at
          BY <1>2, <1>3, <1>4, <2>1, <4>1 DEF OneParent
        <4> QED
          BY <3>1, <3>2, <4>1, <4>2, <4>3
      <3>3. CASE memory[n].right = at
        <4>1. path # <<>> /\ Rights[n] = at
          BY <1>4, <2>3, <3>3
        <4>2. n = Last /\ ~Before(Last)
          BY <1>2, <1>3, <1>4, <2>1, <2>4, <4>1 DEF OneParent, Slot, Before
        <4>3. memory[n].left # at
          BY <1>2, <1>3, <1>4, <2>1, <4>1 DEF OneParent
        <4> QED
          BY <3>1, <3>3, <4>1, <4>2, <4>3
      <3> QED
        BY <3>1, <3>2, <3>3
    <2>6. root \in Linked \cup {NULL}
      BY <1>2 DEF Shape, Pointers
    <2>7. Last' = Last /\ \A n : Before(n)' = Before(n)
      BY <1>1 DEF Last, Before
    <2> QED
      BY <1>1, <1>2, <2>2, <2>5, <2>6, <2>7 DEF Pointers
  <1>12. KeysMatch'
    <2>1. keys = {Datas[n] : n \in Linked} /\ \A x, y \in Linked : Datas[x] = Datas[y] => x = y
      BY DEF Shape, KeysMatch, TreeSorted, Orders, IsSorted
    <2>2. {Datas'[n] : n \in Linked'} = {Datas[n] : n \in Linked \ {at}}
      BY <1>2, <1>6
    <2>3. {Datas[n] : n \in Linked \ {at}} = {Datas[n] : n \in Linked} \ {key}
      BY <1>2, <1>5, <2>1
    <2> QED
      BY <1>1, <2>1, <2>2, <2>3 DEF KeysMatch
  <1> QED
    BY <1>2, <1>5, <1>6, <1>7, <1>10, <1>11, <1>12 DEF Shape

(* The first store of a node that takes over its child: it counts as before. *)
LEMMA CopyDataKeeps ==
  ASSUME TypeOK, Shape, NEW below, TreeSorted(below), CopyData
  PROVE  Shape' /\ SameTree
  <1>1. wpc = "descend" /\ op = "remove" /\ at # NULL /\ memory[at].data = key
        /\ wpc' = "copy left" /\ UNCHANGED <<allocated, root, op, key, at, path, keys>>
    BY DEF CopyData, Removing
  <1>2. PICK c : c = child'
    OBVIOUS
  <1>3. \/ c = memory[at].left /\ memory[at].left # NULL /\ memory[at].right = NULL
        \/ c = memory[at].right /\ memory[at].right # NULL /\ memory[at].left = NULL
    BY <1>2 DEF CopyData
  <1>4. at \in Linked /\ Linked = allocated /\ Linked' = Linked
        /\ ~Copying /\ Copying' /\ ~Unhooked /\ ~Unhooked'
    BY <1>1, AtLinked, LinkedNodes DEF Linked, Copying, Unhooked, Building
  <1>5. NULL \notin Linked /\ Linked \subseteq Node /\ \A n \in Linked : memory[n] \in avl_node
    BY LinkedNodes
  <1>6. \A n \in Linked : /\ Lefts[n] = memory[n].left /\ Rights[n] = memory[n].right
                          /\ Datas[n] = memory[n].data
    BY <1>4, PlainTree DEF Shape, Pointers, Present
  <1>7. c \in Linked
    BY <1>3, <1>4, <1>5 DEF Shape, Pointers
  <1>8. \/ Lefts[at] = c /\ Rights[at] = NULL /\ memory[c].data < key
        \/ Rights[at] = c /\ Lefts[at] = NULL /\ key < memory[c].data
    <2>1. IsTree(Linked, Top, Lefts, Rights, below) /\ IsSorted(Linked, Lefts, Rights, Datas, below)
      BY DEF TreeSorted, Orders
    <2>2. <<c, c>> \in below /\ c # NULL
      BY <1>5, <1>7, <2>1 DEF IsTree
    <2>3. Datas[at] = key /\ Datas[c] = memory[c].data
      BY <1>1, <1>4, <1>6, <1>7
    <2>4. CASE Lefts[at] = c /\ Rights[at] = NULL
      <3>1. Under(below, Lefts, at, c)
        BY <2>2, <2>4 DEF Under
      <3> QED
        BY <1>4, <1>7, <2>1, <2>3, <2>4, <3>1 DEF IsSorted
    <2>5. CASE Rights[at] = c /\ Lefts[at] = NULL
      <3>1. Under(below, Rights, at, c)
        BY <2>2, <2>5 DEF Under
      <3> QED
        BY <1>4, <1>7, <2>1, <2>3, <2>5, <3>1 DEF IsSorted
    <2> QED
      BY <1>3, <1>4, <1>6, <2>4, <2>5
  <1>9. memory[c].data \in Int /\ key \in Int /\ memory[c].data # key /\ c # at
    <2>1. memory[c].data \in Int /\ key \in Int
      BY <1>5, <1>7, KeyAssumption DEF avl_node, TypeOK, WriterTypeOK
    <2>2. \A i, j \in Int : i < j \/ j < i => i # j
      OBVIOUS
    <2>3. memory[c].data # key
      BY <1>8, <2>1, <2>2
    <2> QED
      BY <1>1, <2>1, <2>3
  <1>10. memory' = [memory EXCEPT ![at].height = memory[c].height, ![at].data = memory[c].data]
    BY <1>2 DEF CopyData
  <1>11. /\ \A n \in Linked \ {at} : memory'[n] = memory[n]
         /\ \A n \in Linked : memory'[n].left = memory[n].left /\ memory'[n].right = memory[n].right
         /\ memory'[at].data = memory[c].data
    <2>1. memory \in [Node -> avl_node] /\ at \in Node
      BY <1>4, <1>5 DEF TypeOK, TreeTypeOK
    <2> QED
      BY <1>5, <1>10, <2>1 DEF avl_node
  <1>12. SameTree
    <2>1. \A p : Present(p)' = Present(p)
      BY <1>4 DEF Present
    <2>2. \A n \in Linked \ {at} : Contents(n)' = Contents(n) /\ Contents(n) = memory[n]
      BY <1>1, <1>4, <1>11 DEF Contents
    <2>3. Contents(at) = memory[at] /\ Contents(at)'.data = key
      BY <1>1, <1>4 DEF Contents
    <2>4. Contents(at)'.left = memory[at].left /\ Contents(at)'.right = memory[at].right
      <3>1. /\ Contents(at)'.left = IF memory'[c].data < key THEN c ELSE NULL
            /\ Contents(at)'.right = IF memory'[c].data > key THEN c ELSE NULL
        BY <1>1, <1>2, <1>4 DEF Contents
      <3>2. memory'[c].data = memory[c].data
        BY <1>7, <1>9, <1>11
      <3> QED
        BY <1>4, <1>6, <1>8, <1>9, <3>1, <3>2
    <2>5. \A n \in Linked : /\ Contents(n)'.left = Contents(n).left
                            /\ Contents(n)'.right = Contents(n).right
                            /\ Contents(n)'.data = Contents(n).data
      BY <1>1, <1>4, <2>2, <2>3, <2>4
    <2>6. \A n \in Linked : /\ (Present(Contents(n).left))' = Present(Contents(n).left)
                            /\ (Present(Contents(n).right))' = Present(Contents(n).right)
      BY <1>4, <2>5 DEF Present
    <2>7. Top' = Top
      BY <1>1, <1>4 DEF Top, Present
    <2>8. Lefts' = Lefts
      BY <1>4, <2>6 DEF Lefts
    <2>9. Rights' = Rights
      BY <1>4, <2>6 DEF Rights
    <2>10. Datas' = Datas
      BY <1>4, <2>5 DEF Datas
    <2> QED
      BY <1>4, <2>7, <2>8, <2>9, <2>10 DEF SameTree
  <1>13. Pointers'
    BY <1>1, <1>4, <1>11 DEF Shape, Pointers
  <1>14. WayTo(at) /\ \A i \in DOMAIN path : path[i] # at
    BY <1>1 DEF Shape, Position, WayTo, Building
  <1>15. WayTo(at)'
    BY <1>1, <1>4, <1>11, <1>14, WayStays DEF WayTo
  <1>16. Taking'
    <2>1. op' = "remove" /\ at' \in allocated' /\ c \in allocated' /\ c # at'
      BY <1>1, <1>4, <1>7, <1>9
    <2>2. memory'[at'].data = memory'[c].data /\ memory'[c].data # key'
      BY <1>1, <1>7, <1>9, <1>11
    <2> QED
      BY <1>1, <1>2, <1>14, <2>1, <2>2 DEF Taking
  <1>17. Position'
    BY <1>1, <1>15, <1>16 DEF Position, Building
  <1>18. KeysMatch'
    BY <1>1, <1>12 DEF Shape, KeysMatch, SameTree
  <1> QED
    BY <1>12, <1>13, <1>17, <1>18 DEF Shape

(* The two links are copied, while the node counts as it was. *)
LEMMA CopyLinkKeeps ==
  ASSUME TypeOK, Shape, CopyLeft \/ CopyRight
  PROVE  Shape' /\ SameTree
  <1>1. Copying /\ Copying' /\ UNCHANGED <<allocated, root, op, key, at, child, path, keys>>
    BY DEF CopyLeft, CopyRight, Copying
  <1>2. WayTo(at) /\ Taking /\ ~Unhooked /\ ~Unhooked'
    BY <1>1 DEF Shape, Position, Unhooked, Copying, Building
  <1>3. at \in Linked /\ child \in Linked /\ child # at /\ Linked = allocated /\ Linked' = Linked
    BY <1>1, <1>2 DEF Taking, Linked, Copying, Building
  <1>4. Linked \subseteq Node /\ memory \in [Node -> avl_node]
    BY LinkedNodes DEF TypeOK, TreeTypeOK
  <1>5. /\ \A n \in Linked \ {at} : memory'[n] = memory[n]
        /\ memory'[at].data = memory[at].data
        /\ memory'[at].left \in {memory[at].left, memory[child].left}
        /\ memory'[at].right \in {memory[at].right, memory[child].right}
    BY <1>3, <1>4 DEF CopyLeft, CopyRight, avl_node
  <1>6. memory'[at].left = memory[child].left
    BY <1>2, <1>3, <1>4, ZenonT(60) DEF CopyLeft, CopyRight, avl_node, Taking
  <1>7. wpc' = "free" => memory'[at].right = memory[child].right
    BY <1>3, <1>4 DEF CopyLeft, CopyRight, avl_node
  <1>8. SameTree
    <2>1. \A n \in Linked : /\ Contents(n)'.left = Contents(n).left
                            /\ Contents(n)'.right = Contents(n).right
                            /\ Contents(n)'.data = Contents(n).data
      <3>1. \A n \in Linked \ {at} : Contents(n)' = Contents(n)
        BY <1>1, <1>5 DEF Contents
      <3>2. memory'[child].data = memory[child].data
        BY <1>3, <1>5
      <3>3. /\ Contents(at)'.left = Contents(at).left
            /\ Contents(at)'.right = Contents(at).right
            /\ Contents(at)'.data = Contents(at).data
        BY <1>1, <3>2 DEF Contents
      <3> QED
        BY <1>1, <3>1, <3>3
    <2>2. \A n \in Linked : /\ (Present(Contents(n).left))' = Present(Contents(n).left)
                            /\ (Present(Contents(n).right))' = Present(Contents(n).right)
      BY <1>3, <2>1 DEF Present
    <2>3. Top' = Top
      BY <1>1, <1>3 DEF Top, Present
    <2>4. Lefts' = Lefts
      BY <1>3, <2>2 DEF Lefts
    <2>5. Rights' = Rights
      BY <1>3, <2>2 DEF Rights
    <2>6. Datas' = Datas
      BY <1>3, <2>1 DEF Datas
    <2> QED
      BY <1>3, <2>3, <2>4, <2>5, <2>6 DEF SameTree
  <1>9. Pointers'
    <2>1. ASSUME NEW n \in Linked
          PROVE  memory'[n].left \in Linked \cup {NULL} /\ memory'[n].right \in Linked \cup {NULL}
      <3>1. \A m \in Linked : memory[m].left \in Linked \cup {NULL} /\ memory[m].right \in Linked \cup {NULL}
        BY <1>2 DEF Shape, Pointers
      <3> QED
        BY <1>3, <1>5, <3>1
    <2> QED
      BY <1>1, <1>2, <1>3, <2>1 DEF Shape, Pointers
  <1>10. WayTo(at)'
    BY <1>1, <1>2, <1>3, <1>5, WayStays DEF WayTo, Taking
  <1>11. Taking'
    <2>1. memory'[child] = memory[child]
      BY <1>3, <1>5
    <2> QED
      BY <1>1, <1>2, <1>5, <1>6, <1>7, <2>1 DEF Taking
  <1>12. Position'
    BY <1>1, <1>10, <1>11 DEF Position, Copying, Building
  <1>13. KeysMatch'
    BY <1>1, <1>8 DEF Shape, KeysMatch, SameTree
  <1> QED
    BY <1>8, <1>9, <1>12, <1>13 DEF Shape

(* The child is freed: its node leaves the tree, the node above has its place. *)
LEMMA FreeChildKeeps ==
  ASSUME TypeOK, Shape, NEW below, TreeSorted(below), FreeChild
  PROVE  /\ Shape' /\ TreeSorted(below)' /\ root' = root
         /\ at \in Linked /\ child \in Linked /\ child # at /\ Datas[at] = key
         /\ \/ Lefts[at] = child /\ Rights[at] = NULL
            \/ Rights[at] = child /\ Lefts[at] = NULL
         /\ Linked' = Linked \ {child} /\ Top' = Top /\ Top # child
         /\ \A x \in Linked : Lefts[x] = child \/ Rights[x] = child => x = at
         /\ Lefts' = [x \in Linked \ {child} |-> IF x = at THEN Lefts[child] ELSE Lefts[x]]
         /\ Rights' = [x \in Linked \ {child} |-> IF x = at THEN Rights[child] ELSE Rights[x]]
         /\ Datas' = [x \in Linked \ {child} |-> IF x = at THEN Datas[child] ELSE Datas[x]]
  <1>1. wpc = "free" /\ wpc' = "height" /\ allocated' = allocated \ {child} /\ keys' = keys \ {key}
        /\ UNCHANGED <<memory, root, op, key, at, child, path>>
    BY DEF FreeChild
  <1>2. Copying /\ ~Copying' /\ ~Unhooked /\ ~Unhooked'
    BY <1>1 DEF Copying, Unhooked
  <1>3. WayTo(at) /\ Taking
    BY <1>1, <1>2 DEF Shape, Position, Building
  <1>4. at \in Linked /\ child \in Linked /\ child # at
        /\ Linked = allocated /\ Linked' = Linked \ {child}
    BY <1>1, <1>3 DEF Taking, Linked, Building
  <1>5. NULL \notin Linked /\ Linked \subseteq Node /\ \A n \in Linked : memory[n] \in avl_node
    BY LinkedNodes
  <1>6. /\ memory[at].data = memory[child].data /\ memory[child].data # key
        /\ memory[at].left = memory[child].left /\ memory[at].right = memory[child].right
    BY <1>1, <1>3 DEF Taking
  <1>7. \A n \in Linked : memory[n].left \in Linked \cup {NULL} /\ memory[n].right \in Linked \cup {NULL}
    BY <1>2 DEF Shape, Pointers
  <1>8. /\ \A n \in Linked \ {at} : Lefts[n] = memory[n].left /\ Rights[n] = memory[n].right
                                    /\ Datas[n] = memory[n].data
        /\ Datas[at] = key
    BY <1>2, <1>4, <1>7 DEF Lefts, Rights, Datas, Contents, Present
  <1>9. \/ Lefts[at] = child /\ Rights[at] = NULL
        \/ Rights[at] = child /\ Lefts[at] = NULL
    <2>1. memory[child].data \in Int /\ key \in Int
      BY <1>4, <1>5, KeyAssumption DEF avl_node, TypeOK, WriterTypeOK
    <2>2. /\ Lefts[at] = Present(IF memory[child].data < key THEN child ELSE NULL)
          /\ Rights[at] = Present(IF memory[child].data > key THEN child ELSE NULL)
      BY <1>2, <1>4 DEF Lefts, Rights, Contents
    <2>3. \A i, j \in Int : i # j => (i < j /\ ~(i > j)) \/ (i > j /\ ~(i < j))
      OBVIOUS
    <2> QED
      BY <1>4, <1>5, <1>6, <2>1, <2>2, <2>3 DEF Present
  <1>10. PICK c : c = child
    OBVIOUS
  <1>11. PICK a : a = at
    OBVIOUS
  <1> DEFINE l2 == [x \in Linked \ {c} |-> IF x = a THEN Lefts[c] ELSE Lefts[x]]
             r2 == [x \in Linked \ {c} |-> IF x = a THEN Rights[c] ELSE Rights[x]]
             d2 == [x \in Linked \ {c} |-> IF x = a THEN Datas[c] ELSE Datas[x]]
  <1>12. /\ Orders(Linked \ {c}, Top, l2, r2, d2, below) /\ Top # c
         /\ \A x \in Linked : Lefts[x] = c \/ Rights[x] = c => x = a
    <2>1. a \in Linked /\ c \in Linked /\ NULL \notin Linked
          /\ ((Lefts[a] = c /\ Rights[a] = NULL) \/ (Rights[a] = c /\ Lefts[a] = NULL))
      BY <1>4, <1>5, <1>9, <1>10, <1>11
    <2>2. Orders(Linked, Top, Lefts, Rights, Datas, below)
      BY DEF TreeSorted
    <2>3. PICK p : p = l2
      OBVIOUS
    <2>4. PICK q : q = r2
      OBVIOUS
    <2>5. PICK s : s = d2
      OBVIOUS
    <2>6. /\ Lefts \in [Linked -> Linked \cup {NULL}] /\ Rights \in [Linked -> Linked \cup {NULL}]
          /\ Datas \in [Linked -> Int]
      BY <2>2 DEF Orders, IsTree, IsSorted
    <2>7. \A x \in Linked \ {c} : /\ p[x] = (IF x = a THEN Lefts[c] ELSE Lefts[x])
                                  /\ q[x] = (IF x = a THEN Rights[c] ELSE Rights[x])
                                  /\ s[x] = (IF x = a THEN Datas[c] ELSE Datas[x])
      BY <2>3, <2>4, <2>5
    <2>8. p \in [Linked \ {c} -> Linked \cup {NULL}]
      BY <2>1, <2>3, <2>6
    <2>9. q \in [Linked \ {c} -> Linked \cup {NULL}]
      BY <2>1, <2>4, <2>6
    <2>10. s \in [Linked \ {c} -> Int]
      BY <2>1, <2>5, <2>6
    <2>11. Orders(Linked \ {c}, Top, p, q, s, below) /\ Top # c
           /\ \A x \in Linked : Lefts[x] = c \/ Rights[x] = c => x = a
      BY <2>1, <2>2, <2>7, <2>8, <2>9, <2>10, Merge, SMTT(60)
    <2> QED
      BY <2>3, <2>4, <2>5, <2>11
  <1>13. \A n \in Linked : n # at => memory[n].left # child /\ memory[n].right # child
    BY <1>8, <1>10, <1>11, <1>12
  <1>14. memory[at].left # child /\ memory[at].right # child /\ root # child /\ root \in Linked \cup {NULL}
    <2>1. root \in Linked \cup {NULL}
      BY <1>2 DEF Shape, Pointers
    <2>2. root # child
      BY <1>4, <1>10, <1>12 DEF Top, Present
    <2>3. memory[child].left # child /\ memory[child].right # child
      BY <1>4, <1>13
    <2> QED
      BY <1>6, <2>1, <2>2, <2>3
  <1>15. /\ Top' = Top
         /\ Lefts' = l2 /\ Rights' = r2 /\ Datas' = d2
    <2>1. \A p : p # child => Present(p)' = Present(p)
      BY <1>4 DEF Present
    <2>2. \A n \in Linked \ {child} : Contents(n)' = memory[n]
      BY <1>1, <1>2 DEF Contents
    <2>3. \A n \in Linked \ {child} : Present(memory[n].left)' = l2[n] /\ Present(memory[n].right)' = r2[n]
      <3>1. TAKE n \in Linked \ {child}
      <3>2. /\ memory[n].left \in (Linked \ {child}) \cup {NULL}
            /\ memory[n].right \in (Linked \ {child}) \cup {NULL}
        BY <1>7, <1>13, <1>14
      <3>3. Present(memory[n].left)' = memory[n].left /\ Present(memory[n].right)' = memory[n].right
        BY <1>1, <1>4, <3>2 DEF Present
      <3>4. l2[n] = memory[n].left /\ r2[n] = memory[n].right
        BY <1>4, <1>6, <1>8, <1>10, <1>11
      <3> QED
        BY <3>3, <3>4
    <2>4. Lefts' = [n \in Linked \ {child} |-> Present(memory[n].left)']
      BY <1>1, <1>4, <2>2 DEF Lefts, Present
    <2>5. Rights' = [n \in Linked \ {child} |-> Present(memory[n].right)']
      BY <1>1, <1>4, <2>2 DEF Rights, Present
    <2>6. Datas' = [n \in Linked \ {child} |-> memory[n].data]
      BY <1>1, <1>4, <2>2 DEF Datas
    <2>7. \A n \in Linked \ {child} : memory[n].data = d2[n]
      BY <1>4, <1>6, <1>8, <1>10, <1>11
    <2>8. Top' = Top
      BY <1>1, <1>14, <2>1 DEF Top
    <2> QED
      BY <1>10, <2>3, <2>4, <2>5, <2>6, <2>7, <2>8
  <1>16. TreeSorted(below)'
    BY <1>4, <1>10, <1>12, <1>15 DEF TreeSorted
  <1>17. Pointers'
    BY <1>1, <1>2, <1>4, <1>7, <1>13, <1>14 DEF Pointers
  <1>18. \A i \in DOMAIN path : path[i] # child
    <2>1. TAKE i \in DOMAIN path
    <2>2. path \in Seq(Node) /\ path[i] \in Linked
      BY <1>3 DEF TypeOK, WriterTypeOK, WayTo
    <2>3. CASE i = 1
      BY <1>3, <1>14, <2>2, <2>3 DEF WayTo
    <2>4. CASE i # 1
      <3>1. i - 1 \in DOMAIN path /\ i - 1 \in 1 .. Len(path) - 1 /\ (i - 1) + 1 = i
        BY <2>2, <2>4
      <3>2. Slot(key, memory[path[i - 1]]) = path[i] /\ path[i - 1] \in Linked /\ path[i - 1] # at
        BY <1>3, <3>1 DEF WayTo, Taking
      <3> QED
        BY <1>13, <3>2 DEF Slot
    <2> QED
      BY <2>3, <2>4
  <1>19. WayTo(at)'
    BY <1>1, <1>3, <1>4, <1>18, WayStays DEF WayTo
  <1>20. Position'
    BY <1>1, <1>2, <1>4, <1>19 DEF Position, Building
  <1>21. KeysMatch'
    <2>1. keys = {Datas[n] : n \in Linked} /\ \A x, y \in Linked : Datas[x] = Datas[y] => x = y
      BY DEF Shape, KeysMatch, TreeSorted, Orders, IsSorted
    <2>2. {Datas'[n] : n \in Linked'} = {Datas[n] : n \in Linked \ {at}}
      <3>1. Datas' = [x \in Linked \ {child} |-> IF x = at THEN Datas[child] ELSE Datas[x]]
        BY <1>10, <1>11, <1>15
      <3>2. \A n \in Linked \ {child} : \E m \in Linked \ {at} : Datas'[n] = Datas[m]
        BY <1>4, <3>1
      <3>3. \A m \in Linked \ {at} : \E n \in Linked \ {child} : Datas'[n] = Datas[m]
        <4>1. TAKE m \in Linked \ {at}
        <4>2. CASE m = child
          BY <1>4, <3>1, <4>2
        <4>3. CASE m # child
          BY <3>1, <4>3
        <4> QED
          BY <4>2, <4>3
      <3> QED
        BY <1>4, <3>2, <3>3
    <2>3. {Datas[n] : n \in Linked \ {at}} = {Datas[n] : n \in Linked} \ {key}
      BY <1>4, <1>8, <2>1
    <2> QED
      BY <1>1, <2>1, <2>2, <2>3 DEF KeysMatch
  <1>22. Shape'
    BY <1>17, <1>20, <1>21 DEF Shape
  <1> QED
    BY <1>1, <1>4, <1>8, <1>9, <1>10, <1>11, <1>12, <1>15, <1>16, <1>22

(* A height is no part of the tree. *)
LEMMA UpdateHeightKeeps ==
  ASSUME TypeOK, Shape, UpdateHeight
  PROVE  Shape' /\ SameTree
  <1>1. wpc = "height" /\ wpc' \in {"link", "rotate"} /\ child' = at
        /\ UNCHANGED <<allocated, root, op, key, at, path, keys>>
    BY DEF UpdateHeight
  <1>2. at \in Linked /\ WayTo(at) /\ Linked = allocated /\ Linked' = Linked
        /\ ~Copying /\ ~Copying' /\ ~Unhooked /\ ~Unhooked'
    <2>1. at \in Linked /\ WayTo(at)
      BY <1>1 DEF Shape, Position, Building
    <2>2. at # NULL /\ at \in allocated
      BY <2>1, LinkedNodes
    <2> QED
      BY <1>1, <2>1, <2>2 DEF Linked, Copying, Unhooked, Building
  <1>3. \A n \in Linked : /\ memory'[n].left = memory[n].left /\ memory'[n].right = memory[n].right
                          /\ memory'[n].data = memory[n].data
    <2>1. memory \in [Node -> avl_node] /\ Linked \subseteq Node
      BY LinkedNodes DEF TypeOK, TreeTypeOK
    <2> QED
      BY <1>2, <2>1 DEF UpdateHeight, avl_node
  <1>4. SameTree
    BY <1>1, <1>2, <1>3, StaysTree DEF Present
  <1>5. Pointers'
    BY <1>1, <1>2, <1>3 DEF Shape, Pointers
  <1>6. WayTo(at)'
    BY <1>1, <1>2, <1>3, WayStays DEF WayTo
  <1>7. Position'
    BY <1>1, <1>2, <1>6 DEF Position, Returning, Building
  <1>8. KeysMatch'
    BY <1>1, <1>4 DEF Shape, KeysMatch, SameTree
  <1> QED
    BY <1>4, <1>5, <1>7, <1>8 DEF Shape

(* All of a sequence but its last element *)
LEMMA AllButLast ==
  ASSUME NEW S, NEW s \in Seq(S), s # <<>>
  PROVE  \E n \in Nat :
           /\ Len(s) = n + 1 /\ SubSeq(s, 1, n) \in Seq(S) /\ Len(SubSeq(s, 1, n)) = n
           /\ \A i \in 1 .. n : SubSeq(s, 1, n)[i] = s[i]
           /\ SubSeq(s, 1, n) = <<>> <=> n = 0
  <1>1. PICK n \in Nat : n + 1 = Len(s)
    <2>1. Len(s) - 1 \in Nat /\ (Len(s) - 1) + 1 = Len(s)
      BY EmptySeq
    <2> QED
      BY <2>1
  <1>2. \A i \in 1 .. n : s[i] \in S
    BY <1>1
  <1>3. /\ SubSeq(s, 1, n) \in Seq(S) /\ Len(SubSeq(s, 1, n)) = IF 1 <= n THEN n - 1 + 1 ELSE 0
        /\ \A i \in 1 .. n - 1 + 1 : SubSeq(s, 1, n)[i] = s[1 + i - 1]
    BY <1>2, SubSeqProperties
  <1>4. n - 1 + 1 = n /\ (~(1 <= n) => n = 0) /\ \A i \in 1 .. n : 1 + i - 1 = i
    OBVIOUS
  <1>5. Len(SubSeq(s, 1, n)) = n /\ \A i \in 1 .. n : SubSeq(s, 1, n)[i] = s[i]
    BY <1>3, <1>4
  <1>6. SubSeq(s, 1, n) = <<>> <=> n = 0
    BY <1>3, <1>5, EmptySeq
  <1> QED
    BY <1>1, <1>3, <1>5, <1>6

(* One step back on the way: a node that has changed is not above its parent. *)
LEMMA WayBack ==
  ASSUME TypeOK, WayTo(at), path # <<>>, UNCHANGED <<root, key>>,
         path' = SubSeq(path, 1, Len(path) - 1), at' = Last,
         \A n \in Linked : n \in Linked' /\ memory'[n].data = memory[n].data,
         \A n \in Linked : (n = Last /\ at \notin Linked) \/
           (memory'[n].left = memory[n].left /\ memory'[n].right = memory[n].right)
  PROVE  WayTo(at)' /\ at' \in Linked
  <1>1. path \in Seq(Node)
    BY DEF TypeOK, WriterTypeOK
  <1>2. /\ Len(path) \in Nat \ {0}
        /\ Len(path') = Len(path) - 1 /\ DOMAIN path' = 1 .. Len(path) - 1
        /\ \A i \in 1 .. Len(path) - 1 : path'[i] = path[i]
        /\ path' = <<>> <=> Len(path) = 1
    <2>1. PICK n \in Nat :
            /\ Len(path) = n + 1 /\ SubSeq(path, 1, n) \in Seq(Node) /\ Len(SubSeq(path, 1, n)) = n
            /\ \A i \in 1 .. n : SubSeq(path, 1, n)[i] = path[i]
            /\ SubSeq(path, 1, n) = <<>> <=> n = 0
      BY <1>1, AllButLast
    <2>2. Len(path) - 1 = n
      BY <2>1
    <2>3. path' = SubSeq(path, 1, n)
      BY <2>2
    <2>4. path' \in Seq(Node) /\ Len(path') = n
      BY <2>1, <2>3
    <2> QED
      BY <2>1, <2>2, <2>3, <2>4
  <1>3. \A i \in 1 .. Len(path) - 1 : Slot(key, memory'[path[i]]) = path[i + 1]
    <2>1. TAKE i \in 1 .. Len(path) - 1
    <2>2. i \in DOMAIN path /\ i + 1 \in DOMAIN path
      BY <1>1, <1>2
    <2>3. path[i] \in Linked /\ path[i + 1] \in Linked /\ Slot(key, memory[path[i]]) = path[i + 1]
      BY <2>2 DEF WayTo
    <2>4. ~(path[i] = Last /\ at \notin Linked)
      BY <2>3 DEF WayTo
    <2> QED
      BY <2>3, <2>4 DEF Slot
  <1>4. at' \in Linked
    BY <1>1, <1>2, LenProperties DEF WayTo, Last
  <1>5. \A i \in DOMAIN path' : path'[i] \in Linked' /\ memory'[path'[i]].data # key
    BY <1>1, <1>2 DEF WayTo
  <1>6. \A i \in 1 .. Len(path') - 1 : Slot(key, memory'[path'[i]]) = path'[i + 1]
    BY <1>1, <1>2, <1>3
  <1>7. CASE Len(path) = 1
    <2>1. path' = <<>> /\ Last = path[1]
      BY <1>1, <1>2, <1>7 DEF Last
    <2> QED
      BY <1>4, <1>5, <1>6, <2>1 DEF WayTo
  <1>8. CASE Len(path) # 1
    <2>1. /\ path' # <<>> /\ path'[1] = path[1] /\ Last' = path[Len(path) - 1]
          /\ Len(path) - 1 \in 1 .. Len(path) - 1 /\ (Len(path) - 1) + 1 = Len(path)
      BY <1>1, <1>2, <1>8 DEF Last
    <2>2. Slot(key, memory'[Last']) = Last
      BY <1>3, <2>1 DEF Last
    <2> QED
      BY <1>4, <1>5, <1>6, <2>1, <2>2 DEF WayTo
  <1> QED
    BY <1>7, <1>8

(* The node returned is the one that was there. *)
LEMMA LinkBackKeeps ==
  ASSUME TypeOK, Shape, Added, LinkChild \/ LinkRoot, at \in Linked
  PROVE  Shape' /\ SameTree
  <1>1. wpc = "link" /\ wpc' \in {"height", "idle"} /\ keys' = (IF op = "add" THEN keys \cup {key} ELSE keys)
        /\ UNCHANGED <<allocated, op, key, child>>
    BY DEF LinkChild, LinkRoot, Return
  <1>2. NULL \notin Linked /\ Linked \subseteq allocated /\ Linked \subseteq Node
    BY LinkedNodes
  <1>3. child = at /\ WayTo(at) /\ keys' = keys
    BY <1>1, <1>2 DEF Shape, Position, Returning, Added, Building
  <1>4. Linked = allocated /\ Linked' = Linked /\ ~Copying /\ ~Copying' /\ ~Unhooked /\ ~Unhooked'
    BY <1>1, <1>2, <1>3 DEF Linked, Copying, Unhooked, Building
  <1>5. root' = root /\ \A n \in Linked : /\ memory'[n].left = memory[n].left
                                          /\ memory'[n].right = memory[n].right
                                          /\ memory'[n].data = memory[n].data
    <2>1. CASE LinkRoot
      BY <1>3, <2>1 DEF LinkRoot, WayTo
    <2>2. CASE LinkChild
      <3>1. path # <<>> /\ root' = root /\ memory \in [Node -> avl_node]
        BY <2>2 DEF LinkChild, TypeOK, TreeTypeOK
      <3>2. PICK p : p = Last
        OBVIOUS
      <3>3. memory' = IF Before(p) THEN [memory EXCEPT ![p].left = at] ELSE [memory EXCEPT ![p].right = at]
        BY <1>3, <2>2, <3>2 DEF LinkChild, Last
      <3>4. IF Before(p) THEN memory[p].left = at ELSE memory[p].right = at
        BY <1>3, <3>1, <3>2 DEF WayTo, Slot, Before
      <3> QED
        BY <1>2, <3>1, <3>3, <3>4 DEF avl_node
    <2> QED
      BY <2>1, <2>2
  <1>6. SameTree
    BY <1>4, <1>5, StaysTree DEF Present
  <1>7. Pointers'
    BY <1>4, <1>5 DEF Shape, Pointers
  <1>8. Position'
    <2>1. CASE LinkRoot
      BY <2>1 DEF LinkRoot, Return, Position, Copying, Building
    <2>2. CASE LinkChild
      <3>1. path # <<>> /\ path' = SubSeq(path, 1, Len(path) - 1) /\ at' = Last /\ wpc' = "height"
        BY <2>2 DEF LinkChild, Last
      <3>2. WayTo(at)' /\ at' \in Linked
        BY <1>1, <1>3, <1>4, <1>5, <3>1, WayBack
      <3> QED
        BY <1>4, <3>1, <3>2 DEF Position, Building
    <2> QED
      BY <2>1, <2>2
  <1>9. KeysMatch'
    BY <1>3, <1>6 DEF Shape, KeysMatch, SameTree
  <1> QED
    BY <1>6, <1>7, <1>8, <1>9 DEF Shape

(* The pointer to a freed leaf is set to NULL. *)
LEMMA LinkNullKeeps ==
  ASSUME TypeOK, Shape, LinkChild \/ LinkRoot, at \in Node \ allocated
  PROVE  Shape' /\ SameTree
  <1>1. wpc = "link" /\ wpc' \in {"height", "idle"} /\ keys' = (IF op = "add" THEN keys \cup {key} ELSE keys)
        /\ UNCHANGED <<allocated, op, key, child>>
    BY DEF LinkChild, LinkRoot, Return
  <1>2. NULL \notin Linked /\ Linked \subseteq allocated /\ Linked \subseteq Node
    BY LinkedNodes
  <1>3. op = "remove" /\ child = NULL /\ WayTo(at) /\ keys' = keys /\ at # NULL /\ at \notin Linked
    BY <1>1, <1>2, NodeAssumption DEF Shape, Position, Returning, Building
  <1>4. Linked = allocated /\ Linked' = Linked /\ ~Copying /\ ~Copying' /\ Unhooked /\ ~Unhooked'
    BY <1>1, <1>2, <1>3 DEF Linked, Copying, Unhooked, Building
  <1>5. Pointers
    BY DEF Shape
  <1>6. CASE LinkRoot
    <2>1. path = <<>> /\ root' = NULL /\ memory' = memory /\ wpc' = "idle" /\ root = at
      BY <1>3, <1>6 DEF LinkRoot, Return, WayTo
    <2>2. Present(root)' = Present(root)
      BY <1>2, <1>3, <1>4, <2>1 DEF Present
    <2>3. SameTree
      BY <1>4, <2>1, <2>2, StaysTree DEF Present
    <2>4. Pointers'
      BY <1>4, <1>5, <2>1 DEF Pointers
    <2>5. Position'
      BY <2>1 DEF Position, Copying, Building
    <2>6. KeysMatch'
      BY <1>3, <2>3 DEF Shape, KeysMatch, SameTree
    <2> QED
      BY <2>3, <2>4, <2>5, <2>6 DEF Shape
  <1>7. CASE LinkChild
    <2>1. path # <<>> /\ root' = root /\ memory \in [Node -> avl_node]
          /\ path' = SubSeq(path, 1, Len(path) - 1) /\ at' = Last /\ wpc' = "height"
      BY <1>7 DEF LinkChild, Last, TypeOK, TreeTypeOK
    <2>2. PICK p : p = Last
      OBVIOUS
    <2>3. memory' = IF Before(p) THEN [memory EXCEPT ![p].left = NULL] ELSE [memory EXCEPT ![p].right = NULL]
      BY <1>3, <1>7, <2>2 DEF LinkChild, Last
    <2>4. IF Before(p) THEN memory[p].left = at ELSE memory[p].right = at
      BY <1>3, <2>1, <2>2 DEF WayTo, Slot, Before
    <2>5. /\ \A n \in Linked \ {p} : memory'[n] = memory[n]
          /\ \A n \in Linked : memory'[n].data = memory[n].data
          /\ p \in Linked =>
               /\ memory'[p].left = IF Before(p) THEN NULL ELSE memory[p].left
               /\ memory'[p].right = IF Before(p) THEN memory[p].right ELSE NULL
      BY <1>2, <2>1, <2>3 DEF avl_node
    <2>6. WayTo(at)' /\ at' \in Linked
      BY <1>1, <1>3, <1>4, <2>1, <2>2, <2>5, WayBack
    <2>7. \A x : Present(x)' = Present(x)
      BY <1>4 DEF Present
    <2>8. Present(at) = NULL /\ Present(NULL) = NULL
      BY <1>3 DEF Present
    <2>9. \A n \in Linked : /\ Present(memory[n].left)' = Present(memory[n].left)
                            /\ Present(memory[n].right)' = Present(memory[n].right)
      <3>1. TAKE n \in Linked
      <3>2. Present(memory'[n].left) = Present(memory[n].left) /\ Present(memory'[n].right) = Present(memory[n].right)
        BY <2>4, <2>5, <2>8
      <3> QED
        BY <1>4, <3>2 DEF Present
    <2>10. SameTree
      BY <1>4, <2>1, <2>5, <2>9, StaysTree
    <2>11. Pointers'
      <3>1. root \in Linked \cup {NULL}
        BY <1>5, <2>1 DEF Pointers
      <3>2. \A n \in Linked : memory'[n].left \in Linked \cup {NULL} /\ memory'[n].right \in Linked \cup {NULL}
        BY <1>5, <2>2, <2>4, <2>5 DEF Pointers
      <3> QED
        BY <1>4, <2>1, <3>1, <3>2 DEF Pointers
    <2>12. Position'
      BY <1>4, <2>1, <2>6 DEF Position, Building
    <2>13. KeysMatch'
      BY <1>3, <2>10 DEF Shape, KeysMatch, SameTree
    <2> QED
      BY <2>10, <2>11, <2>12, <2>13 DEF Shape
  <1> QED
    BY <1>6, <1>7

(* What is known when the new leaf of avl_add is about to be linked *)
LEMMA LeafInHand ==
  ASSUME TypeOK, Shape, wpc = "link", at = NULL
  PROVE  /\ op = "add" /\ child \in allocated /\ child \in Node /\ child # NULL /\ child \notin Linked
         /\ memory[child].left = NULL /\ memory[child].right = NULL /\ memory[child].data = key
         /\ allocated = Linked \cup {child} /\ ~Copying /\ ~Unhooked /\ WayTo(NULL)
         /\ root \in Linked \cup {NULL}
         /\ \A n \in Linked : /\ memory[n].left \in Linked \cup {NULL}
                              /\ memory[n].right \in Linked \cup {NULL}
                              /\ Lefts[n] = memory[n].left /\ Rights[n] = memory[n].right
                              /\ Datas[n] = memory[n].data
  <1>1. at \notin Linked /\ at \notin Node
    BY LinkedNodes, NodeAssumption
  <1>2. op = "add" /\ child \in allocated /\ ~Copying /\ ~Unhooked /\ WayTo(NULL)
        /\ memory[child].left = NULL /\ memory[child].right = NULL /\ memory[child].data = key
    BY <1>1 DEF Shape, Position, Returning, Copying, Unhooked, Building
  <1>3. Linked = allocated \ {child} /\ child \in Node /\ child # NULL
    BY <1>2, NodeAssumption DEF Linked, TypeOK, TreeTypeOK, Building
  <1>4. /\ root \in Linked \cup {NULL}
        /\ \A n \in Linked : memory[n].left \in Linked \cup {NULL} /\ memory[n].right \in Linked \cup {NULL}
    BY <1>2 DEF Shape, Pointers
  <1>5. \A n \in Linked : /\ Lefts[n] = memory[n].left /\ Rights[n] = memory[n].right
                          /\ Datas[n] = memory[n].data
    BY <1>2, <1>4, PlainTree DEF Present
  <1> QED
    BY <1>2, <1>3, <1>4, <1>5

(* The new leaf of avl_add is linked below the node where the descent ended. *)
LEMMA LinkLeafKeeps ==
  ASSUME TypeOK, Shape, NEW below, TreeSorted(below), Descent(below), LinkChild, at = NULL
  PROVE  /\ Shape' /\ op = "add" /\ UNCHANGED key
         /\ child \in Node /\ child # NULL /\ child \notin Linked /\ Linked' = Linked \cup {child}
         /\ Last \in Linked /\ Top' = Top
         /\ IF key < Datas[Last] THEN Lefts[Last] = NULL ELSE Rights[Last] = NULL
         /\ \A x \in Linked : Datas[x] # key /\ ~Inside(Datas[x], key, Datas[Last])
         /\ Lefts'[child] = NULL /\ Rights'[child] = NULL /\ Datas'[child] = key
         /\ \A x \in Linked : /\ Lefts'[x] = (IF x = Last /\ key < Datas[Last] THEN child ELSE Lefts[x])
                              /\ Rights'[x] = (IF x = Last /\ ~(key < Datas[Last]) THEN child ELSE Rights[x])
                              /\ Datas'[x] = Datas[x]
         /\ \E new : TreeSorted(new)' /\ \A x, y \in Linked : <<x, y>> \in new <=> <<x, y>> \in below
  <1>1. wpc = "link" /\ wpc' = "height" /\ path # <<>> /\ path' = SubSeq(path, 1, Len(path) - 1)
        /\ at' = Last /\ UNCHANGED <<allocated, root, op, key, child>>
    BY DEF LinkChild, Last
  <1>2. op = "add" /\ keys' = keys \cup {key}
    BY <1>1, LeafInHand DEF LinkChild
  <1>3. /\ child \in Node /\ child # NULL /\ child \notin Linked /\ allocated = Linked \cup {child}
        /\ memory[child].left = NULL /\ memory[child].right = NULL /\ memory[child].data = key
        /\ ~Copying /\ ~Unhooked /\ WayTo(NULL) /\ WayTo(at)
    BY <1>1, LeafInHand
  <1>4. NULL \notin Linked /\ Linked \subseteq Node /\ memory \in [Node -> avl_node] /\ path \in Seq(Node)
    BY LinkedNodes DEF TypeOK, TreeTypeOK, WriterTypeOK
  <1>5. Last \in Linked /\ Slot(key, memory[Last]) = NULL
    BY <1>1, <1>3, <1>4, EmptySeq DEF WayTo, Last
  <1>6. Linked' = Linked \cup {child} /\ ~Copying' /\ ~Unhooked'
    BY <1>1, <1>3, <1>4, <1>5 DEF Linked, Copying, Unhooked, Building
  <1>7. /\ root \in Linked \cup {NULL}
        /\ \A n \in Linked : /\ memory[n].left \in Linked \cup {NULL}
                             /\ memory[n].right \in Linked \cup {NULL}
                             /\ Lefts[n] = memory[n].left /\ Rights[n] = memory[n].right
                             /\ Datas[n] = memory[n].data
    BY <1>1, LeafInHand
  <1>8. PICK p : p = Last
    OBVIOUS
  <1>9. PICK c : c = child
    OBVIOUS
  <1>10. memory' = IF key < Datas[p] THEN [memory EXCEPT ![p].left = c] ELSE [memory EXCEPT ![p].right = c]
    BY <1>5, <1>7, <1>8, <1>9 DEF LinkChild, Last, Before
  <1>11. /\ memory'[c] = memory[c]
         /\ \A n \in Linked :
              /\ memory'[n].left = IF n = p /\ key < Datas[p] THEN c ELSE memory[n].left
              /\ memory'[n].right = IF n = p /\ ~(key < Datas[p]) THEN c ELSE memory[n].right
              /\ memory'[n].data = memory[n].data
    <2>1. p \in Node /\ p # c /\ c \in Node
      BY <1>3, <1>4, <1>5, <1>8, <1>9
    <2> QED
      BY <1>4, <1>10, <2>1 DEF avl_node
  <1>12. /\ \A n \in Linked \cup {c} : memory'[n].left \in Linked \cup {c, NULL}
         /\ \A n \in Linked \cup {c} : memory'[n].right \in Linked \cup {c, NULL}
    BY <1>3, <1>7, <1>9, <1>11
  <1>13. \A n \in Linked \cup {c} :
            /\ Lefts'[n] = memory'[n].left /\ Rights'[n] = memory'[n].right /\ Datas'[n] = memory'[n].data
    <2>1. \A n : Contents(n)' = memory'[n]
      BY <1>6 DEF Contents
    <2>2. \A x \in Linked \cup {c, NULL} : Present(x)' = x
      BY <1>3, <1>4, <1>6, <1>9 DEF Present
    <2>3. \A n \in Linked \cup {c} : /\ Lefts'[n] = Present(Contents(n).left)'
                                     /\ Rights'[n] = Present(Contents(n).right)'
                                     /\ Datas'[n] = Contents(n)'.data
      BY <1>6, <1>9 DEF Lefts, Rights, Datas
    <2>4. \A n \in Linked \cup {c} : /\ Present(Contents(n).left)' = memory'[n].left
                                     /\ Present(Contents(n).right)' = memory'[n].right
      BY <1>12, <2>1, <2>2 DEF Present
    <2> QED
      BY <2>1, <2>3, <2>4
  <1>14. /\ Lefts'[c] = NULL /\ Rights'[c] = NULL /\ Datas'[c] = key
         /\ \A x \in Linked : /\ Lefts'[x] = (IF x = p /\ key < Datas[p] THEN c ELSE Lefts[x])
                              /\ Rights'[x] = (IF x = p /\ ~(key < Datas[p]) THEN c ELSE Rights[x])
                              /\ Datas'[x] = Datas[x]
    BY <1>3, <1>7, <1>9, <1>11, <1>13
  <1>15. \A x \in Linked : Datas[x] # key /\ ~Inside(Datas[x], key, Datas[p])
    BY <1>1, <1>5, <1>8 DEF Descent, Beyond, Falling, Building
  <1>16. IF key < Datas[p] THEN Lefts[p] = NULL ELSE Rights[p] = NULL
    BY <1>5, <1>7, <1>8 DEF Slot
  <1>17. Top' = Top
    BY <1>1, <1>6, <1>7 DEF Top, Present
  <1>18. \E new : TreeSorted(new)' /\ \A x, y \in Linked : <<x, y>> \in new <=> <<x, y>> \in below
    <2>1. Orders(Linked, Top, Lefts, Rights, Datas, below) /\ key \in Int
      BY KeyAssumption DEF TreeSorted, TypeOK, WriterTypeOK
    <2>2. PICK l : l = Lefts'
      OBVIOUS
    <2>3. PICK r : r = Rights'
      OBVIOUS
    <2>4. PICK d : d = Datas'
      OBVIOUS
    <2>5. l \in [Linked \cup {c} -> Linked \cup {c, NULL}]
      <3>1. \A n \in Linked \cup {c} : l[n] \in Linked \cup {c, NULL}
        BY <1>12, <1>13, <2>2
      <3>2. l = [n \in Linked \cup {c} |-> l[n]]
        BY <1>6, <1>9, <2>2 DEF Lefts
      <3> QED
        BY <3>1, <3>2
    <2>6. r \in [Linked \cup {c} -> Linked \cup {c, NULL}]
      <3>1. \A n \in Linked \cup {c} : r[n] \in Linked \cup {c, NULL}
        BY <1>12, <1>13, <2>3
      <3>2. r = [n \in Linked \cup {c} |-> r[n]]
        BY <1>6, <1>9, <2>3 DEF Rights
      <3> QED
        BY <3>1, <3>2
    <2>7. d \in [Linked \cup {c} -> Int]
      <3>1. \A n \in Linked \cup {c} : d[n] \in Int
        BY <1>14, <2>1, <2>4 DEF Orders, IsSorted
      <3>2. d = [n \in Linked \cup {c} |-> d[n]]
        BY <1>6, <1>9, <2>4 DEF Datas
      <3> QED
        BY <3>1, <3>2
    <2>8. PICK k : k = key
      OBVIOUS
    <2>9. /\ Falls(Linked, Lefts, Rights, Datas, k, p)
          /\ Attached(Linked, Lefts, Rights, Datas, k, p, c, l, r, d)
      <3>1. Falls(Linked, Lefts, Rights, Datas, k, p)
        BY <1>5, <1>8, <1>15, <1>16, <2>1, <2>8 DEF Falls
      <3>2. Attached(Linked, Lefts, Rights, Datas, k, p, c, l, r, d)
        BY <1>3, <1>9, <1>14, <2>2, <2>3, <2>4, <2>5, <2>6, <2>7, <2>8 DEF Attached
      <3> QED
        BY <3>1, <3>2
    <2>10. PICK new : /\ Orders(Linked \cup {c}, Top, l, r, d, new)
                      /\ \A x, y \in Linked : <<x, y>> \in new <=> <<x, y>> \in below
      <3>1. NULL \notin Linked
        BY <1>4
      <3>2. Orders(Linked, Top, Lefts, Rights, Datas, below)
        BY <2>1
      <3> QED
        BY ONLY <2>9, <3>1, <3>2, Attach
    <2>11. TreeSorted(new)'
      BY <1>6, <1>9, <1>17, <2>2, <2>3, <2>4, <2>10 DEF TreeSorted
    <2> QED
      BY <2>10, <2>11
  <1>19. Pointers'
    BY <1>1, <1>6, <1>7, <1>9, <1>12 DEF Pointers
  <1>20. Position'
    <2>1. \A n \in Linked : n \in Linked' /\ memory'[n].data = memory[n].data
      BY <1>6, <1>11
    <2>2. \A n \in Linked : (n = Last /\ at \notin Linked) \/
            (memory'[n].left = memory[n].left /\ memory'[n].right = memory[n].right)
      BY <1>4, <1>8, <1>11
    <2>3. WayTo(at)' /\ at' \in Linked
      BY <1>1, <1>3, <2>1, <2>2, WayBack
    <2> QED
      BY <1>1, <1>6, <2>3 DEF Position, Building
  <1>21. KeysMatch'
    <2>1. keys = {Datas[n] : n \in Linked}
      BY DEF Shape, KeysMatch
    <2>2. {Datas'[n] : n \in Linked \cup {c}} = {Datas[n] : n \in Linked} \cup {key}
      BY <1>14
    <2> QED
      BY <1>2, <1>6, <1>9, <2>1, <2>2 DEF KeysMatch
  <1> QED
    BY <1>1, <1>2, <1>3, <1>5, <1>6, <1>8, <1>9, <1>14, <1>15, <1>16, <1>17, <1>18, <1>19, <1>20, <1>21
    DEF Shape

(* The first leaf becomes the root. *)
LEMMA LinkFirstKeeps ==
  ASSUME TypeOK, Shape, NEW below, TreeSorted(below), LinkRoot, at = NULL
  PROVE  /\ Shape' /\ op = "add" /\ UNCHANGED key
         /\ child \in Node /\ child # NULL /\ Linked = {} /\ Linked' = {child} /\ Top = NULL /\ Top' = child
         /\ Lefts' = [n \in {child} |-> NULL] /\ Rights' = [n \in {child} |-> NULL]
         /\ Datas' = [n \in {child} |-> key]
         /\ \E new : TreeSorted(new)'
  <1>1. wpc = "link" /\ wpc' = "idle" /\ path = <<>> /\ root' = child
        /\ UNCHANGED <<memory, allocated, op, key, at, child, path>>
    BY DEF LinkRoot, Return
  <1>2. op = "add" /\ keys' = keys \cup {key}
    BY <1>1, LeafInHand DEF LinkRoot
  <1>3. /\ child \in Node /\ child # NULL /\ child \notin Linked /\ allocated = Linked \cup {child}
        /\ memory[child].left = NULL /\ memory[child].right = NULL /\ memory[child].data = key
        /\ WayTo(NULL)
    BY <1>1, LeafInHand
  <1>4. Linked = {} /\ Top = NULL
    <2>1. root = NULL /\ NULL \notin Linked
      BY <1>1, <1>3, LinkedNodes DEF WayTo
    <2>2. Top = NULL
      BY <2>1 DEF Top, Present
    <2> QED
      BY <2>2 DEF TreeSorted, Orders, IsTree
  <1>5. Linked' = {child} /\ ~Copying' /\ ~Unhooked'
    BY <1>1, <1>3, <1>4 DEF Linked, Copying, Unhooked, Building
  <1>6. PICK c : c = child
    OBVIOUS
  <1>7. /\ Top' = c
        /\ Lefts' = [n \in {c} |-> NULL] /\ Rights' = [n \in {c} |-> NULL] /\ Datas' = [n \in {c} |-> key]
    <2>1. Contents(c)' = memory[c]
      BY <1>1, <1>5 DEF Contents
    <2>2. Present(NULL)' = NULL /\ Present(c)' = c
      BY <1>3, <1>5, <1>6 DEF Present
    <2>3. Top' = c
      BY <1>1, <1>6, <2>2 DEF Top, Present
    <2>4. Present(Contents(c).left)' = NULL /\ Present(Contents(c).right)' = NULL /\ Contents(c)'.data = key
      BY <1>3, <1>6, <2>1, <2>2 DEF Present
    <2>5. Lefts' = [n \in {c} |-> Present(Contents(n).left)']
      BY <1>5, <1>6 DEF Lefts
    <2>6. Rights' = [n \in {c} |-> Present(Contents(n).right)']
      BY <1>5, <1>6 DEF Rights
    <2>7. Datas' = [n \in {c} |-> Contents(n)'.data]
      BY <1>5, <1>6 DEF Datas
    <2> QED
      BY <2>3, <2>4, <2>5, <2>6, <2>7
  <1>8. TreeSorted({<<c, c>>})'
    <2>1. PICK k \in Int : k = key
      BY KeyAssumption DEF TypeOK, WriterTypeOK
    <2>2. c # NULL
      BY <1>3, <1>6
    <2>3. Orders({c}, c, [n \in {c} |-> NULL], [n \in {c} |-> NULL], [n \in {c} |-> k], {<<c, c>>})
      BY <2>2, FirstNode
    <2>4. Orders({c}, Top', Lefts', Rights', Datas', {<<c, c>>})
      BY <1>7, <2>1, <2>3
    <2> QED
      BY <1>5, <1>6, <2>4 DEF TreeSorted
  <1>9. Pointers'
    BY <1>1, <1>3, <1>5 DEF Pointers
  <1>10. Position'
    BY <1>1 DEF Position, Copying, Building
  <1>11. KeysMatch'
    BY <1>2, <1>4, <1>5, <1>6, <1>7 DEF Shape, KeysMatch
  <1> QED
    BY <1>1, <1>2, <1>3, <1>4, <1>5, <1>6, <1>7, <1>8, <1>9, <1>10, <1>11 DEF Shape

-----------------------------------------------------------------------------
(* The descent of avl_add *)

(* At the root everything is still below. *)
LEMMA CallDescent ==
  ASSUME TypeOK, Shape, NEW below, TreeSorted(below), NEW o \in {"add", "remove"}, NEW k \in Key, Call(o, k)
  PROVE  Descent(below)'
  <1>1. wpc = "idle" /\ at' = root /\ ~Unhooked
    BY DEF Call, Unhooked
  <1>2. SameTree /\ root \in Linked \cup {NULL}
    BY <1>1, CallKeeps DEF Shape, Pointers
  <1>3. Top = root
    BY <1>2 DEF Top, Present
  <1>4. \A n \in Linked : root # NULL /\ <<root, n>> \in below
    BY <1>3 DEF TreeSorted, Orders, IsTree
  <1> QED
    BY <1>1, <1>2, <1>4 DEF Descent, Beyond, SameTree, Falling, Building

(* The side not taken, and the node left behind, have no key where the new one goes. *)
LEMMA DescendDescent ==
  ASSUME TypeOK, Shape, NEW below, TreeSorted(below), Descent(below), Descend
  PROVE  Descent(below)'
  <1>1. wpc = "descend" /\ at # NULL /\ memory[at].data # key /\ at' = Slot(key, memory[at])
        /\ path' = Append(path, at) /\ key' = key /\ at \in Linked /\ ~Copying /\ ~Unhooked
    BY AtLinked DEF Descend, Slot, Before, Copying, Unhooked
  <1>2. SameTree
    BY DescendKeeps
  <1>3. path' # <<>> /\ Last' = at
    <2>1. path \in Seq(Node) /\ at \in Node
      BY <1>1, LinkedNodes DEF TypeOK, WriterTypeOK
    <2> QED
      BY <1>1, <2>1, AppendProperties DEF Last
  <1>4. PICK a : a = at
    OBVIOUS
  <1>5. PICK k : k = key
    OBVIOUS
  <1>6. /\ Lefts[a] = memory[a].left /\ Rights[a] = memory[a].right /\ Datas[a] = memory[a].data
    BY <1>1, <1>4, PlainTree DEF Shape, Pointers, Present
  <1>7. IsTree(Linked, Top, Lefts, Rights, below) /\ IsSorted(Linked, Lefts, Rights, Datas, below)
        /\ a \in Linked /\ k \in Int /\ Datas[a] # k
    BY <1>1, <1>4, <1>5, <1>6, KeyAssumption DEF TreeSorted, Orders, TypeOK, WriterTypeOK
  <1>8. \A y \in Linked : Beyond(below, y) <=> <<a, y>> \in below
    BY <1>1, <1>4 DEF Beyond
  <1>9. \A y \in Linked : Beyond(below, y)' <=>
          IF k < Datas[a] THEN Under(below, Lefts, a, y) ELSE Under(below, Rights, a, y)
    BY <1>1, <1>4, <1>5, <1>6 DEF Beyond, Slot, Under
  <1>10. \A y \in Linked : <<a, y>> \in below <=> a = y \/ Under(below, Lefts, a, y) \/ Under(below, Rights, a, y)
    BY <1>7 DEF IsTree
  <1>11. \A y \in Linked : /\ Under(below, Lefts, a, y) => Datas[y] < Datas[a]
                           /\ Under(below, Rights, a, y) => Datas[a] < Datas[y]
                           /\ Datas[y] \in Int
    BY <1>7 DEF IsSorted
  <1>12. SUFFICES ASSUME NEW n \in Linked, ~Beyond(below, n)'
                  PROVE  /\ Datas[n] # k
                         /\ \A y \in Linked : Beyond(below, y)' \/ y = a => ~Inside(Datas[n], k, Datas[y])
    BY <1>1, <1>2, <1>3, <1>4, <1>5 DEF Descent, SameTree, Falling, Building
  <1>13. CASE <<a, n>> \notin below
    <2>1. \A y \in Linked : Beyond(below, y)' \/ y = a => Beyond(below, y)
      BY <1>8, <1>9, <1>10
    <2>2. Datas[n] # key /\ \A y \in Linked : Beyond(below, y) => ~Inside(Datas[n], key, Datas[y])
      BY <1>1, <1>8, <1>13 DEF Descent, Falling, Building
    <2> QED
      BY <1>5, <2>1, <2>2
  <1>14. CASE <<a, n>> \in below /\ k < Datas[a]
    <2>1. n = a \/ Under(below, Rights, a, n)
      BY <1>9, <1>10, <1>12, <1>14
    <2>2. Datas[a] < Datas[n] \/ Datas[a] = Datas[n]
      BY <1>11, <2>1
    <2>3. \A y \in Linked : Beyond(below, y)' \/ y = a => Datas[y] < Datas[a] \/ Datas[y] = Datas[a]
      BY <1>9, <1>11, <1>14
    <2>4. \A d, x, y, i \in Int : i < x /\ (x < d \/ x = d) /\ (y < x \/ y = x) => d # i /\ ~(i < d /\ d < y) /\ ~(y < d /\ d < i)
      OBVIOUS
    <2> QED
      BY <1>7, <1>11, <1>14, <2>2, <2>3, <2>4 DEF Inside
  <1>15. CASE <<a, n>> \in below /\ ~(k < Datas[a])
    <2>1. n = a \/ Under(below, Lefts, a, n)
      BY <1>9, <1>10, <1>12, <1>15
    <2>2. Datas[n] < Datas[a] \/ Datas[a] = Datas[n]
      BY <1>11, <2>1
    <2>3. \A y \in Linked : Beyond(below, y)' \/ y = a => Datas[a] < Datas[y] \/ Datas[y] = Datas[a]
      BY <1>9, <1>11, <1>15
    <2>4. \A d, x, y, i \in Int : ~(i < x) /\ x # i /\ (d < x \/ x = d) /\ (x < y \/ y = x) => d # i /\ ~(i < d /\ d < y) /\ ~(y < d /\ d < i)
      OBVIOUS
    <2> QED
      BY <1>7, <1>11, <1>15, <2>2, <2>3, <2>4 DEF Inside
  <1> QED
    BY <1>13, <1>14, <1>15

(* Every step leaves the tree as it is, but for those that link a new leaf or *)
(* free a node.                                                              *)
LEMMA WriterCases ==
  ASSUME TypeOK, Shape, Added, NEW below, TreeSorted(below), Descent(below), WriterStep
  PROVE  /\ Shape' /\ Added'
         /\ \/ SameTree /\ TreeSorted(below)' /\ Descent(below)'
            \/ (LinkChild \/ LinkRoot) /\ at = NULL
            \/ RemoveLeaf
            \/ FreeChild
         /\ ~Falling' => \A b : Descent(b)'
  <1>1. /\ SameTree => TreeSorted(below)'
        /\ ~Falling' => \A b : Descent(b)'
    BY DEF SameTree, TreeSorted, Descent, Falling, Building
  <1>2. CASE \E o \in {"add", "remove"}, k \in Key : Call(o, k)
    <2>1. Added'
      BY <1>2 DEF Call, Added
    <2> QED
      BY <1>1, <1>2, <2>1, CallKeeps, CallDescent
  <1>3. CASE Descend
    <2>1. Added'
      BY <1>3 DEF Descend, Added
    <2> QED
      BY <1>1, <1>3, <2>1, DescendKeeps, DescendDescent
  <1>4. CASE Refuse \/ RemoveNothing
    <2>1. wpc' \in {"idle", "height"} /\ (wpc' = "height" => op' = "remove")
      BY <1>4 DEF Refuse, Return, RemoveNothing, Removing
    <2> QED
      BY <1>1, <1>4, <2>1, GivesUpKeeps DEF Added, Falling, Building
  <1>5. CASE NewNode \/ MallocRecord \/ FillRecord \/ ClearLeft \/ ClearRight
    <2>1. (wpc = "descend" \/ Building) /\ (Building' \/ wpc' = "link") /\ UNCHANGED <<op, at, key, path>>
      BY <1>5 DEF NewNode, MallocRecord, FillRecord, ClearLeft, ClearRight, treeVars, Building
    <2>2. Shape' /\ SameTree
      BY <1>5, NewNodeKeeps, BuildKeeps
    <2>3. at = NULL
      BY <1>5, NodeInHand DEF NewNode, MallocRecord, FillRecord, ClearLeft, ClearRight, Building
    <2>4. Descent(below)'
      BY <2>1, <2>2 DEF Descent, SameTree, Beyond, Last, Falling, Building
    <2> QED
      BY <1>1, <2>1, <2>2, <2>3, <2>4 DEF Added, Falling, Building
  <1>6. CASE RemoveLeaf
    <2>1. Added'
      BY <1>6 DEF RemoveLeaf, Removing, Added
    <2> QED
      BY <1>1, <1>6, <2>1, RemoveLeafKeeps DEF Falling, Building
  <1>7. CASE CopyData
    <2>1. wpc' = "copy left"
      BY <1>7 DEF CopyData
    <2> QED
      BY <1>1, <1>7, <2>1, CopyDataKeeps DEF Added, Falling, Building
  <1>8. CASE CopyLeft \/ CopyRight
    <2>1. wpc' \in {"copy right", "free"}
      BY <1>8 DEF CopyLeft, CopyRight
    <2> QED
      BY <1>1, <1>8, <2>1, CopyLinkKeeps DEF Added, Falling, Building
  <1>9. CASE FreeChild
    <2>1. op = "remove" /\ op' = op
      BY <1>9 DEF FreeChild, Shape, Position, Copying, Taking, Building
    <2> QED
      BY <1>1, <1>9, <2>1, FreeChildKeeps DEF Added, Falling, Building
  <1>10. CASE UpdateHeight
    <2>1. wpc = "height" /\ wpc' \in {"link", "rotate"} /\ UNCHANGED <<at, op, key, keys>>
      BY <1>10 DEF UpdateHeight
    <2>2. at # NULL
      BY <2>1, LinkedNodes DEF Shape, Position, Building
    <2> QED
      BY <1>1, <1>10, <2>1, <2>2, UpdateHeightKeeps DEF Added, Falling, Building
  <1>11. CASE LinkChild \/ LinkRoot
    <2>1. wpc = "link" /\ wpc' \in {"height", "idle"} /\ UNCHANGED <<op, key>>
          /\ keys' = IF op = "add" THEN keys \cup {key} ELSE keys
      BY <1>11 DEF LinkChild, LinkRoot, Return
    <2>2. Added'
      BY <2>1 DEF Added
    <2>3. CASE at \in Linked
      BY <1>1, <1>11, <2>1, <2>2, <2>3, LinkBackKeeps DEF Falling, Building
    <2>4. CASE at \in Node \ allocated
      BY <1>1, <1>11, <2>1, <2>2, <2>4, LinkNullKeeps DEF Falling, Building
    <2>5. CASE at = NULL
      <3>1. Shape'
        BY <1>11, <2>5, LinkLeafKeeps, LinkFirstKeeps
      <3> QED
        BY <1>1, <1>11, <2>2, <2>5, <3>1
    <2> QED
      BY <2>1, <2>3, <2>4, <2>5 DEF Shape, Position, Returning, Falling, Building
  <1> QED
    BY <1>2, <1>3, <1>4, <1>5, <1>6, <1>7, <1>8, <1>9, <1>10, <1>11 DEF WriterStep, WriterProgress

-----------------------------------------------------------------------------
(* The lookup *)

(* The history after a step *)
LEMMA OverlapRecords ==
  ASSUME Overlap, rpc = "done" => UNCHANGED <<op, wpc>> \/ rpc' = "done"
  PROVE  /\ Recorded'
         /\ rpc # "done" => (raced => raced') /\ (RemovalUnderWay' => raced') /\ seen \subseteq seen'
                            /\ (raced' => Strays \subseteq seen')
         /\ rpc = "done" /\ rpc' # "done" => (raced' <=> RemovalUnderWay) /\ Current' \subseteq seen'
         /\ rpc = "done" /\ rpc' = "done" => seen' = seen
  <1>1. CASE rpc = "done" /\ rpc' = "done"
    BY <1>1 DEF Overlap, Recorded
  <1>2. CASE rpc = "done" /\ rpc' # "done"
    <2>1. raced' = RemovalUnderWay /\ seen' = Current' \cup (IF raced' THEN {NULL} ELSE {})
          /\ UNCHANGED <<op, wpc>>
      BY <1>2 DEF Overlap
    <2>2. RemovalUnderWay' = RemovalUnderWay
      BY <2>1 DEF RemovalUnderWay
    <2>3. raced' => Made' = {}
      BY <2>1 DEF RemovalUnderWay, Made
    <2> QED
      BY <1>2, <2>1, <2>2, <2>3 DEF Recorded
  <1>3. CASE rpc # "done"
    <2>1. raced' = (raced \/ RemovalUnderWay')
          /\ seen' = seen \cup Current' \cup (IF raced' THEN Strays ELSE {})
      BY <1>3 DEF Overlap
    <2>2. NULL \in Strays /\ Made' \subseteq Strays
      BY DEF Strays
    <2> QED
      BY <1>3, <2>1, <2>2 DEF Recorded
  <1> QED
    BY <1>1, <1>2, <1>3

(* The nodes as the reader sees them while no removal is under way *)
LEMMA QuietTree ==
  ASSUME TypeOK, Shape, ~RemovalUnderWay
  PROVE  /\ Top = root
         /\ \A n \in Linked : /\ Lefts[n] = memory[n].left /\ Rights[n] = memory[n].right
                              /\ Datas[n] = memory[n].data
                              /\ memory[n].left \in Linked \cup {NULL}
                              /\ memory[n].right \in Linked \cup {NULL}
  <1>1. ~Copying
    BY DEF Shape, Position, Taking, Copying, RemovalUnderWay, Building
  <1>2. ~Unhooked
    BY LinkedNodes, NodeAssumption DEF Shape, Position, Returning, Unhooked, RemovalUnderWay, Building
  <1>3. /\ root \in Linked \cup {NULL}
        /\ \A n \in Linked : memory[n].left \in Linked \cup {NULL} /\ memory[n].right \in Linked \cup {NULL}
    BY <1>2 DEF Shape, Pointers
  <1> QED
    BY <1>1, <1>3, PlainTree DEF Present, Top

(* A lookup begins. *)
LEMMA StartReads ==
  ASSUME TypeOK, Shape, Reading, NEW below, TreeSorted(below), NEW k \in Key, avl_get(k),
         UNCHANGED <<treeVars, writerVars, keys>>, Overlap
  PROVE  Reading' /\ Search(below)'
  <1>1. rpc = "done" /\ rpc' = "compare" /\ sought' = k /\ cursor' = root
        /\ UNCHANGED <<memory, allocated, root, wpc, op, key, at, child, path, keys>>
    BY DEF avl_get, treeVars, writerVars
  <1>2. Recorded' /\ (raced' <=> RemovalUnderWay) /\ Current' \subseteq seen'
    BY <1>1, OverlapRecords
  <1>3. SameTree
    BY <1>1 DEF SameTree, Linked, Top, Present, Lefts, Rights, Datas, Contents, Copying, Building
  <1>4. ~raced' => cursor' \in Linked' \cup {NULL} /\ cursor' = Top
    BY <1>1, <1>2, <1>3, QuietTree DEF TreeSorted, Orders, IsTree, SameTree
  <1>5. Reading'
    BY <1>1, <1>2, <1>4 DEF Reading, Recorded
  <1>6. Search(below)'
    <2>1. SUFFICES ASSUME ~raced', NULL \notin seen'
                   PROVE  \E n \in Linked : Datas[n] = sought' /\ cursor' # NULL /\ <<cursor', n>> \in below
      BY <1>1, <1>3 DEF Search, Ahead, SameTree
    <2>2. sought' \in keys
      BY <1>1, <1>2, <2>1 DEF Current
    <2>3. PICK n \in Linked : Datas[n] = sought'
      BY <2>2 DEF Shape, KeysMatch
    <2>4. Top # NULL /\ <<Top, n>> \in below
      BY DEF TreeSorted, Orders, IsTree
    <2> QED
      BY <1>4, <2>1, <2>3, <2>4
  <1> QED
    BY <1>5, <1>6

(* A lookup goes on. *)
LEMMA ProgressReads ==
  ASSUME TypeOK, Shape, Reading, NEW below, TreeSorted(below), Search(below), ReaderProgress,
         UNCHANGED <<treeVars, writerVars, keys>>, Overlap
  PROVE  Reading' /\ Search(below)'
  <1>1. /\ rpc \in {"compare", "left", "right", "found"} /\ sought' = sought
        /\ UNCHANGED <<memory, allocated, root, wpc, op, key, at, child, path, keys>>
    BY DEF ReaderProgress, CompareData, FollowLink, ReturnData, ReturnNull, treeVars, writerVars
  <1>2. Recorded' /\ (raced => raced') /\ seen \subseteq seen'
    BY <1>1, OverlapRecords
  <1>3. SameTree
    BY <1>1 DEF SameTree, Linked, Top, Present, Lefts, Rights, Datas, Contents, Copying, Building
  <1>4. /\ Current \subseteq seen /\ (RemovalUnderWay => raced) /\ (raced => NULL \in seen)
        /\ (~raced => cursor \in Linked \cup {NULL})
    BY <1>1 DEF Reading, Recorded
  <1>5. Linked \subseteq allocated /\ NULL \notin Linked /\ allocated \subseteq Node
    BY LinkedNodes DEF TypeOK, TreeTypeOK
  <1>6. ~raced => /\ \A n \in Linked : /\ Lefts[n] = memory[n].left /\ Rights[n] = memory[n].right
                                       /\ Datas[n] = memory[n].data
                                       /\ memory[n].left \in Linked \cup {NULL}
                                       /\ memory[n].right \in Linked \cup {NULL}
    BY <1>4, QuietTree
  <1>7. CASE CompareData /\ cursor \notin allocated
    <2>1. rpc' = "fault" /\ cursor # NULL /\ raced
      BY <1>4, <1>5, <1>7 DEF CompareData, Outcomes
    <2> QED
      BY <1>2, <2>1 DEF Reading, Recorded, Search
  <1>13. CASE CompareData /\ cursor \in allocated /\ cursor = child /\ wpc \in {"new record", "fill"}
    <2>1. rpc = "compare" /\ rpc' \in {"left", "right", "found"} /\ cursor' = cursor /\ cursor # NULL
      BY <1>13 DEF CompareData, Outcomes
    <2>2. op = "add" /\ cursor \notin Linked
      BY <1>13, NodeInHand DEF Building
    <2>3. raced
      BY <1>4, <2>1, <2>2
    <2>4. DataOf(cursor)' \in Made
      BY <1>1, <1>13, <2>1, <2>2 DEF DataOf, Made, Record
    <2>5. DataOf(cursor)' \in seen'
      BY <1>2, <2>1, <2>3, <2>4 DEF Reading, Recorded
    <2> QED
      BY <1>2, <2>1, <2>3, <2>5 DEF Reading, Recorded, Search
  <1>8. CASE CompareData /\ cursor \in allocated /\ ~(cursor = child /\ wpc \in {"new record", "fill"})
    <2>1. /\ rpc = "compare" /\ cursor # NULL /\ cursor' = cursor
          /\ rpc' = (IF sought < memory[cursor].data THEN "left"
                     ELSE IF sought > memory[cursor].data THEN "right" ELSE "found")
          /\ DataOf(cursor)' = memory[cursor].data
      BY <1>1, <1>8 DEF CompareData, Outcomes, DataOf
    <2>2. memory[cursor].data \in Int /\ sought \in Int
      BY <1>5, <1>8, KeyAssumption DEF TypeOK, TreeTypeOK, ReaderTypeOK, avl_node
    <2>3. rpc' = "found" => memory[cursor].data \in seen'
      <3>1. SUFFICES ASSUME rpc' = "found" PROVE memory[cursor].data \in seen
        BY <1>2
      <3>2. memory[cursor].data = sought
        BY <2>1, <2>2, <3>1
      <3>3. sought \in keys => sought \in seen
        BY <1>4 DEF Current
      <3>4. CASE cursor \notin Linked
        <4>1. op = "add" /\ wpc \in {"clear left", "clear right", "link"} /\ at = NULL /\ cursor = child /\ raced
          BY <1>4, <1>8, <2>1, <3>4 DEF Linked, Building
        <4>2. memory[child].data = key
          BY <4>1, LeafInHand, NodeInHand DEF Building
        <4>3. key \in Made
          BY <4>1 DEF Made, Record, TypeOK, WriterTypeOK
        <4> QED
          BY <2>1, <4>1, <4>2, <4>3 DEF Reading, Recorded
      <3>5. CASE cursor \in Linked /\ ~(Copying /\ cursor = at)
        <4>1. Datas[cursor] = memory[cursor].data
          BY <3>5 DEF Datas, Contents
        <4> QED
          BY <3>2, <3>3, <3>5, <4>1 DEF Shape, KeysMatch
      <3>6. CASE Copying /\ cursor = at
        <4>1. child \in allocated /\ child # at /\ memory[at].data = memory[child].data
          BY <3>6 DEF Shape, Position, Taking, Building
        <4>2. child \in Linked /\ Datas[child] = memory[child].data
          BY <3>6, <4>1 DEF Linked, Copying, Datas, Contents, Building
        <4> QED
          BY <3>2, <3>3, <3>6, <4>1, <4>2 DEF Shape, KeysMatch
      <3> QED
        BY <3>4, <3>5, <3>6
    <2>4. rpc' \in {"left", "right", "found"}
      BY <2>1
    <2>5. Reading'
      BY <1>1, <1>2, <1>3, <1>4, <2>1, <2>3, <2>4 DEF Reading, Recorded, SameTree
    <2>6. Search(below)'
      <3>1. SUFFICES ASSUME ~raced', NULL \notin seen', rpc' \in {"left", "right"}
                     PROVE  \E n \in Linked : Datas[n] = sought /\ Ahead(below, n)'
        BY <1>1, <1>3, <2>4 DEF Search, SameTree
      <3>2. PICK n \in Linked : Datas[n] = sought /\ <<cursor, n>> \in below
        BY <1>2, <2>1, <3>1 DEF Search, Ahead
      <3>3. cursor \in Linked /\ Datas[cursor] = memory[cursor].data
        BY <1>2, <1>4, <1>6, <2>1, <3>1
      <3>4. n = cursor \/ Under(below, Lefts, cursor, n) \/ Under(below, Rights, cursor, n)
        BY <3>2, <3>3 DEF TreeSorted, Orders, IsTree
      <3>5. /\ Under(below, Lefts, cursor, n) => sought < memory[cursor].data
            /\ Under(below, Rights, cursor, n) => memory[cursor].data < sought
            /\ n = cursor => sought = memory[cursor].data
        BY <3>2, <3>3 DEF TreeSorted, Orders, IsSorted
      <3>6. CASE rpc' = "left"
        <4>1. sought < memory[cursor].data
          BY <2>1, <3>6
        <4>2. \A i, j \in Int : i < j => ~(j < i) /\ i # j
          OBVIOUS
        <4>3. Under(below, Lefts, cursor, n)
          BY <2>2, <3>4, <3>5, <4>1, <4>2
        <4>4. Under(below, Lefts, cursor, n)'
          BY <1>3, <2>1, <4>3 DEF SameTree, Under
        <4> QED
          BY <3>2, <3>6, <4>4 DEF Ahead
      <3>7. CASE rpc' = "right"
        <4>1. sought > memory[cursor].data
          BY <2>1, <3>7
        <4>2. \A i, j \in Int : i > j => j < i /\ ~(i < j) /\ i # j
          OBVIOUS
        <4>3. Under(below, Rights, cursor, n)
          BY <2>2, <3>4, <3>5, <4>1, <4>2
        <4>4. Under(below, Rights, cursor, n)'
          BY <1>3, <2>1, <4>3 DEF SameTree, Under
        <4> QED
          BY <3>2, <3>7, <4>4 DEF Ahead
      <3> QED
        BY <3>1, <3>6, <3>7
    <2> QED
      BY <2>5, <2>6
  <1>9. CASE FollowLink /\ (cursor \notin allocated \/ Unset(cursor))
    <2>1. rpc' = "fault" /\ cursor \in Node /\ cursor # NULL
      BY <1>9, NodeAssumption DEF FollowLink, TypeOK, ReaderTypeOK
    <2>2. cursor \notin Linked
      BY <1>5, <1>9, NodeInHand DEF Unset
    <2>3. raced
      BY <1>4, <2>1, <2>2
    <2> QED
      BY <1>2, <2>1, <2>3 DEF Reading, Recorded, Search
  <1>10. CASE FollowLink /\ cursor \in allocated /\ ~Unset(cursor)
    <2>1. rpc \in {"left", "right"} /\ rpc' = "compare" /\ cursor' = LinkOf(cursor)
      BY <1>10 DEF FollowLink
    <2>2. ~raced => cursor \in Linked
      BY <1>4, <1>5, <1>10, NodeAssumption
    <2>3. ~raced => /\ cursor' \in Linked \cup {NULL}
                    /\ cursor' = IF rpc = "left" THEN Lefts[cursor] ELSE Rights[cursor]
      BY <1>6, <2>1, <2>2 DEF LinkOf
    <2>4. Reading'
      BY <1>2, <1>3, <2>1, <2>3 DEF Reading, Recorded, SameTree
    <2>5. Search(below)'
      <3>1. SUFFICES ASSUME ~raced', NULL \notin seen'
                     PROVE  \E n \in Linked : Datas[n] = sought /\ cursor' # NULL /\ <<cursor', n>> \in below
        BY <1>1, <1>3, <2>1 DEF Search, SameTree, Ahead
      <3>2. PICK n \in Linked : Datas[n] = sought /\ Ahead(below, n)
        BY <1>1, <1>2, <2>1, <3>1 DEF Search
      <3>3. ~raced
        BY <1>2, <3>1
      <3> QED
        BY <2>1, <2>3, <3>2, <3>3 DEF Ahead, Under
    <2> QED
      BY <2>4, <2>5
  <1>11. CASE ReturnData
    <2>1. CASE cursor \notin allocated
      <3>1. rpc' = "fault" /\ cursor \in Node /\ raced
        BY <1>4, <1>5, <1>11, <2>1, NodeAssumption DEF ReturnData, TypeOK, ReaderTypeOK
      <3> QED
        BY <1>2, <3>1 DEF Reading, Recorded, Search
    <2>2. CASE cursor \in allocated
      <3>1. rpc = "found" /\ rpc' = "done" /\ result' = DataOf(cursor)
        BY <1>11, <2>2 DEF ReturnData
      <3>2. result' \in seen'
        BY <1>2, <2>2, <3>1 DEF Reading, Recorded
      <3> QED
        BY <1>2, <3>1, <3>2 DEF Reading, Recorded, Search
    <2> QED
      BY <2>1, <2>2
  <1>12. CASE ReturnNull
    <2>1. rpc = "compare" /\ cursor = NULL /\ rpc' = "done" /\ result' = NULL
      BY <1>12 DEF ReturnNull
    <2>2. NULL \in seen
      BY <1>4, <2>1 DEF Search, Ahead
    <2> QED
      BY <1>2, <2>1, <2>2 DEF Reading, Recorded, Search
  <1> QED
    BY <1>7, <1>8, <1>9, <1>10, <1>11, <1>12, <1>13 DEF ReaderProgress

(* The order goes on to hold on the nodes the reader may be on. *)
LEMMA LinkSearch ==
  ASSUME TypeOK, Shape, Reading, NEW below, TreeSorted(below), Descent(below), Search(below),
         LinkChild \/ LinkRoot, at = NULL, UNCHANGED readerVars, Overlap
  PROVE  \E new : TreeSorted(new)' /\ Search(new)' /\ Linked \subseteq Linked'
  <1>1. UNCHANGED <<rpc, sought, cursor, result>> /\ wpc = "link" /\ op' = op
    BY DEF readerVars, LinkChild, LinkRoot, Return
  <1>2. rpc # "done" => (raced => raced') /\ seen \subseteq seen'
    BY <1>1, OverlapRecords
  <1>3. NULL \notin Linked
    BY LinkedNodes
  <1>4. CASE LinkRoot
    <2>1. Linked = {} /\ \E new : TreeSorted(new)'
      BY <1>4, LinkFirstKeeps
    <2>2. Linked = {} => (\A b : Search(b) => rpc \notin {"compare", "left", "right"} \/ raced \/ NULL \in seen)
      BY DEF Search
    <2>3. \A b : Search(b)'
      BY <1>1, <1>2, <2>1, <2>2 DEF Search
    <2> QED
      BY <2>1, <2>3
  <1>5. CASE LinkChild
    <2>1. PICK new : TreeSorted(new)' /\ \A x, y \in Linked : <<x, y>> \in new <=> <<x, y>> \in below
      BY <1>5, LinkLeafKeeps
    <2>2. /\ Linked' = Linked \cup {child} /\ IF key < Datas[Last] THEN Lefts[Last] = NULL ELSE Rights[Last] = NULL
          /\ \A x \in Linked : /\ Lefts'[x] = (IF x = Last /\ key < Datas[Last] THEN child ELSE Lefts[x])
                               /\ Rights'[x] = (IF x = Last /\ ~(key < Datas[Last]) THEN child ELSE Rights[x])
                               /\ Datas'[x] = Datas[x]
      BY <1>5, LinkLeafKeeps
    <2>3. \A x \in Linked : /\ Lefts[x] # NULL => Lefts'[x] = Lefts[x]
                            /\ Rights[x] # NULL => Rights'[x] = Rights[x]
                            /\ Lefts[x] \in Linked \cup {NULL} /\ Rights[x] \in Linked \cup {NULL}
      BY <2>2 DEF TreeSorted, Orders, IsTree
    <2>4. Search(new)'
      <3>1. SUFFICES ASSUME rpc \in {"compare", "left", "right"}, ~raced', NULL \notin seen'
                     PROVE  \E n \in Linked' : Datas'[n] = sought /\ Ahead(new, n)'
        BY <1>1 DEF Search
      <3>2. PICK n \in Linked : Datas[n] = sought /\ Ahead(below, n)
        BY <1>2, <3>1 DEF Search
      <3>3. cursor \in Linked \cup {NULL} /\ (rpc # "compare" => cursor # NULL)
        BY <1>2, <3>1, NodeAssumption DEF Reading, Recorded, TypeOK, ReaderTypeOK
      <3>4. Ahead(new, n)'
        <4>1. CASE rpc = "compare"
          BY <1>1, <2>1, <3>2, <3>3, <4>1 DEF Ahead
        <4>2. CASE rpc = "left"
          <5>1. cursor \in Linked /\ Lefts[cursor] # NULL /\ <<Lefts[cursor], n>> \in below
            BY <3>2, <3>3, <4>2 DEF Ahead, Under
          <5>2. Lefts'[cursor] = Lefts[cursor] /\ <<Lefts[cursor], n>> \in new
            BY <2>1, <2>3, <5>1
          <5> QED
            BY <1>1, <4>2, <5>1, <5>2 DEF Ahead, Under
        <4>3. CASE rpc = "right"
          <5>1. cursor \in Linked /\ Rights[cursor] # NULL /\ <<Rights[cursor], n>> \in below
            BY <3>2, <3>3, <4>3 DEF Ahead, Under
          <5>2. Rights'[cursor] = Rights[cursor] /\ <<Rights[cursor], n>> \in new
            BY <2>1, <2>3, <5>1
          <5> QED
            BY <1>1, <4>3, <5>1, <5>2 DEF Ahead, Under
        <4> QED
          BY <3>1, <4>1, <4>2, <4>3
      <3> QED
        BY <2>2, <3>2, <3>4
    <2> QED
      BY <2>1, <2>2, <2>4
  <1> QED
    BY <1>4, <1>5

(* The nodes a writer's step gives new contents to *)
LEMMA WriterReads ==
  ASSUME TypeOK, Shape, Reading, WriterStep, UNCHANGED readerVars, Overlap,
         Linked \subseteq Linked' \/ RemovalUnderWay'
  PROVE  Reading'
  <1>1. UNCHANGED <<rpc, sought, cursor, result>>
    BY DEF readerVars
  <1>2. /\ Recorded'
        /\ rpc # "done" => (raced => raced') /\ (RemovalUnderWay' => raced') /\ seen \subseteq seen'
                           /\ (raced' => Strays \subseteq seen')
        /\ rpc = "done" => seen' = seen
    BY <1>1, OverlapRecords
  <1>3. rpc \notin {"done", "fault"} /\ ~raced' => cursor \in Linked' \cup {NULL}
    BY <1>2 DEF Reading, Recorded
  <1>4. ASSUME rpc = "found", cursor \in allocated' PROVE DataOf(cursor)' \in seen'
    <2>1. cursor \in allocated => DataOf(cursor) \in seen'
      BY <1>2, <1>4 DEF Reading, Recorded
    <2>2. memory \in [Node -> avl_node] /\ cursor \in Node /\ allocated \subseteq Node
      BY <1>4 DEF TypeOK, TreeTypeOK, ReaderTypeOK
    <2>3. CASE NewNode \/ MallocRecord \/ FillRecord
      <3>1. /\ wpc' \in {"new record", "fill", "clear left"} /\ op' = "add" /\ key' \in Key
            /\ child' \in Node \ Linked
            /\ wpc' = "clear left" => memory'[child'].data = key'
        <4>1. CASE NewNode
          BY <4>1, LinkedNodes DEF NewNode, TypeOK, WriterTypeOK
        <4>2. CASE MallocRecord \/ FillRecord
          BY <4>2, NodeInHand DEF MallocRecord, FillRecord, treeVars, TypeOK, WriterTypeOK, Building
        <4> QED
          BY <2>3, <4>1, <4>2
      <3>2. CASE cursor = child'
        <4>1. raced
          BY <1>4, <2>2, <3>1, <3>2, NodeAssumption DEF Reading
        <4>2. DataOf(cursor)' \in Made'
          BY <1>1, <3>1, <3>2 DEF DataOf, Made, Record
        <4> QED
          BY <1>2, <1>4, <4>1, <4>2 DEF Strays
      <3>3. CASE cursor # child'
        <4>1. /\ cursor \in allocated /\ memory'[cursor].data = memory[cursor].data
              /\ cursor # child \/ wpc \notin {"new record", "fill"}
          <5>1. CASE NewNode
            <6>1. PICK n \in Node \ allocated :
                    /\ allocated' = allocated \cup {n} /\ child' = n
                    /\ memory' = [memory EXCEPT ![n].height = 1, ![n].data = key]
              BY <5>1 DEF NewNode
            <6>2. memory'[cursor] = memory[cursor]
              BY <2>2, <3>3, <6>1
            <6> QED
              BY <1>4, <3>3, <5>1, <6>1, <6>2 DEF NewNode
          <5>2. CASE MallocRecord \/ FillRecord
            BY <1>4, <3>3, <5>2 DEF MallocRecord, FillRecord, treeVars
          <5> QED
            BY <2>3, <5>1, <5>2
        <4> QED
          BY <1>1, <2>1, <3>3, <4>1 DEF DataOf
      <3> QED
        BY <3>2, <3>3
    <2>4. CASE CopyData
      <3>1. allocated' = allocated /\ at \in Node /\ wpc' = "copy left" /\ op' = "remove"
        BY <2>4 DEF CopyData, Removing, TypeOK, WriterTypeOK, Link
      <3>2. PICK c : c = child'
        OBVIOUS
      <3>3. memory' = [memory EXCEPT ![at].height = memory[c].height, ![at].data = memory[c].data]
        BY <2>4, <3>2 DEF CopyData
      <3>4. memory[c].data \in seen'
        <4>1. memory[child'].data \in Strays /\ RemovalUnderWay'
          BY <3>1 DEF Strays, RemovalUnderWay
        <4> QED
          BY <1>2, <1>4, <3>2, <4>1
      <3>5. memory'[cursor].data \in {memory[cursor].data, memory[c].data}
        BY <2>2, <3>1, <3>3 DEF avl_node
      <3>6. DataOf(cursor) = memory[cursor].data /\ DataOf(cursor)' = memory'[cursor].data
        BY <1>1, <2>4 DEF CopyData, Removing, DataOf
      <3> QED
        BY <1>4, <2>1, <3>1, <3>4, <3>5, <3>6
    <2>5. CASE ~(NewNode \/ MallocRecord \/ FillRecord) /\ ~CopyData
      <3>1. allocated' \subseteq allocated
        BY <2>5 DEF WriterStep, WriterProgress, Call, Descend, Refuse, ClearLeft, ClearRight, RemoveLeaf,
                    RemoveNothing, CopyLeft, CopyRight, FreeChild, UpdateHeight, LinkChild, LinkRoot, treeVars
      <3>2. memory'[cursor].data = memory[cursor].data
        <4>1. CASE memory' = memory
          BY <4>1
        <4>2. CASE CopyLeft \/ CopyRight
          BY <2>2, <4>2, ZenonT(60) DEF CopyLeft, CopyRight, avl_node
        <4>3. CASE UpdateHeight
          BY <2>2, <4>3 DEF UpdateHeight, avl_node
        <4>4. CASE LinkChild
          BY <2>2, <4>4 DEF LinkChild, avl_node
        <4>5. CASE ClearLeft \/ ClearRight
          BY <2>2, <4>5 DEF ClearLeft, ClearRight, avl_node
        <4> QED
          BY <2>5, <4>1, <4>2, <4>3, <4>4, <4>5
          DEF WriterStep, WriterProgress, Call, Descend, Refuse, RemoveLeaf, RemoveNothing, FreeChild,
              LinkRoot, treeVars
      <3>3. wpc \notin {"new record", "fill"} /\ wpc' \notin {"new record", "fill"}
        BY <2>5 DEF WriterStep, WriterProgress, Call, Descend, Refuse, Return, ClearLeft, ClearRight, RemoveLeaf,
                    RemoveNothing, Removing, CopyLeft, CopyRight, FreeChild, UpdateHeight, LinkChild, LinkRoot
      <3> QED
        BY <1>1, <1>4, <2>1, <3>1, <3>2, <3>3 DEF DataOf
    <2> QED
      BY <2>3, <2>4, <2>5
  <1>5. (rpc = "done" => result \in seen') /\ (rpc = "fault" => raced')
    BY <1>2 DEF Reading, Recorded
  <1> QED
    BY <1>1, <1>2, <1>3, <1>4, <1>5 DEF Reading, Recorded

-----------------------------------------------------------------------------
(* The invariant, and the lookups *)

(* It holds of the empty tree. *)
LEMMA ListInvInit == Init => ListInv
  <1>1. SUFFICES ASSUME Init PROVE ListInv
    OBVIOUS
  <1>2. Linked = {} /\ ~Copying /\ ~Unhooked
    BY <1>1 DEF Init, Linked, Copying, Unhooked, Building
  <1>3. Top = NULL /\ Lefts = <<>> /\ Rights = <<>> /\ Datas = <<>>
    BY <1>1, <1>2 DEF Init, Top, Present, Lefts, Rights, Datas
  <1>4. Shape
    BY <1>1, <1>2, <1>3 DEF Init, Shape, Pointers, Position, KeysMatch, Building
  <1>5. Added /\ Reading
    BY <1>1 DEF Init, Added, Reading, Recorded, Current
  <1>6. TreeSorted({}) /\ Descent({}) /\ Search({})
    BY <1>1, <1>2, <1>3 DEF Init, TreeSorted, Orders, IsTree, OneParent, IsSorted, Descent, Search, Falling, Building
  <1> QED
    BY <1>1, <1>4, <1>5, <1>6, InvInductive DEF ListInv

(* Every step of the writer and of the reader keeps it. *)
LEMMA ListInvNext == ListInv /\ [Next]_vars => ListInv'
  <1>1. SUFFICES ASSUME ListInv, [Next]_vars PROVE ListInv'
    OBVIOUS
  <1>2. Inv' /\ TypeOK
    BY <1>1, InvInductive DEF ListInv, Inv
  <1>3. PICK below : TreeSorted(below) /\ Descent(below) /\ Search(below)
    BY <1>1 DEF ListInv
  <1>4. Shape /\ Added /\ Reading
    BY <1>1 DEF ListInv
  <1>5. CASE WriterStep /\ UNCHANGED readerVars /\ Overlap
    <2>1. /\ Shape' /\ Added'
          /\ \/ SameTree /\ TreeSorted(below)' /\ Descent(below)'
             \/ (LinkChild \/ LinkRoot) /\ at = NULL
             \/ RemoveLeaf
             \/ FreeChild
          /\ ~Falling' => \A b : Descent(b)'
      BY <1>2, <1>3, <1>4, <1>5, WriterCases
    <2>2. UNCHANGED <<rpc, sought, cursor>> /\ (rpc # "done" => (raced => raced') /\ (RemovalUnderWay' => raced') /\ seen \subseteq seen')
      BY <1>5, OverlapRecords DEF readerVars
    <2>3. CASE SameTree /\ TreeSorted(below)' /\ Descent(below)'
      <3>1. Search(below)'
        BY <1>3, <2>2, <2>3 DEF Search, Ahead, Under, SameTree
      <3>2. Reading'
        BY <1>2, <1>4, <1>5, <2>3, WriterReads DEF SameTree
      <3> QED
        BY <1>2, <2>1, <2>3, <3>1, <3>2 DEF ListInv
    <2>4. CASE (LinkChild \/ LinkRoot) /\ at = NULL
      <3>1. PICK new : TreeSorted(new)' /\ Search(new)' /\ Linked \subseteq Linked'
        BY <1>2, <1>3, <1>4, <1>5, <2>4, LinkSearch
      <3>2. Reading'
        BY <1>2, <1>4, <1>5, <3>1, WriterReads
      <3>3. wpc' \in {"height", "idle"}
        BY <2>4 DEF LinkChild, LinkRoot, Return
      <3> QED
        BY <1>2, <2>1, <3>1, <3>2, <3>3 DEF ListInv, Falling, Building
    <2>5. CASE RemoveLeaf \/ FreeChild
      <3>1. TreeSorted(below)'
        BY <1>2, <1>3, <1>4, <2>5, RemoveLeafKeeps, FreeChildKeeps
      <3>2. RemovalUnderWay' /\ ~Falling'
        BY <1>4, <2>5 DEF Falling, RemoveLeaf, FreeChild, Removing, RemovalUnderWay, Shape, Position, Copying, Taking, Building
      <3>3. Reading'
        BY <1>2, <1>4, <1>5, <3>2, WriterReads
      <3>4. Search(below)' /\ Descent(below)'
        BY <2>1, <2>2, <3>2 DEF Search
      <3> QED
        BY <1>2, <2>1, <3>1, <3>3, <3>4 DEF ListInv
    <2> QED
      BY <2>1, <2>3, <2>4, <2>5
  <1>6. CASE (ReaderStep /\ UNCHANGED <<treeVars, writerVars, keys>> /\ Overlap) \/ UNCHANGED vars
    <2>1. UNCHANGED <<memory, allocated, root, wpc, op, key, at, child, path, keys>>
      BY <1>6 DEF vars, treeVars, writerVars
    <2>2. SameTree
      BY <2>1 DEF SameTree, Linked, Top, Present, Lefts, Rights, Datas, Contents, Copying, Building
    <2>3. Shape' /\ Added'
      <3>1. Pointers'
        BY <1>4, <2>1, <2>2 DEF Shape, Pointers, SameTree, Unhooked, Last, Before
      <3>2. Position'
        BY <1>4, <2>1, <2>2 DEF Shape, Position, SameTree, WayTo, Copying, Taking, Making, Returning, Last, Building
      <3>3. KeysMatch'
        BY <1>4, <2>1, <2>2 DEF Shape, KeysMatch, SameTree
      <3> QED
        BY <1>4, <2>1, <3>1, <3>2, <3>3 DEF Shape, Added
    <2>4. TreeSorted(below)' /\ Descent(below)'
      BY <1>3, <2>1, <2>2 DEF TreeSorted, Descent, SameTree, Beyond, Last, Falling, Building
    <2>5. CASE UNCHANGED vars
      <3>1. UNCHANGED <<rpc, sought, cursor, result, raced, seen>>
        BY <2>5 DEF vars, readerVars
      <3>2. Search(below)'
        BY <1>3, <2>2, <3>1 DEF Search, Ahead, Under, SameTree
      <3>3. Reading'
        BY <1>4, <2>1, <2>2, <3>1 DEF Reading, Recorded, SameTree, Current, RemovalUnderWay, Made, DataOf
      <3> QED
        BY <1>2, <2>3, <2>4, <3>2, <3>3 DEF ListInv
    <2>6. CASE ReaderStep /\ UNCHANGED <<treeVars, writerVars, keys>> /\ Overlap
      <3>1. Reading' /\ Search(below)'
        BY <1>2, <1>3, <1>4, <2>6, StartReads, ProgressReads DEF ReaderStep
      <3> QED
        BY <1>2, <2>3, <2>4, <3>1 DEF ListInv
    <2> QED
      BY <1>6, <2>5, <2>6
  <1> QED
    BY <1>1, <1>5, <1>6 DEF Next

(***************************************************************************)
(* Whatever calls the admin thread makes while the client thread looks a   *)
(* key up: a lookup that no removal overlaps returns what the tree has or  *)
(* had of it at some moment, however many additions go on beside it; one   *)
(* that a removal overlaps returns nothing that LookupAllowed does not     *)
(* list; and the reader meets freed memory in no other case.               *)
(***************************************************************************)
THEOREM LookupsAllowed == Spec => []LookupAllowed
  <1>1. ListInv => LookupAllowed
    BY DEF ListInv, Reading, Recorded, LookupAllowed
  <1> QED
    BY <1>1, ListInvInit, ListInvNext, PTL DEF Spec

-----------------------------------------------------------------------------
(* The tree of UserList that the tree in memory stands for *)

ListData  == [k \in Key |-> IF NodesOf(k) # {} THEN k ELSE NULL]
ListRoot  == Name(root)
ListLeft  == [k \in Key |->
               IF NodesOf(k) # {} THEN Name(Contents(CHOOSE n \in NodesOf(k) : TRUE).left) ELSE NULL]
ListRight == [k \in Key |->
               IF NodesOf(k) # {} THEN Name(Contents(CHOOSE n \in NodesOf(k) : TRUE).right) ELSE NULL]

Label(n) == IF n \in Linked THEN Datas[n] ELSE NULL

ListIsTree ==
  /\ ListData = [k \in Key |-> IF k \in keys THEN k ELSE NULL]
  /\ ListRoot = Label(Top)
  /\ ListLeft = [k \in Key |-> ListLeft[k]] /\ ListRight = [k \in Key |-> ListRight[k]]
  /\ \A n \in Linked : ListLeft[Datas[n]] = Label(Lefts[n]) /\ ListRight[Datas[n]] = Label(Rights[n])
  /\ \A k \in Key \ keys : ListLeft[k] = NULL /\ ListRight[k] = NULL

(* The data, root, left and right that AvlTree gives to UserList are the tree's. *)
LEMMA ListSeen == ListInv => ListIsTree
  <1>1. SUFFICES ASSUME ListInv PROVE ListIsTree
    OBVIOUS
  <1>2. TypeOK /\ keys = {Datas[n] : n \in Linked} /\ \A x, y \in Linked : Datas[x] = Datas[y] => x = y
    BY <1>1 DEF ListInv, Inv, Shape, KeysMatch, TreeSorted, Orders, IsSorted
  <1>3. NULL \notin Linked /\ \A n \in Linked : Datas[n] \in Key
    BY <1>2, LinkedNodes
  <1>4. \A n \in Linked : Datas[n] = Contents(n).data
    BY DEF Datas
  <1>5. \A n : Name(n) = Label(n)
    BY <1>4 DEF Name, Label
  <1>6. \A n : Label(Present(n)) = Label(n)
    BY <1>3 DEF Label, Present
  <1>7. \A k \in Key : NodesOf(k) # {} <=> k \in keys
    BY <1>2, <1>4 DEF NodesOf
  <1>8. \A n \in Linked : NodesOf(Datas[n]) = {n}
    BY <1>2, <1>4 DEF NodesOf
  <1>9. \A n \in Linked : (CHOOSE m \in NodesOf(Datas[n]) : TRUE) = n
    <2>1. TAKE n \in Linked
    <2>2. \E m : m \in NodesOf(Datas[n])
      BY <1>8
    <2>3. (CHOOSE m \in NodesOf(Datas[n]) : TRUE) \in NodesOf(Datas[n])
      BY <2>2
    <2> QED
      BY <1>8, <2>3
  <1>10. \A n \in Linked : ListLeft[Datas[n]] = Label(Lefts[n]) /\ ListRight[Datas[n]] = Label(Rights[n])
    <2>1. TAKE n \in Linked
    <2>2. NodesOf(Datas[n]) # {} /\ Datas[n] \in Key
      BY <1>3, <1>8
    <2>3. /\ ListLeft[Datas[n]] = Name(Contents(CHOOSE m \in NodesOf(Datas[n]) : TRUE).left)
          /\ ListRight[Datas[n]] = Name(Contents(CHOOSE m \in NodesOf(Datas[n]) : TRUE).right)
      BY <2>2 DEF ListLeft, ListRight
    <2>4. ListLeft[Datas[n]] = Name(Contents(n).left) /\ ListRight[Datas[n]] = Name(Contents(n).right)
      BY <1>9, <2>3
    <2>5. Lefts[n] = Present(Contents(n).left) /\ Rights[n] = Present(Contents(n).right)
      BY DEF Lefts, Rights
    <2> QED
      BY <1>5, <1>6, <2>4, <2>5
  <1>11. \A k \in Key \ keys : ListLeft[k] = NULL /\ ListRight[k] = NULL
    BY <1>7 DEF ListLeft, ListRight
  <1>12. ListData = [k \in Key |-> IF k \in keys THEN k ELSE NULL]
    BY <1>7 DEF ListData
  <1>13. ListRoot = Label(Top)
    BY <1>5, <1>6 DEF ListRoot, Top
  <1>14. ListLeft = [k \in Key |-> ListLeft[k]] /\ ListRight = [k \in Key |-> ListRight[k]]
    BY DEF ListLeft, ListRight
  <1> QED
    BY <1>10, <1>11, <1>12, <1>13, <1>14 DEF ListIsTree

(* The operations of UserList on it: none, *)
LEMMA ListStays ==
  ASSUME UNCHANGED <<ListData, ListRoot, ListLeft, ListRight>>
  PROVE  UNCHANGED List!treeVars
  BY DEF List!treeVars, ListData, ListRoot, ListLeft, ListRight

(* the insertion *)
LEMMA ListGrows ==
  ASSUME NEW k \in Key, ListData[k] = NULL,
         {u \in Key : ListData'[u] # NULL} = {u \in Key : ListData[u] # NULL} \cup {k},
         \/ /\ {u \in Key : ListData[u] # NULL} = {}
            /\ ListRoot' = k /\ UNCHANGED <<ListLeft, ListRight>>
         \/ \E p \in {u \in Key : ListData[u] # NULL} :
              /\ \A w \in {u \in Key : ListData[u] # NULL} : ~((k < w /\ w < p) \/ (p < w /\ w < k))
              /\ \/ /\ k < p /\ ListLeft[p] = NULL
                    /\ ListLeft' = [ListLeft EXCEPT ![p] = k] /\ UNCHANGED <<ListRoot, ListRight>>
                 \/ /\ p < k /\ ListRight[p] = NULL
                    /\ ListRight' = [ListRight EXCEPT ![p] = k] /\ UNCHANGED <<ListRoot, ListLeft>>
  PROVE  ListAdd(k)
  <1>1. List!Users = {u \in Key : ListData[u] # NULL}
    BY DEF List!Users, ListData
  <1>2. List!Users' = {u \in Key : ListData'[u] # NULL}
    BY DEF List!Users, ListData
  <1>3. List!avl_get(k) = NULL
    BY DEF List!avl_get, ListData
  <1>4. List!private_avl_add(k)
    <2>1. CASE List!Users = {} /\ ListRoot' = k /\ UNCHANGED <<ListLeft, ListRight>>
      BY <2>1 DEF List!private_avl_add, ListRoot, ListLeft, ListRight
    <2>2. ASSUME NEW p \in List!Users,
                 \A w \in List!Users : ~((k < w /\ w < p) \/ (p < w /\ w < k)),
                 k < p /\ ListLeft[p] = NULL,
                 ListLeft' = [ListLeft EXCEPT ![p] = k] /\ UNCHANGED <<ListRoot, ListRight>>
          PROVE  List!private_avl_add(k)
      <3>1. List!Between(k, p) = {}
        BY <2>2 DEF List!Between
      <3>2. List!LeftSlot(k, p)
        BY <2>2, <3>1 DEF List!LeftSlot, ListLeft
      <3> QED
        BY <2>2, <3>2 DEF List!private_avl_add, ListRoot, ListLeft, ListRight
    <2>3. ASSUME NEW p \in List!Users,
                 \A w \in List!Users : ~((k < w /\ w < p) \/ (p < w /\ w < k)),
                 p < k /\ ListRight[p] = NULL,
                 ListRight' = [ListRight EXCEPT ![p] = k] /\ UNCHANGED <<ListRoot, ListLeft>>
          PROVE  List!private_avl_add(k)
      <3>1. List!Between(k, p) = {}
        BY <2>3 DEF List!Between
      <3>2. List!RightSlot(k, p)
        BY <2>3, <3>1 DEF List!RightSlot, ListRight
      <3> QED
        BY <2>3, <3>2 DEF List!private_avl_add, ListRoot, ListLeft, ListRight
    <2> QED
      BY <1>1, <2>1, <2>2, <2>3
  <1> QED
    BY <1>1, <1>2, <1>3, <1>4 DEF ListAdd

(* the removal of a key with at most one child; o is that child, or NULL *)
LEMMA ListShrinks ==
  ASSUME NEW k \in Key, ListData[k] # NULL, NEW o, ListLeft[k] = NULL \/ ListRight[k] = NULL,
         o = IF ListLeft[k] # NULL THEN ListLeft[k] ELSE ListRight[k],
         ListData' = [ListData EXCEPT ![k] = NULL],
         ListRoot' = IF ListRoot = k THEN o ELSE ListRoot,
         ListLeft' = [n \in Key |-> IF n = k THEN NULL ELSE IF ListLeft[n] = k THEN o ELSE ListLeft[n]],
         ListRight' = [n \in Key |-> IF n = k THEN NULL ELSE IF ListRight[n] = k THEN o ELSE ListRight[n]]
  PROVE  List!avl_get(k) # NULL /\ List!private_avl_remove(k)
  <1>1. List!avl_get(k) # NULL
    BY DEF List!avl_get, ListData
  <1>2. ~List!HasTwoChildren(k)
    BY DEF List!HasTwoChildren, ListLeft, ListRight
  <1>3. List!OnlyChild(k) = o
    BY DEF List!OnlyChild, ListLeft, ListRight
  <1>4. \A n : List!Splice(n, k) = IF n = k THEN o ELSE n
    BY <1>3 DEF List!Splice
  <1>5. /\ ListRoot' = List!Splice(ListRoot, k)
        /\ ListLeft' = [n \in Key |-> IF n = k THEN NULL ELSE List!Splice(ListLeft[n], k)]
        /\ ListRight' = [n \in Key |-> IF n = k THEN NULL ELSE List!Splice(ListRight[n], k)]
    BY <1>4
  <1>6. List!Unlink(k)
    BY <1>2, <1>5 DEF List!Unlink, ListData, ListRoot, ListLeft, ListRight
  <1> QED
    BY <1>1, <1>6 DEF List!private_avl_remove

(* A step that leaves the tree as it is *)
LEMMA SameTreeSameList ==
  ASSUME ListInv, ListIsTree, ListInv', ListIsTree', SameTree
  PROVE  UNCHANGED List!treeVars
  <1>1. keys = {Datas[n] : n \in Linked} /\ keys' = {Datas'[n] : n \in Linked'}
    BY DEF ListInv, Shape, KeysMatch
  <1>2. keys' = keys
    BY <1>1 DEF SameTree
  <1>3. \A n : Label(n)' = Label(n)
    BY DEF SameTree, Label
  <1>4. ListData' = ListData /\ ListRoot' = ListRoot
    BY <1>2, <1>3 DEF ListIsTree, SameTree, Label
  <1>5. \A k \in Key : ListLeft'[k] = ListLeft[k] /\ ListRight'[k] = ListRight[k]
    <2>1. TAKE k \in Key
    <2>2. CASE k \notin keys
      BY <1>2, <2>2 DEF ListIsTree
    <2>3. CASE k \in keys
      <3>1. PICK n \in Linked : k = Datas[n]
        BY <1>1, <2>3
      <3>2. /\ ListLeft[k] = Label(Lefts[n]) /\ ListRight[k] = Label(Rights[n])
            /\ ListLeft'[k] = Label(Lefts[n])' /\ ListRight'[k] = Label(Rights[n])'
        BY <3>1 DEF ListIsTree, SameTree
      <3> QED
        BY <3>2 DEF SameTree, Label
    <2> QED
      BY <2>2, <2>3
  <1>6. ListLeft' = ListLeft /\ ListRight' = ListRight
    BY <1>5 DEF ListIsTree
  <1> QED
    BY <1>4, <1>6, ListStays

(* The keys of the list are those of the nodes, each of one node. *)
LEMMA ListKeys ==
  ASSUME ListInv, ListIsTree
  PROVE  /\ keys = {Datas[n] : n \in Linked} /\ keys \subseteq Key
         /\ \A x, y \in Linked : Datas[x] = Datas[y] => x = y
         /\ NULL \notin Linked
         /\ \A n \in Linked : /\ Datas[n] \in Key /\ Datas[n] # NULL /\ Label(n) = Datas[n]
                              /\ Lefts[n] \in Linked \cup {NULL} /\ Rights[n] \in Linked \cup {NULL}
         /\ Label(NULL) = NULL /\ Top \in Linked \cup {NULL}
         /\ \A k \in Key : ListData[k] # NULL <=> k \in keys
  <1>1. TypeOK /\ keys = {Datas[n] : n \in Linked} /\ \A x, y \in Linked : Datas[x] = Datas[y] => x = y
    BY DEF ListInv, Inv, Shape, KeysMatch, TreeSorted, Orders, IsSorted
  <1>2. NULL \notin Linked /\ \A n \in Linked : Datas[n] \in Key
    BY <1>1, LinkedNodes
  <1>3. \A n \in Linked : Lefts[n] \in Linked \cup {NULL} /\ Rights[n] \in Linked \cup {NULL}
    BY DEF ListInv, TreeSorted, Orders, IsTree
  <1>4. Top \in Linked \cup {NULL}
    BY DEF ListInv, TreeSorted, Orders, IsTree
  <1>5. \A k \in Key : k # NULL
    BY KeyAssumption
  <1>6. \A k \in Key : ListData[k] # NULL <=> k \in keys
    BY <1>5 DEF ListIsTree
  <1> QED
    BY <1>1, <1>2, <1>3, <1>4, <1>5, <1>6 DEF Label

(* LinkRoot of a new leaf is the insertion into the empty list. *)
LEMMA FirstListed ==
  ASSUME ListInv, ListIsTree, ListInv', ListIsTree', LinkRoot, at = NULL
  PROVE  ListAdd(key)
  <1>1. TypeOK /\ Shape /\ \E below : TreeSorted(below)
    BY DEF ListInv, Inv
  <1>2. PICK c : c = child
    OBVIOUS
  <1>3. /\ c # NULL /\ Linked = {} /\ Linked' = {c} /\ Top' = c
        /\ Lefts' = [n \in {c} |-> NULL] /\ Rights' = [n \in {c} |-> NULL]
        /\ Datas' = [n \in {c} |-> key]
    BY <1>1, <1>2, LinkFirstKeeps
  <1>4. key \in Key /\ key # NULL
    BY <1>1, KeyAssumption DEF TypeOK, WriterTypeOK
  <1>5. keys = {} /\ keys' = {key}
    <2>1. keys = {Datas[n] : n \in Linked} /\ keys' = {Datas'[n] : n \in Linked'}
      BY DEF ListInv, Shape, KeysMatch
    <2> QED
      BY <1>3, <2>1
  <1>6. Label(c)' = key /\ Label(NULL)' = NULL
    BY <1>3 DEF Label
  <1>7. ListRoot' = key
    BY <1>3, <1>6 DEF ListIsTree, Label
  <1>8. \A k \in Key : /\ ListLeft[k] = NULL /\ ListRight[k] = NULL
                       /\ ListLeft'[k] = NULL /\ ListRight'[k] = NULL
    <2>1. ListLeft'[key] = NULL /\ ListRight'[key] = NULL
      <3>1. /\ ListLeft'[Datas'[c]] = Label(Lefts[c])' /\ ListRight'[Datas'[c]] = Label(Rights[c])'
            /\ Datas'[c] = key /\ Lefts'[c] = NULL /\ Rights'[c] = NULL
        BY <1>3 DEF ListIsTree
      <3> QED
        BY <1>6, <3>1 DEF Label
    <2> QED
      BY <1>5, <2>1 DEF ListIsTree
  <1>9. UNCHANGED <<ListLeft, ListRight>>
    BY <1>8 DEF ListIsTree
  <1>10. ListData[key] = NULL /\ {u \in Key : ListData[u] # NULL} = {}
         /\ {u \in Key : ListData'[u] # NULL} = {key}
    BY <1>4, <1>5 DEF ListIsTree
  <1>11. PICK k \in Key : k = key
    BY <1>4
  <1>12. ListAdd(k)
    BY <1>7, <1>9, <1>10, <1>11, ListGrows
  <1> QED
    BY <1>11, <1>12

(* LinkChild of a new leaf is the insertion of its key below its parent's. *)
LEMMA LeafListed ==
  ASSUME ListInv, ListIsTree, ListInv', ListIsTree', LinkChild, at = NULL
  PROVE  ListAdd(key)
  <1>1. TypeOK /\ Shape
    BY DEF ListInv, Inv
  <1>2. PICK below : TreeSorted(below) /\ Descent(below)
    BY DEF ListInv
  <1>3. PICK c : c = child
    OBVIOUS
  <1>4. PICK p : p = Last
    OBVIOUS
  <1>5. PICK k \in Key : k = key
    BY <1>1 DEF TypeOK, WriterTypeOK
  <1>6. /\ c # NULL /\ c \notin Linked /\ Linked' = Linked \cup {c}
        /\ p \in Linked /\ Top' = Top
        /\ IF k < Datas[p] THEN Lefts[p] = NULL ELSE Rights[p] = NULL
        /\ \A x \in Linked : Datas[x] # k /\ ~Inside(Datas[x], k, Datas[p])
        /\ Lefts'[c] = NULL /\ Rights'[c] = NULL /\ Datas'[c] = k
        /\ \A x \in Linked : /\ Lefts'[x] = (IF x = p /\ k < Datas[p] THEN c ELSE Lefts[x])
                             /\ Rights'[x] = (IF x = p /\ ~(k < Datas[p]) THEN c ELSE Rights[x])
                             /\ Datas'[x] = Datas[x]
    BY <1>1, <1>2, <1>3, <1>4, <1>5, LinkLeafKeeps
  <1>7. /\ keys = {Datas[n] : n \in Linked} /\ keys \subseteq Key /\ NULL \notin Linked
        /\ \A x, y \in Linked : Datas[x] = Datas[y] => x = y
        /\ \A n \in Linked : /\ Datas[n] \in Key /\ Datas[n] # NULL /\ Label(n) = Datas[n]
                             /\ Lefts[n] \in Linked \cup {NULL} /\ Rights[n] \in Linked \cup {NULL}
        /\ Label(NULL) = NULL /\ Top \in Linked \cup {NULL}
        /\ \A u \in Key : ListData[u] # NULL <=> u \in keys
    BY ListKeys
  <1>8. k \notin keys /\ keys' = keys \cup {k}
    <2>1. keys' = {Datas'[n] : n \in Linked'}
      BY DEF ListInv, Shape, KeysMatch
    <2>2. {Datas'[n] : n \in Linked \cup {c}} = {Datas[n] : n \in Linked} \cup {k}
      BY <1>6
    <2> QED
      BY <1>6, <1>7, <2>1, <2>2
  <1>9. /\ \A x \in Linked \cup {NULL} : Label(x)' = Label(x)
        /\ Label(c)' = k
    BY <1>6, <1>7 DEF Label
  <1>10. ListRoot' = ListRoot
    BY <1>6, <1>7, <1>9 DEF ListIsTree, Label
  <1>11. \A u \in Key : ListData'[u] # NULL <=> u \in keys \cup {k}
    BY <1>8, KeyAssumption DEF ListIsTree
  <1>12. ListData[k] = NULL /\ {u \in Key : ListData[u] # NULL} = keys
         /\ {u \in Key : ListData'[u] # NULL} = keys \cup {k}
    BY <1>7, <1>8, <1>11
  <1>13. Datas[p] \in keys /\ ListLeft[Datas[p]] = Label(Lefts[p]) /\ ListRight[Datas[p]] = Label(Rights[p])
    BY <1>6, <1>7 DEF ListIsTree
  <1>14. \A u \in Key : /\ ListLeft'[u] = IF u = Datas[p] /\ k < Datas[p] THEN k ELSE ListLeft[u]
                        /\ ListRight'[u] = IF u = Datas[p] /\ ~(k < Datas[p]) THEN k ELSE ListRight[u]
    <2>1. TAKE u \in Key
    <2>2. CASE u \notin keys'
      BY <1>8, <1>13, <2>2 DEF ListIsTree
    <2>3. CASE u = k
      <3>1. c \in Linked' /\ ListLeft'[Datas'[c]] = Label(Lefts[c])' /\ ListRight'[Datas'[c]] = Label(Rights[c])'
        BY <1>6 DEF ListIsTree
      <3>2. ListLeft'[k] = NULL /\ ListRight'[k] = NULL
        BY <1>6, <1>7, <1>9, <3>1 DEF Label
      <3>3. ListLeft[k] = NULL /\ ListRight[k] = NULL
        BY <1>8 DEF ListIsTree
      <3> QED
        BY <1>8, <1>13, <2>3, <3>2, <3>3
    <2>4. CASE u \in keys
      <3>1. PICK n \in Linked : u = Datas[n]
        BY <1>7, <2>4
      <3>2. ListLeft'[Datas'[n]] = Label(Lefts[n])' /\ ListRight'[Datas'[n]] = Label(Rights[n])'
        BY <1>6 DEF ListIsTree
      <3>3. /\ Label(Lefts[n])' = IF n = p /\ k < Datas[p] THEN k ELSE Label(Lefts[n])
            /\ Label(Rights[n])' = IF n = p /\ ~(k < Datas[p]) THEN k ELSE Label(Rights[n])
        BY <1>6, <1>7, <1>9 DEF Label
      <3>4. ListLeft[u] = Label(Lefts[n]) /\ ListRight[u] = Label(Rights[n])
        BY <3>1 DEF ListIsTree
      <3>5. n = p <=> u = Datas[p]
        BY <1>6, <1>7, <3>1
      <3> QED
        BY <1>6, <3>1, <3>2, <3>3, <3>4, <3>5
    <2> QED
      BY <1>8, <2>2, <2>3, <2>4
  <1>15. \A w \in keys : ~((k < w /\ w < Datas[p]) \/ (Datas[p] < w /\ w < k))
    BY <1>6, <1>7 DEF Inside
  <1>16. PICK q \in keys : q = Datas[p]
    BY <1>13
  <1>17. CASE k < q
    <2>1. ListLeft[q] = NULL
      BY <1>6, <1>7, <1>13, <1>16, <1>17
    <2>2. ListLeft' = [ListLeft EXCEPT ![q] = k] /\ ListRight' = ListRight
      BY <1>7, <1>14, <1>16, <1>17 DEF ListIsTree
    <2>3. ListAdd(k)
      BY <1>10, <1>12, <1>15, <1>16, <1>17, <2>1, <2>2, ListGrows
    <2> QED
      BY <1>5, <2>3
  <1>18. CASE ~(k < q)
    <2>1. ListRight[q] = NULL
      BY <1>6, <1>7, <1>13, <1>16, <1>18
    <2>2. ListRight' = [ListRight EXCEPT ![q] = k] /\ ListLeft' = ListLeft
      BY <1>7, <1>14, <1>16, <1>18 DEF ListIsTree
    <2>3. q < k
      <3>1. q \in Int /\ k \in Int /\ q # k
        BY <1>7, <1>8, <1>16, KeyAssumption
      <3> QED
        BY <1>18, <3>1
    <2>4. ListAdd(k)
      BY <1>10, <1>12, <1>15, <1>16, <2>1, <2>2, <2>3, ListGrows
    <2> QED
      BY <1>5, <2>4
  <1> QED
    BY <1>17, <1>18

(* A removal, as a leaf or as a node that takes over its child *)
LEMMA RemovalListed ==
  ASSUME ListInv, ListIsTree, ListInv', ListIsTree', NEW a \in Linked, keys' = keys \ {Datas[a]}, NEW o,
         Lefts[a] = NULL \/ Rights[a] = NULL,
         o = (IF Lefts[a] # NULL THEN Label(Lefts[a]) ELSE Label(Rights[a])),
         Label(Top)' = (IF Top = a THEN o ELSE Label(Top)),
         \A x \in Linked : Datas[x] # Datas[a] => \E n \in Linked' :
           /\ Datas'[n] = Datas[x]
           /\ Label(Lefts[n])' = (IF Lefts[x] = a THEN o ELSE Label(Lefts[x]))
           /\ Label(Rights[n])' = (IF Rights[x] = a THEN o ELSE Label(Rights[x]))
  PROVE  \E k \in Key : List!avl_get(k) # NULL /\ List!private_avl_remove(k)
  <1>1. /\ keys = {Datas[n] : n \in Linked} /\ keys \subseteq Key /\ NULL \notin Linked
        /\ \A x, y \in Linked : Datas[x] = Datas[y] => x = y
        /\ \A n \in Linked : /\ Datas[n] \in Key /\ Datas[n] # NULL /\ Label(n) = Datas[n]
                             /\ Lefts[n] \in Linked \cup {NULL} /\ Rights[n] \in Linked \cup {NULL}
        /\ Label(NULL) = NULL /\ Top \in Linked \cup {NULL}
        /\ \A u \in Key : ListData[u] # NULL <=> u \in keys
    BY ListKeys
  <1>2. PICK k \in Key : k = Datas[a]
    BY <1>1
  <1>3. k \in keys /\ ListData[k] # NULL
    BY <1>1, <1>2
  <1>4. ListLeft[k] = Label(Lefts[a]) /\ ListRight[k] = Label(Rights[a])
    BY <1>2 DEF ListIsTree
  <1>5. (ListLeft[k] = NULL <=> Lefts[a] = NULL) /\ (ListRight[k] = NULL <=> Rights[a] = NULL)
    BY <1>1, <1>4
  <1>6. \A x \in Linked \cup {NULL} : Label(x) = k <=> x = a
    BY <1>1, <1>2
  <1>7. ListRoot' = IF ListRoot = k THEN o ELSE ListRoot
    <2>1. ListRoot = Label(Top) /\ ListRoot' = Label(Top)'
      BY DEF ListIsTree
    <2> QED
      BY <1>1, <1>6, <2>1
  <1>8. ListData' = [ListData EXCEPT ![k] = NULL]
    BY <1>2 DEF ListIsTree
  <1>9. \A n \in Key : /\ ListLeft'[n] = IF n = k THEN NULL ELSE IF ListLeft[n] = k THEN o ELSE ListLeft[n]
                       /\ ListRight'[n] = IF n = k THEN NULL ELSE IF ListRight[n] = k THEN o ELSE ListRight[n]
    <2>1. TAKE n \in Key
    <2>2. CASE n = k
      BY <1>2, <2>2 DEF ListIsTree
    <2>3. CASE n \notin keys
      <3>1. ListLeft[n] = NULL /\ ListRight[n] = NULL /\ ListLeft'[n] = NULL /\ ListRight'[n] = NULL
        BY <2>3 DEF ListIsTree
      <3>2. k # NULL
        BY <1>1, <1>2
      <3> QED
        BY <3>1, <3>2
    <2>4. CASE n \in keys /\ n # k
      <3>1. PICK x \in Linked : n = Datas[x]
        BY <1>1, <2>4
      <3>2. PICK m \in Linked' : /\ Datas'[m] = n
                                 /\ Label(Lefts[m])' = (IF Lefts[x] = a THEN o ELSE Label(Lefts[x]))
                                 /\ Label(Rights[m])' = (IF Rights[x] = a THEN o ELSE Label(Rights[x]))
        BY <1>2, <2>4, <3>1
      <3>3. ListLeft'[Datas'[m]] = Label(Lefts[m])' /\ ListRight'[Datas'[m]] = Label(Rights[m])'
        BY DEF ListIsTree
      <3>4. ListLeft'[n] = Label(Lefts[m])' /\ ListRight'[n] = Label(Rights[m])'
        BY <3>2, <3>3
      <3>5. ListLeft[n] = Label(Lefts[x]) /\ ListRight[n] = Label(Rights[x])
        BY <3>1 DEF ListIsTree
      <3>6. (ListLeft[n] = k <=> Lefts[x] = a) /\ (ListRight[n] = k <=> Rights[x] = a)
        BY <1>1, <1>6, <3>5
      <3> QED
        BY <2>4, <3>2, <3>4, <3>5, <3>6
    <2> QED
      BY <2>2, <2>3, <2>4
  <1>10. /\ ListLeft' = [n \in Key |-> IF n = k THEN NULL ELSE IF ListLeft[n] = k THEN o ELSE ListLeft[n]]
         /\ ListRight' = [n \in Key |-> IF n = k THEN NULL ELSE IF ListRight[n] = k THEN o ELSE ListRight[n]]
    BY <1>9 DEF ListIsTree
  <1>11. /\ ListLeft[k] = NULL \/ ListRight[k] = NULL
         /\ o = IF ListLeft[k] # NULL THEN ListLeft[k] ELSE ListRight[k]
    BY <1>4, <1>5
  <1>12. List!avl_get(k) # NULL /\ List!private_avl_remove(k)
    BY <1>3, <1>7, <1>8, <1>10, <1>11, ListShrinks
  <1> QED
    BY <1>12

(* The key leaves the list when its leaf is freed, before the parent knows. *)
LEMMA LeafUnlisted ==
  ASSUME ListInv, ListIsTree, ListInv', ListIsTree', RemoveLeaf
  PROVE  \E k \in Key : List!avl_get(k) # NULL /\ List!private_avl_remove(k)
  <1>1. TypeOK /\ Shape /\ \E below : TreeSorted(below)
    BY DEF ListInv, Inv
  <1>2. PICK a : a = at
    OBVIOUS
  <1>3. /\ a \in Linked /\ Datas[a] = key /\ Lefts[a] = NULL /\ Rights[a] = NULL
        /\ Linked' = Linked \ {a} /\ Top' = (IF Top = a THEN NULL ELSE Top)
        /\ \A x \in Linked \ {a} : /\ Lefts'[x] = IF Lefts[x] = a THEN NULL ELSE Lefts[x]
                                   /\ Rights'[x] = IF Rights[x] = a THEN NULL ELSE Rights[x]
                                   /\ Datas'[x] = Datas[x]
    BY <1>1, <1>2, RemoveLeafKeeps
  <1>4. /\ NULL \notin Linked /\ Label(NULL) = NULL /\ Top \in Linked \cup {NULL}
        /\ \A n \in Linked : Lefts[n] \in Linked \cup {NULL} /\ Rights[n] \in Linked \cup {NULL}
    BY ListKeys
  <1>5. keys' = keys \ {Datas[a]}
    BY <1>3 DEF RemoveLeaf
  <1>6. /\ \A x \in (Linked \ {a}) \cup {NULL} : Label(x)' = Label(x)
        /\ Label(NULL)' = NULL
    BY <1>3, <1>4 DEF Label
  <1>7. Label(Top)' = IF Top = a THEN NULL ELSE Label(Top)
    BY <1>3, <1>4, <1>6 DEF Label
  <1>8. \A x \in Linked : Datas[x] # Datas[a] => \E n \in Linked' :
           /\ Datas'[n] = Datas[x]
           /\ Label(Lefts[n])' = (IF Lefts[x] = a THEN NULL ELSE Label(Lefts[x]))
           /\ Label(Rights[n])' = (IF Rights[x] = a THEN NULL ELSE Label(Rights[x]))
    <2>1. SUFFICES ASSUME NEW x \in Linked, Datas[x] # Datas[a]
                   PROVE  /\ x \in Linked' /\ Datas'[x] = Datas[x]
                          /\ Label(Lefts[x])' = (IF Lefts[x] = a THEN NULL ELSE Label(Lefts[x]))
                          /\ Label(Rights[x])' = (IF Rights[x] = a THEN NULL ELSE Label(Rights[x]))
      OBVIOUS
    <2>2. x \in Linked \ {a}
      BY <2>1
    <2> QED
      BY <1>3, <1>4, <1>6, <2>2 DEF Label
  <1>9. NULL = IF Lefts[a] # NULL THEN Label(Lefts[a]) ELSE Label(Rights[a])
    BY <1>3, <1>4
  <1> QED
    BY <1>3, <1>5, <1>7, <1>8, <1>9, RemovalListed

(* The key of a node that took over its child leaves when the child is freed. *)
LEMMA ChildUnlisted ==
  ASSUME ListInv, ListIsTree, ListInv', ListIsTree', FreeChild
  PROVE  \E k \in Key : List!avl_get(k) # NULL /\ List!private_avl_remove(k)
  <1>1. TypeOK /\ Shape /\ \E below : TreeSorted(below)
    BY DEF ListInv, Inv
  <1>2. PICK a : a = at
    OBVIOUS
  <1>3. PICK c : c = child
    OBVIOUS
  <1>4. /\ a \in Linked /\ c \in Linked /\ c # a /\ Datas[a] = key
        /\ (Lefts[a] = c /\ Rights[a] = NULL) \/ (Rights[a] = c /\ Lefts[a] = NULL)
    BY <1>1, <1>2, <1>3, FreeChildKeeps
  <1>5. /\ Linked' = Linked \ {c} /\ Top' = Top /\ Top # c
        /\ \A x \in Linked : Lefts[x] = c \/ Rights[x] = c => x = a
        /\ \A x \in Linked \ {c} : /\ Lefts'[x] = IF x = a THEN Lefts[c] ELSE Lefts[x]
                                   /\ Rights'[x] = IF x = a THEN Rights[c] ELSE Rights[x]
                                   /\ Datas'[x] = IF x = a THEN Datas[c] ELSE Datas[x]
    BY <1>1, <1>2, <1>3, FreeChildKeeps
  <1>6. /\ NULL \notin Linked /\ Label(NULL) = NULL /\ Top \in Linked \cup {NULL}
        /\ \A x, y \in Linked : Datas[x] = Datas[y] => x = y
        /\ \A n \in Linked : /\ Lefts[n] \in Linked \cup {NULL} /\ Rights[n] \in Linked \cup {NULL}
                             /\ Label(n) = Datas[n]
    BY ListKeys
  <1>7. keys' = keys \ {Datas[a]}
    BY <1>4 DEF FreeChild
  <1>8. PICK o : o = Datas[c]
    OBVIOUS
  <1>9. /\ \A x \in (Linked \ {c}) \cup {NULL} : Label(x)' = IF x = a THEN o ELSE Label(x)
    BY <1>4, <1>5, <1>6, <1>8 DEF Label
  <1>10. Label(Top)' = IF Top = a THEN o ELSE Label(Top)
    <2>1. Top \in (Linked \ {c}) \cup {NULL}
      BY <1>5, <1>6
    <2> QED
      BY <1>5, <1>9, <2>1 DEF Label
  <1>11. \A x \in Linked : Datas[x] # Datas[a] => \E n \in Linked' :
           /\ Datas'[n] = Datas[x]
           /\ Label(Lefts[n])' = (IF Lefts[x] = a THEN o ELSE Label(Lefts[x]))
           /\ Label(Rights[n])' = (IF Rights[x] = a THEN o ELSE Label(Rights[x]))
    <2>1. TAKE x \in Linked
    <2>2. HAVE Datas[x] # Datas[a]
    <2>3. CASE x = c
      <3>1. /\ Datas'[a] = Datas[x] /\ Lefts'[a] = Lefts[x] /\ Rights'[a] = Rights[x] /\ a \in Linked'
        BY <1>4, <1>5, <2>3
      <3>2. Lefts[x] \in (Linked \ {c}) \cup {NULL} /\ Rights[x] \in (Linked \ {c}) \cup {NULL}
        BY <1>4, <1>5, <1>6, <2>3
      <3>3. /\ Label(Lefts[a])' = (IF Lefts[x] = a THEN o ELSE Label(Lefts[x]))
            /\ Label(Rights[a])' = (IF Rights[x] = a THEN o ELSE Label(Rights[x]))
        BY <1>9, <3>1, <3>2 DEF Label
      <3> QED
        BY <3>1, <3>3
    <2>4. CASE x # c
      <3>1. x # a /\ x \in Linked \ {c} /\ x \in Linked'
        BY <1>5, <2>2, <2>4
      <3>2. Datas'[x] = Datas[x] /\ Lefts'[x] = Lefts[x] /\ Rights'[x] = Rights[x]
        BY <1>5, <3>1
      <3>3. Lefts[x] \in (Linked \ {c}) \cup {NULL} /\ Rights[x] \in (Linked \ {c}) \cup {NULL}
        BY <1>5, <1>6, <3>1
      <3>4. /\ Label(Lefts[x])' = (IF Lefts[x] = a THEN o ELSE Label(Lefts[x]))
            /\ Label(Rights[x])' = (IF Rights[x] = a THEN o ELSE Label(Rights[x]))
        BY <1>9, <3>2, <3>3 DEF Label
      <3> QED
        BY <3>1, <3>2, <3>4
    <2> QED
      BY <2>3, <2>4
  <1>12. /\ o = (IF Lefts[a] # NULL THEN Label(Lefts[a]) ELSE Label(Rights[a]))
         /\ Lefts[a] = NULL \/ Rights[a] = NULL
    BY <1>4, <1>6, <1>8
  <1> QED
    BY <1>4, <1>7, <1>10, <1>11, <1>12, RemovalListed

(* Every step is one of the list, or leaves it. *)
LEMMA ListStep ==
  ASSUME ListInv, ListIsTree, ListInv', ListIsTree', [Next]_vars
  PROVE  \/ UNCHANGED List!treeVars
         \/ \E k \in Key : ListAdd(k)
         \/ \E k \in Key : List!avl_get(k) # NULL /\ List!private_avl_remove(k)
  <1>1. TypeOK /\ Shape /\ Added /\ \E below : TreeSorted(below) /\ Descent(below)
    BY DEF ListInv, Inv
  <1>2. CASE WriterStep
    <2>1. \/ SameTree
          \/ (LinkChild \/ LinkRoot) /\ at = NULL
          \/ RemoveLeaf
          \/ FreeChild
      BY <1>1, <1>2, WriterCases
    <2>2. key \in Key
      BY <1>1 DEF TypeOK, WriterTypeOK
    <2> QED
      BY <2>1, <2>2, SameTreeSameList, FirstListed, LeafListed, LeafUnlisted, ChildUnlisted
  <1>3. CASE UNCHANGED <<treeVars, writerVars, keys>> \/ UNCHANGED vars
    <2>1. UNCHANGED <<memory, allocated, root, wpc, op, key, at, child>>
      BY <1>3 DEF vars, treeVars, writerVars
    <2>2. SameTree
      BY <2>1 DEF SameTree, Linked, Top, Present, Lefts, Rights, Datas, Contents, Copying, Building
    <2> QED
      BY <2>2, SameTreeSameList
  <1> QED
    BY <1>2, <1>3 DEF Next

(***************************************************************************)
(* The stores of private_avl_add and private_avl_remove, in the order of   *)
(* the code and on any set of nodes that malloc may hand out again, come   *)
(* to the one-step insertions and removals of UserList, or to none: this   *)
(* is why AdminServer, ClientServer and Server may use UserList's tree.    *)
(***************************************************************************)
THEOREM TreeImplementsUserList == Spec => ImplementsUserList
  <1>1. ListInv /\ ListIsTree /\ ListInv' /\ ListIsTree' /\ [Next]_vars =>
          [\/ UNCHANGED List!treeVars
           \/ \E k \in Key : ListAdd(k)
           \/ \E k \in Key : List!avl_get(k) # NULL /\ List!private_avl_remove(k)]_vars
    BY ListStep
  <1> QED
    BY <1>1, ListInvInit, ListInvNext, ListSeen, PTL DEF Spec, ImplementsUserList

=============================================================================
