---------------------------- MODULE UserListProofs ----------------------------
(***************************************************************************)
(* The user tree for every set of users: the insertions and removals of    *)
(* UserList keep it a search tree, and in a search tree the descent of     *)
(* private_avl_get finds exactly the users that have a node.               *)
(***************************************************************************)
EXTENDS UserList, FiniteSetTheorems, TLAPS

-----------------------------------------------------------------------------
(* The order of the tree.  "below" is a relation that holds exactly between *)
(* a user and the users in the tree under it: the user, and those below its *)
(* children.  That it exists is an invariant, for the steps that change the *)
(* tree extend or restrict it.                                              *)

Under(below, x, side, y) ==
  side[x] # NULL /\ <<side[x], y>> \in below

Orders(below) ==
  /\ below \subseteq Users \X Users
  /\ \A x \in Users : <<x, x>> \in below
  /\ \A x \in Username : left[x] # NULL => x \in Users /\ left[x] \in Users
  /\ \A x \in Username : right[x] # NULL => x \in Users /\ right[x] \in Users
  /\ \A x, y \in Users : Under(below, x, left, y) => y < x /\ <<x, y>> \in below
  /\ \A x, y \in Users : Under(below, x, right, y) => x < y /\ <<x, y>> \in below
  /\ \A x, y \in Users : <<x, y>> \in below =>
       x = y \/ Under(below, x, left, y) \/ Under(below, x, right, y)
  /\ Users = {} => root = NULL
  /\ Users # {} => root \in Users /\ \A y \in Users : <<root, y>> \in below

Ordered ==
  /\ IsFiniteSet(Users)
  /\ \E below \in SUBSET (Username \X Username) : Orders(below)

LEMMA InsertAddsUser ==
  ASSUME TreeTypeOK, NEW a \in Address, NEW u \in Username, LinkNode(a, u)
  PROVE  Users' = Users \cup {u}
  BY AddressAssumption DEF LinkNode, TreeTypeOK, Users

(* An insertion: the new user is below whatever its parent is below. *)
LEMMA InsertKeepsOrder ==
  ASSUME TreeTypeOK, Ordered, NEW a \in Address, NEW u \in Username,
         data[u] = NULL, LinkNode(a, u)
  PROVE  Ordered'
  <1>1. u \in Username /\ u \notin Users /\ Users \subseteq Username
    BY DEF Users
  <1>2. Users' = Users \cup {u} /\ IsFiniteSet(Users')
    BY InsertAddsUser, FS_AddElement DEF Ordered
  <1>3. PICK below \in SUBSET (Username \X Username) : Orders(below)
    BY DEF Ordered
  <1>4. private_avl_add(u)
    BY DEF LinkNode
  <1>5. left[u] = NULL /\ right[u] = NULL
    BY <1>1, <1>3 DEF Orders
  <1>6. CASE Users = {} /\ root' = u /\ UNCHANGED <<left, right>>
    <2>1. {<<u, u>>} \in SUBSET (Username \X Username)
      BY <1>1
    <2>2. Users' = {u}
      BY <1>2, <1>6
    <2>3. \A x \in Username : left'[x] = NULL /\ right'[x] = NULL
      BY <1>3, <1>6 DEF Orders
    <2>4. Orders({<<u, u>>})'
      BY <1>1, <1>6, <2>2, <2>3 DEF Orders, Under
    <2> QED
      BY <1>2, <2>1, <2>4 DEF Ordered
  <1>7. ASSUME NEW p \in Users, root' = root,
               \/ /\ LeftSlot(u, p) /\ left' = [left EXCEPT ![p] = u] /\ right' = right
               \/ /\ RightSlot(u, p) /\ right' = [right EXCEPT ![p] = u] /\ left' = left
        PROVE  Ordered'
    <2> DEFINE In(x, y) == \/ <<x, y>> \in below
                           \/ y = u /\ x \in Users /\ <<x, p>> \in below
                           \/ y = u /\ x = u
    <2>1. PICK new \in SUBSET (Username \X Username) :
            \A x, y \in Username : <<x, y>> \in new <=> In(x, y)
      <3> WITNESS {z \in Username \X Username : In(z[1], z[2])} \in SUBSET (Username \X Username)
      <3> QED
        OBVIOUS
    <2>2. /\ \A x, y \in Users : <<x, y>> \in new <=> <<x, y>> \in below
          /\ \A x \in Users : <<x, u>> \in new <=> <<x, p>> \in below
          /\ \A y \in Users : <<u, y>> \notin new
          /\ <<u, u>> \in new
          /\ new \subseteq (Users \cup {u}) \X (Users \cup {u})
      <3>1. below \subseteq Users \X Users
        BY <1>3 DEF Orders
      <3>2. \A x, y \in Username : <<x, y>> \in below => x \in Users /\ y \in Users
        BY <3>1
      <3>3. \A x, y \in Username : <<x, y>> \in new => x \in Users \cup {u} /\ y \in Users \cup {u}
        BY <1>1, <2>1, <3>2
      <3>4. new \subseteq (Users \cup {u}) \X (Users \cup {u})
        BY <3>3
      <3>5. \A x, y \in Users : <<x, y>> \in new <=> <<x, y>> \in below
        BY <1>1, <2>1
      <3>6. \A x \in Users : <<x, u>> \in new <=> <<x, p>> \in below
        BY <1>1, <2>1, <3>2
      <3>7. (\A y \in Users : <<u, y>> \notin new) /\ <<u, u>> \in new
        BY <1>1, <2>1, <3>2
      <3> QED
        BY <3>4, <3>5, <3>6, <3>7
    <2>3. new \in SUBSET (Username \X Username)
      BY <2>1
    <2>4. \A x \in Users : (x < p => x < u) /\ (p < x => u < x)
      BY <1>1, <1>7, UsernameAssumption DEF LeftSlot, RightSlot, Between
    <2>5. /\ \A x \in Username : left'[x] = left[x] \/ (x = p /\ left'[x] = u /\ u < p)
          /\ \A x \in Username : right'[x] = right[x] \/ (x = p /\ right'[x] = u /\ p < u)
      <3>1. left \in [Username -> Username \cup {NULL}] /\ right \in [Username -> Username \cup {NULL}]
        BY DEF TreeTypeOK
      <3>2. CASE LeftSlot(u, p) /\ left' = [left EXCEPT ![p] = u] /\ right' = right
        <4>1. u < p /\ left'[p] = u /\ \A x \in Username \ {p} : left'[x] = left[x]
          BY <1>1, <3>1, <3>2 DEF LeftSlot
        <4> QED
          BY <3>2, <4>1
      <3>3. CASE RightSlot(u, p) /\ right' = [right EXCEPT ![p] = u] /\ left' = left
        <4>1. p < u /\ right'[p] = u /\ \A x \in Username \ {p} : right'[x] = right[x]
          BY <1>1, <3>1, <3>3 DEF RightSlot
        <4> QED
          BY <3>3, <4>1
      <3> QED
        BY <1>7, <3>2, <3>3
    <2>6. /\ p # u /\ left'[u] = NULL /\ right'[u] = NULL
          /\ <<p, u>> \in new
      BY <1>1, <1>3, <1>5, <2>2, <2>5 DEF Orders
    <2>7. /\ \A x \in Username : left'[x] # NULL => x \in Users' /\ left'[x] \in Users'
          /\ \A x \in Username : right'[x] # NULL => x \in Users' /\ right'[x] \in Users'
      BY <1>2, <1>3, <2>5 DEF Orders
    <2>8. ASSUME NEW x \in Users', NEW y \in Users', Under(new, x, left', y)
          PROVE  y < x /\ <<x, y>> \in new
      <3>1. x \in Users
        BY <1>2, <2>6, <2>8 DEF Under
      <3>2. CASE left'[x] = u /\ x = p /\ u < p
        BY <1>2, <2>2, <2>6, <2>8, <3>2 DEF Under
      <3>3. CASE left'[x] = left[x]
        <4>1. left[x] \in Users /\ <<left[x], y>> \in new
          BY <1>1, <1>3, <2>8, <3>1, <3>3 DEF Orders, Under
        <4>2. CASE y \in Users
          BY <1>3, <2>2, <3>1, <4>1, <4>2, <2>8, <3>3 DEF Orders, Under
        <4>3. CASE y = u
          BY <1>3, <2>2, <2>4, <3>1, <4>1, <4>3, <2>8, <3>3 DEF Orders, Under
        <4> QED
          BY <1>2, <4>2, <4>3
      <3> QED
        BY <1>1, <2>5, <3>1, <3>2, <3>3
    <2>9. ASSUME NEW x \in Users', NEW y \in Users', Under(new, x, right', y)
          PROVE  x < y /\ <<x, y>> \in new
      <3>1. x \in Users
        BY <1>2, <2>6, <2>9 DEF Under
      <3>2. CASE right'[x] = u /\ x = p /\ p < u
        BY <1>2, <2>2, <2>6, <2>9, <3>2 DEF Under
      <3>3. CASE right'[x] = right[x]
        <4>1. right[x] \in Users /\ <<right[x], y>> \in new
          BY <1>1, <1>3, <2>9, <3>1, <3>3 DEF Orders, Under
        <4>2. CASE y \in Users
          BY <1>3, <2>2, <3>1, <4>1, <4>2, <2>9, <3>3 DEF Orders, Under
        <4>3. CASE y = u
          BY <1>3, <2>2, <2>4, <3>1, <4>1, <4>3, <2>9, <3>3 DEF Orders, Under
        <4> QED
          BY <1>2, <4>2, <4>3
      <3> QED
        BY <1>1, <2>5, <3>1, <3>2, <3>3
    <2>10. ASSUME NEW x \in Users', NEW y \in Users', <<x, y>> \in new
           PROVE  x = y \/ Under(new, x, left', y) \/ Under(new, x, right', y)
      <3>1. CASE x = u
        BY <1>2, <2>2, <2>10, <3>1
      <3>2. CASE x = p /\ y = u
        <4>1. left'[p] = u \/ right'[p] = u
          BY <1>1, <1>7 DEF TreeTypeOK
        <4> QED
          BY <1>1, <2>2, <3>2, <4>1, UsernameAssumption DEF Under
      <3>3. ASSUME NEW z \in Users, x \in Users, x # z, <<x, z>> \in below,
                   \A w \in Users : <<w, z>> \in below => <<w, y>> \in new
            PROVE  Under(new, x, left', y) \/ Under(new, x, right', y)
        <4>1. \/ left[x] # NULL /\ <<left[x], z>> \in below
              \/ right[x] # NULL /\ <<right[x], z>> \in below
          BY <1>3, <3>3 DEF Orders, Under
        <4>2. /\ left[x] # NULL => left'[x] = left[x] /\ left[x] \in Users
              /\ right[x] # NULL => right'[x] = right[x] /\ right[x] \in Users
          BY <1>1, <1>3, <1>7, <3>3 DEF LeftSlot, RightSlot, TreeTypeOK, Orders
        <4> QED
          BY <3>3, <4>1, <4>2 DEF Under
      <3>4. CASE x \in Users /\ y \in Users
        BY <2>2, <2>10, <3>3, <3>4
      <3>5. CASE x \in Users /\ y = u /\ x # p
        BY <2>2, <2>10, <3>3, <3>5
      <3> QED
        BY <1>2, <3>1, <3>2, <3>4, <3>5
    <2>11. root' \in Users' /\ \A y \in Users' : <<root', y>> \in new
      BY <1>2, <1>3, <1>7, <2>2 DEF Orders
    <2>12. Orders(new)'
      <3>1. new \subseteq Users' \X Users' /\ \A x \in Users' : <<x, x>> \in new
        BY <1>2, <1>3, <2>2 DEF Orders
      <3> QED
        BY <2>7, <2>8, <2>9, <2>10, <2>11, <3>1 DEF Orders
    <2> QED
      BY <1>2, <2>3, <2>12 DEF Ordered
  <1> QED
    BY <1>4, <1>6, <1>7 DEF private_avl_add

(* A removal: the relation, without the user who is gone, orders the rest. *)
LEMMA RemoveKeepsOrder ==
  ASSUME TreeTypeOK, Ordered, NEW u \in Username, data[u] # NULL, private_avl_remove(u)
  PROVE  Ordered'
  <1>1. PICK below \in SUBSET (Username \X Username) : Orders(below)
    BY DEF Ordered
  <1>2. u \in Users
    BY DEF Users
  <1>3. CASE HasTwoChildren(u)
    BY <1>3 DEF private_avl_remove, Unlink, Ordered, Orders, Under, Users
  <1>4. CASE ~HasTwoChildren(u)
    <2>1. /\ root' = Splice(root, u)
          /\ data' = [data EXCEPT ![u] = NULL]
          /\ left' = [n \in Username |-> IF n = u THEN NULL ELSE Splice(left[n], u)]
          /\ right' = [n \in Username |-> IF n = u THEN NULL ELSE Splice(right[n], u)]
      BY <1>4 DEF private_avl_remove, Unlink
    <2>2. Users' = Users \ {u} /\ IsFiniteSet(Users')
      <3>1. Users' = Users \ {u}
        BY <2>1 DEF Users, TreeTypeOK
      <3> QED
        BY <3>1, FS_RemoveElement DEF Ordered
    <2>3. PICK new : new = below \cap (Users' \X Users')
      OBVIOUS
    <2>4. new \in SUBSET (Username \X Username)
      BY <2>3
    <2>5. \A x, y \in Users' : <<x, y>> \in new <=> <<x, y>> \in below
      BY <2>3
    <2>6. /\ \A y \in Users : Under(below, u, left, y) \/ Under(below, u, right, y) => <<u, y>> \in below
          /\ OnlyChild(u) # NULL =>
               /\ OnlyChild(u) \in Users'
               /\ \A y \in Users : <<OnlyChild(u), y>> \in below => <<u, y>> \in below
      <3>1. \A y \in Users : Under(below, u, left, y) \/ Under(below, u, right, y) => <<u, y>> \in below
        BY <1>1, <1>2 DEF Orders
      <3>2. u \in Int /\ ~(u < u)
        BY UsernameAssumption
      <3>3. /\ left[u] # NULL => left[u] \in Users /\ left[u] # u
            /\ right[u] # NULL => right[u] \in Users /\ right[u] # u
        BY <1>1, <1>2, <3>2 DEF Orders, Under
      <3> QED
        BY <2>2, <3>1, <3>3 DEF OnlyChild, Under
    <2>7. ASSUME NEW x \in Username, left'[x] # NULL
          PROVE  /\ x \in Users' /\ left'[x] \in Users'
                 /\ \A y \in Users' : <<left'[x], y>> \in new => Under(below, x, left, y)
      <3>1. x # u /\ left'[x] = Splice(left[x], u)
        BY <2>1, <2>7
      <3>2. CASE left[x] = u
        <4>1. u # NULL /\ Splice(left[x], u) = OnlyChild(u)
          BY <3>2, UsernameAssumption DEF Splice
        <4>2. x \in Users'
          BY <1>1, <2>2, <3>1, <3>2, <4>1 DEF Orders
        <4> QED
          BY <1>2, <2>2, <2>5, <2>6, <2>7, <3>1, <3>2, <4>1, <4>2 DEF Under
      <3>3. CASE left[x] # u
        BY <1>1, <2>2, <2>5, <2>7, <3>1, <3>3 DEF Splice, Orders, Under
      <3> QED
        BY <3>2, <3>3
    <2>8. ASSUME NEW x \in Username, right'[x] # NULL
          PROVE  /\ x \in Users' /\ right'[x] \in Users'
                 /\ \A y \in Users' : <<right'[x], y>> \in new => Under(below, x, right, y)
      <3>1. x # u /\ right'[x] = Splice(right[x], u)
        BY <2>1, <2>8
      <3>2. CASE right[x] = u
        <4>1. u # NULL /\ Splice(right[x], u) = OnlyChild(u)
          BY <3>2, UsernameAssumption DEF Splice
        <4>2. x \in Users'
          BY <1>1, <2>2, <3>1, <3>2, <4>1 DEF Orders
        <4> QED
          BY <1>2, <2>2, <2>5, <2>6, <2>8, <3>1, <3>2, <4>1, <4>2 DEF Under
      <3>3. CASE right[x] # u
        BY <1>1, <2>2, <2>5, <2>8, <3>1, <3>3 DEF Splice, Orders, Under
      <3> QED
        BY <3>2, <3>3
    <2>9. /\ \A x, y \in Users' : Under(new, x, left', y) => y < x /\ <<x, y>> \in new
          /\ \A x, y \in Users' : Under(new, x, right', y) => x < y /\ <<x, y>> \in new
      <3>1. /\ \A x, y \in Users : Under(below, x, left, y) => y < x /\ <<x, y>> \in below
            /\ \A x, y \in Users : Under(below, x, right, y) => x < y /\ <<x, y>> \in below
        BY <1>1 DEF Orders
      <3>2. Users' \subseteq Users /\ Users' \subseteq Username
        BY <2>2 DEF Users
      <3>3. ASSUME NEW x \in Users', NEW y \in Users', Under(new, x, left', y)
            PROVE  y < x /\ <<x, y>> \in new
        BY <2>5, <2>7, <3>1, <3>2, <3>3 DEF Under
      <3>4. ASSUME NEW x \in Users', NEW y \in Users', Under(new, x, right', y)
            PROVE  x < y /\ <<x, y>> \in new
        BY <2>5, <2>8, <3>1, <3>2, <3>4 DEF Under
      <3> QED
        BY <3>3, <3>4
    <2>10. ASSUME NEW y \in Users', <<u, y>> \in below
           PROVE  OnlyChild(u) # NULL /\ <<OnlyChild(u), y>> \in new
      <3>1. Under(below, u, left, y) \/ Under(below, u, right, y)
        BY <1>1, <1>2, <2>2, <2>10 DEF Orders
      <3>2. OnlyChild(u) # NULL /\ <<OnlyChild(u), y>> \in below
        BY <1>4, <3>1 DEF Under, OnlyChild, HasTwoChildren
      <3> QED
        BY <2>5, <2>6, <3>2
    <2>11. ASSUME NEW x \in Users', NEW y \in Users', <<x, y>> \in new, x # y
           PROVE  Under(new, x, left', y) \/ Under(new, x, right', y)
      <3>1. x \in Users /\ y \in Users /\ x \in Username /\ x # u /\ <<x, y>> \in below
        BY <2>2, <2>5, <2>11 DEF Users
      <3>2. /\ left'[x] = Splice(left[x], u)
            /\ right'[x] = Splice(right[x], u)
        BY <2>1, <3>1
      <3>3. ASSUME NEW c, c # NULL, c \in Users, <<c, y>> \in below
            PROVE  Splice(c, u) # NULL /\ <<Splice(c, u), y>> \in new
        BY <2>2, <2>5, <2>10, <3>3 DEF Splice
      <3>4. CASE Under(below, x, left, y)
        <4>1. left[x] # NULL /\ left[x] \in Users /\ <<left[x], y>> \in below
          BY <1>1, <3>1, <3>4 DEF Orders, Under
        <4> QED
          BY <3>2, <3>3, <4>1 DEF Under
      <3>5. CASE Under(below, x, right, y)
        <4>1. right[x] # NULL /\ right[x] \in Users /\ <<right[x], y>> \in below
          BY <1>1, <3>1, <3>5 DEF Orders, Under
        <4> QED
          BY <3>2, <3>3, <4>1 DEF Under
      <3> QED
        BY <1>1, <2>11, <3>1, <3>4, <3>5 DEF Orders
    <2>12. /\ Users' = {} => root' = NULL
           /\ Users' # {} => root' \in Users' /\ \A y \in Users' : <<root', y>> \in new
      <3>1. root \in Users /\ \A y \in Users : <<root, y>> \in below
        BY <1>1, <1>2 DEF Orders
      <3>2. CASE root = u
        <4>1. root' = OnlyChild(u)
          BY <2>1, <3>2 DEF Splice
        <4>2. \A y \in Users' : OnlyChild(u) # NULL /\ <<OnlyChild(u), y>> \in new
          BY <2>2, <2>10, <3>1, <3>2
        <4> QED
          BY <2>6, <4>1, <4>2
      <3>3. CASE root # u
        BY <2>1, <2>2, <2>5, <3>1, <3>3 DEF Splice
      <3> QED
        BY <3>2, <3>3
    <2>13. Orders(new)'
      <3>1. new \subseteq Users' \X Users' /\ \A x \in Users' : <<x, x>> \in new
        BY <1>1, <2>2, <2>3 DEF Orders
      <3> QED
        BY <2>7, <2>8, <2>9, <2>11, <2>12, <3>1 DEF Orders
    <2> QED
      BY <2>2, <2>4, <2>13 DEF Ordered
  <1> QED
    BY <1>3, <1>4

-----------------------------------------------------------------------------
(* The descent of private_avl_get.  What it should find is a solution of the *)
(* equation that defines it, so there is one; and as a tree has no infinite  *)
(* path, any solution agrees with that one.                                  *)

Name == Username \cup {NULL}

Descends(from, u) ==
  from = [n \in Name |-> IF n = NULL \/ n = u THEN n
                         ELSE IF u < n THEN from[left[n]] ELSE from[right[n]]]

Finds(below, n, u) == IF n # NULL /\ (n = u \/ <<n, u>> \in below) THEN u ELSE NULL

LEMMA DescentExists ==
  ASSUME TreeTypeOK, NEW below, Orders(below), NEW u \in Username
  PROVE  Descends([n \in Name |-> Finds(below, n, u)], u)
  <1> DEFINE from == [n \in Name |-> Finds(below, n, u)]
  <1>1. \A n \in Name : from[n] = Finds(below, n, u)
    OBVIOUS
  <1>2. \A n \in Username : left[n] \in Name /\ right[n] \in Name
    BY DEF TreeTypeOK, Name
  <1>3. u # NULL /\ below \subseteq Users \X Users /\ Users \subseteq Username
    BY UsernameAssumption DEF Orders, Users
  <1> HIDE DEF from
  <1>4. ASSUME NEW n \in Username, n # u
        PROVE  Finds(below, n, u) = IF u < n THEN from[left[n]] ELSE from[right[n]]
    <2>1. n \in Int /\ u \in Int /\ n # NULL
      BY UsernameAssumption
    <2>2. <<n, u>> \in below <=> Under(below, n, left, u) \/ Under(below, n, right, u)
      BY <1>3, <1>4 DEF Orders, Under
    <2>3. ASSUME NEW side \in {left, right}
          PROVE  from[side[n]] = IF Under(below, n, side, u) THEN u ELSE NULL
      <3>1. side[n] = u => Under(below, n, side, u)
        BY <1>3, <1>4 DEF Orders, Under
      <3> QED
        BY <1>1, <1>2, <3>1 DEF Finds, Under
    <2>4. /\ Under(below, n, left, u) => u < n
          /\ Under(below, n, right, u) => n < u
      BY <1>3, <1>4 DEF Orders, Under
    <2> QED
      BY <1>4, <2>1, <2>2, <2>3, <2>4 DEF Finds
  <1>5. from = [n \in Name |-> IF n = NULL \/ n = u THEN n
                                ELSE IF u < n THEN from[left[n]] ELSE from[right[n]]]
    <2>1. \A n \in Name : Finds(below, n, u) =
             IF n = NULL \/ n = u THEN n ELSE IF u < n THEN from[left[n]] ELSE from[right[n]]
      BY <1>3, <1>4 DEF Finds, Name
    <2> QED
      BY <2>1 DEF from
  <1> QED
    BY <1>5 DEF Descends, from

(* The users under a node are more than those under its children, and they *)
(* are finitely many: a node of fewest users where the descent goes wrong  *)
(* would have a child where it goes wrong.                                 *)
LEMMA DescentFinds ==
  ASSUME TreeTypeOK, IsFiniteSet(Users), NEW below, Orders(below), NEW u \in Username,
         NEW from, Descends(from, u)
  PROVE  \A n \in Users \cup {NULL} : from[n] = Finds(below, n, u)
  <1> DEFINE Tree(n) == {y \in Users : <<n, y>> \in below}
             wrong == {n \in Users : from[n] # Finds(below, n, u)}
             trees == {Tree(n) : n \in wrong}
  <1>1. u # NULL /\ below \subseteq Users \X Users /\ Users \subseteq Username /\ NULL \notin Users
    BY UsernameAssumption DEF Orders, Users
  <1>2. \A n \in Name : from[n] = IF n = NULL \/ n = u THEN n
                                  ELSE IF u < n THEN from[left[n]] ELSE from[right[n]]
    BY DEF Descends
  <1>3. from[NULL] = Finds(below, NULL, u)
    BY <1>2 DEF Name, Finds
  <1>4. trees \subseteq FiniteSubsetsOf(Users)
    BY FS_Subset DEF FiniteSubsetsOf
  <1>5. ASSUME wrong # {} PROVE FALSE
    <2>1. PICK smallest \in trees :
            \A T \in trees : ~ (<<T, smallest>> \in StrictSubsetOrdering(Users))
      <3>1. trees # {}
        BY <1>5
      <3> HIDE DEF trees
      <3> QED
        BY <1>4, <3>1, FS_StrictSubsetOrderingWellFounded, WFMin
    <2>2. PICK n \in wrong : smallest = Tree(n)
      BY <2>1
    <2>3. n \in Users /\ n \in Username /\ n \in Name /\ n # NULL /\ n # u
          /\ from[n] # Finds(below, n, u)
      BY <1>1, <1>2, <2>2 DEF Finds, Name
    <2>4. ASSUME NEW side \in {left, right}, side[n] # NULL
          PROVE  side[n] \in Users /\ side[n] \notin wrong
      <3>1. side[n] \in Users
        BY <2>3, <2>4 DEF Orders
      <3>2. n \in Int /\ \A y \in Users : Under(below, n, side, y) => y # n /\ <<n, y>> \in below
        BY <1>1, <2>3, UsernameAssumption DEF Orders
      <3>3. Tree(side[n]) \subseteq Tree(n) /\ n \in Tree(n) /\ n \notin Tree(side[n])
        BY <2>3, <2>4, <3>2 DEF Orders, Under
      <3>4. <<Tree(side[n]), Tree(n)>> \in StrictSubsetOrdering(Users)
        BY <3>3 DEF StrictSubsetOrdering
      <3> QED
        BY <2>1, <2>2, <3>1, <3>4
    <2>5. \A side \in {left, right} : from[side[n]] = Finds(below, side[n], u)
      BY <1>3, <2>4
    <2>6. Finds(below, n, u) = IF u < n THEN Finds(below, left[n], u) ELSE Finds(below, right[n], u)
      <3>1. left[n] \in Name /\ right[n] \in Name
        BY <2>3 DEF TreeTypeOK, Name
      <3>2. \A m \in Name : [k \in Name |-> Finds(below, k, u)][m] = Finds(below, m, u)
        OBVIOUS
      <3>3. PICK g : g = [k \in Name |-> Finds(below, k, u)]
        OBVIOUS
      <3>4. g[n] = IF u < n THEN g[left[n]] ELSE g[right[n]]
        BY <2>3, <3>3, DescentExists DEF Descends
      <3> QED
        BY <2>3, <3>1, <3>2, <3>3, <3>4
    <2> QED
      BY <1>2, <2>3, <2>5, <2>6
  <1> QED
    BY <1>3, <1>5

(* The lookup of the C code and membership in the tree are the same. *)
LEMMA LookupsAgree ==
  ASSUME TreeTypeOK, Ordered
  PROVE  LookupAgrees
  <1>1. PICK below : Orders(below)
    BY DEF Ordered
  <1>2. SUFFICES ASSUME NEW u \in Username
                 PROVE  private_avl_get(u) = IF u \in Users THEN u ELSE NULL
    BY DEF LookupAgrees
  <1>3. PICK from : Descends(from, u) /\ private_avl_get(u) = from[root]
    <2> DEFINE f == CHOOSE from : Descends(from, u)
    <2>1. Descends(f, u)
      BY <1>1, DescentExists
    <2>2. private_avl_get(u) = f[root]
      BY DEF private_avl_get, Descends, Name
    <2> QED
      BY <2>1, <2>2
  <1>4. root \in Users \cup {NULL} /\ from[root] = Finds(below, root, u)
    BY <1>1, <1>3, DescentFinds DEF Ordered, Orders
  <1>5. below \subseteq Users \X Users /\ NULL \notin Users
    BY <1>1, UsernameAssumption DEF Orders, Users
  <1>6. CASE Users = {}
    BY <1>1, <1>3, <1>4, <1>6 DEF Orders, Finds
  <1>7. CASE Users # {}
    BY <1>1, <1>3, <1>4, <1>5, <1>7 DEF Orders, Finds
  <1> QED
    BY <1>6, <1>7

=============================================================================
