--------------------------- MODULE MCClientServer ---------------------------
(* The client thread on a table main has loaded: users 1 and 2 on one host, *)
(* 2 without any permission, and user 3 on another host.  The ports on      *)
(* record are what an earlier life of the process, or malloc, left there.   *)
EXTENDS ClientServer, TLC

CONSTANTS hostA, hostB, pw, wrong, a1, a2, a3, g1, g2, g3

MCUser == <<[ip |-> hostA, perms |-> Permission],
            [ip |-> hostA, perms |-> {}],
            [ip |-> hostB, perms |-> Permission]>>

MCAddress == <<a1, a2, a3>>

MCRecord(u, port) ==
  [username |-> u, password |-> pw, ip |-> MCUser[u].ip, port |-> port,
   perms |-> MCUser[u].perms]

MCOperation ==
  [op : {"LOGIN"}, args : ((1 .. 3) \X {pw}) \cup {<<1, wrong>>, BadArgs}]
  \cup [op : {"MSG", "P2P"}, args : {1, 2, 3, BadArgs}]
  \cup [op : {"CREATEMULTICAST", "GETMULTICAST"}, args : {g1, g2, g3, BadArgs}]
  \cup [op : {"unknown"}, args : {BadArgs}]

(* 2 at the root, 1 and 3 below it; a fourth name that is not registered *)
MCInit ==
  /\ ClientInit
  /\ \E ports \in [1 .. 3 -> Port \cup {NoPort}] :
       heap = [a \in Address |->
                 MCRecord(CHOOSE u \in 1 .. 3 : MCAddress[u] = a,
                          ports[CHOOSE u \in 1 .. 3 : MCAddress[u] = a])]
  /\ data = [u \in Username |-> IF u \in 1 .. 3 THEN MCAddress[u] ELSE NULL]
  /\ root = 2
  /\ left = [u \in Username |-> IF u = 2 THEN 1 ELSE NULL]
  /\ right = [u \in Username |-> IF u = 2 THEN 3 ELSE NULL]

(* group names differ in nothing but their identity *)
MCSymmetry == Permutations({g1, g2, g3})

MCVars == <<treeVars, clientVars, seen>>

MCSpec == MCInit /\ [][ClientStep /\ Undisturbed]_MCVars

=============================================================================
