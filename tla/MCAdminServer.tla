---------------------------- MODULE MCAdminServer ----------------------------
(* Users whose names are in the order 1 < 2 < ..., so that a node can have  *)
(* two children, each registered with fixed data: what ADD is given beyond  *)
(* the name is copied and never looked at by the admin thread.              *)
EXTENDS AdminServer, TLC

CONSTANTS host, pw

MCRegistration ==
  {[username |-> u, password |-> pw, ip |-> host, perms |-> {"group"}] : u \in Username}

(* malloc's results differ in nothing but their identity *)
MCSymmetry == Permutations(Address)

=============================================================================
