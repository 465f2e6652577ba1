------------------------------ MODULE MCAvlTree ------------------------------
(* The bounds are those of AvlSafety.cfg: enough nodes for a node with two   *)
(* children, for a path of three nodes, and for freed nodes to be reused.    *)
EXTENDS AvlTree, TLC

(* the addresses differ in nothing but their identity *)
MCSymmetry == Permutations(Node)

(* Leaves out what no step reads again: the contents of the nodes that are   *)
(* not in the tree (those of a new one follow from wpc and key), the         *)
(* writer's variables between two calls and the reader's between two lookups  *)
(* or after a fault, from which it does not return.                          *)
MCView ==
  <<[n \in Linked |-> memory[n]], allocated, root, keys,
    IF wpc = "idle" THEN <<wpc>> ELSE <<wpc, op, key, at, child, path>>,
    CASE rpc = "done"  -> <<rpc, result \in seen>>
      [] rpc = "fault" -> <<rpc, raced>>
      [] OTHER         -> <<rpc, sought, cursor, raced, seen>> >>

=============================================================================
