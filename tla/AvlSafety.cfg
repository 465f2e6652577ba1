\* One writer and one lock-free reader of the tree.
SPECIFICATION Spec
CONSTANTS
  NULL = NULL
  Given = Given
  Blank = Blank
  Key = {1, 2, 3, 4}
  Node = {n1, n2, n3, n4, n5}
SYMMETRY MCSymmetry
VIEW MCView
INVARIANTS
  TypeOK
  NeverRotates
  LookupAllowed
PROPERTIES
  ImplementsUserList
