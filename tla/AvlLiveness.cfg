\* Progress of one writer and one lock-free reader of the tree.
SPECIFICATION Spec
CONSTANTS
  NULL = NULL
  Given = Given
  Blank = Blank
  Key = {1, 2}
  Node = {n1, n2}
PROPERTIES
  CallsReturn
  LookupEnds
