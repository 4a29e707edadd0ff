SPECIFICATION Spec
CONSTANTS
  Object = {o1, o2, o3, o4}
  Fd = {0, 1, 2}
INVARIANT
  ExactlyOneOwner
