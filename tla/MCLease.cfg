CONSTANTS
  i1 = i1
  i2 = i2
  None = None
  Instances = {i1, i2}
  Ttl = 5
  Patience = 1
  MaxErrors = 1
SYMMETRY MCSymmetry
SPECIFICATION Spec
CHECK_DEADLOCK FALSE
INVARIANT SingleWriter
