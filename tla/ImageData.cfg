SPECIFICATION Spec
CONSTANTS
  Objects = {a, b, c}
  Spans = {k}
  Block = {m1, m2, m3}
  Null = Null
  Ndim = 2
  Extents = {2, 6}
  IntBits = 5
  NumValues = 2
SYMMETRY Symmetry
INVARIANTS Owned InBounds SpansSee
PROPERTIES ImplementsValues
CHECK_DEADLOCK FALSE
