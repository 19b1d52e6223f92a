SPECIFICATION Spec
CONSTANTS
  Aggregates = {p1}
  Commands = {c1, c2, c3}
  Writers = {w1, w2}
  MaxEvents = 2
  None = None
  Consumers = {k1}
  Deliveries = {d1, d2}
SYMMETRY MCSymmetry
INVARIANT
  EveryReceiptCounted
