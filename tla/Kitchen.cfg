SPECIFICATION Spec
CONSTANTS
  o1 = o1
  e1 = e1
  c1 = c1
  w1 = w1
  w2 = w2
  Order = {o1}
  Chef = {c1}
  Waiter = {w1, w2}
  Entry = {e1}
  MaxEvents = 2
SYMMETRY Symmetry
INVARIANTS
  TypeOK
  ServesAreExplained
