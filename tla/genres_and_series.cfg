SPECIFICATION Spec
CONSTANTS
  Requests = {r1, r2}
  Name = {n1, n2}
  MaxRows = 2
  MaxBooks = 2
SYMMETRY Symmetry
INVARIANT FiledUnderShown
PROPERTY TwiceByRevival
