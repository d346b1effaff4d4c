SPECIFICATION Spec
CONSTANTS
  Clients = {c1, c2}
  MaxFiles = 3
SYMMETRY Symmetry
INVARIANTS SoleUploadOpens OneActiveFile
PROPERTIES RestrictedSettles DeletedSettles
