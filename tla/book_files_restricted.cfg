SPECIFICATION Spec
CONSTANTS
  Clients = {c1, c2}
  MaxFiles = 2
PROPERTY RestrictedKeepsItsFile
