CONSTANTS
  Name <- MCName
  Zone <- MCZone
  Glue <- MCGlue
  Requests <- MCAlias
  MaxRecursion = 3
  MaxTimeout = 3
  Malformed = Malformed
SPECIFICATION Spec
PROPERTY CnameIsFollowed
