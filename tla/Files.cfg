SPECIFICATION Spec
CONSTANTS
  Clients = {c1}
  Locations <- MCLocations
  Urls <- MCUrls
  Paths <- MCPaths
  FileNames <- MCFileNames
  Sanitized <- MCSanitized
  Decoded <- MCDecoded
  Index = "f"
  Placed <- MCPlaced
  Sizes = {0, 3}
  Chunk = 2
  MaxUploads = 2
  Inodes = {i1, i2, i3}
  i1 = i1
  i2 = i2
  i3 = i3
  None = None
  Directory = Directory
INVARIANTS TypeOK SavedWhole  
PROPERTY Atomic
SYMMETRY MCSymmetry
