SPECIFICATION Spec
CONSTANTS
  Process = {p1}
  root = root
  n1 = n1
  n2 = n2
  byteA = byteA
  byteB = byteB
  RamNode = {root, n1, n2}
  RamRoot = root
  DiskRoot = DiskRoot
  MountPoint = MountPoint
  MountName = "ramdisk"
  Name = {"x", "y"}
  Path <- Paths
  Data <- Writes
  Lengths = {3}
  Offsets <- Moves
  NULL = NULL
  MaxIds = 2
  MaxCalls = 6
  MaxLength = 3
  PageSize = 2
SYMMETRY Memory
INVARIANTS
  TreeIsSound
  CanonicalPathNamesNode
  CountCoversContexts
PROPERTIES
  ActsAsFlatFiles
CHECK_DEADLOCK FALSE
