SPECIFICATION RefreshSpec
CONSTANTS
  root = root
  sub = sub
  Dirs <- MCDirs
  Root = root
  Parent <- MCParent
  Inodes = {i1, i2, i3}
  NoInode = NoInode
  NoDir = NoDir
  MaxEvents = 0
  MaxMishaps = 5
  Settle = 1
  MaxDelay = 1
  Off = Off
PROPERTIES RefreshAlwaysExact
CHECK_DEADLOCK FALSE
