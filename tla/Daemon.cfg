SPECIFICATION Spec
CONSTANTS
  a = a
  b = b
  Instances = {a, b}
  Inodes = {i1, i2, i3}
  None = None
  MaxUnnoticed = 1
  Configs <- MCConfigs
INVARIANTS
  PidFileNamesDaemon
PROPERTIES
  
  StaleFileDoesNotBlock
