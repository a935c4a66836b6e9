SPECIFICATION ConfigSpec
CONSTANTS
  Files <- MCFiles
  NoFile = NoFile
  Readers = {r1, r2}
  HalfBits = 4
  Defaults <- MCDefaults
  MaxLen <- MCMaxLen
  MaxReloads = 2
INVARIANTS
  TypeOK
  ReadersSeeOneConfig
  FileDecides
  PowerOfTwoSizes
PROPERTIES
  ReloadCompletes
CHECK_DEADLOCK FALSE
