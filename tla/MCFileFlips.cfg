SPECIFICATION FilesSpec
CONSTANTS
  NumFiles = 2
  FileTexts = {a, b}
  MaxLog = 3
  MaxFlips = 3
INVARIANT
  RootsCurrent
