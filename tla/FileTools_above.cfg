SPECIFICATION Spec
CONSTANTS
  Words = {"a", "b"}
  Calls = {c1}
  WorkDir <- ParentDir
  Cwd <- Beneath
  Paths <- TwoPaths
  Inputs <- AllInputs
  Contents <- SomeContents
  Edits <- SomeEdits
  Writes <- SomeWrites
  MaxLen = 3
  Absent = Absent
  NoPath = NoPath
CHECK_DEADLOCK FALSE
INVARIANT NeverEscapes
