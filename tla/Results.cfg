SPECIFICATION ResultsSpec
CONSTANTS
  Words = {"a", "b"}
  Calls = {c1, c2}
  WorkDir <- AbsoluteDir
  Cwd <- Nowhere
  Paths <- TwoPaths
  Inputs <- AllInputs
  Contents <- SomeContents
  Edits <- SomeEdits
  Writes <- SomeWrites
  MaxLen = 3
  Absent = Absent
  NoPath = NoPath
  Bytes = {a, b}
  maxSize = 2
  MaxChunk = 3
  MaxTotal = 4
  maxLen = 2
  MaxOutput = 3
  Runs = {r1, r2}
  Prints = {f, g}
  Threshold = 1
  MaxChecks = 3
  NoPrint = NoPrint
\* Window of 4 behind the prompt, the last 2 protected.
  Limit = 4
  MaxChars = 12
  RetainLast = 2
  MaskAbove = 2
  MaskNote = 1
  MaxKeep = 4
  TrimNote = 1
  Prompt = 3
  Lengths = {0, 3, 9}
  MaxCalls = 2
  MaxHistory = 5
CHECK_DEADLOCK FALSE
INVARIANTS
  SandboxKept
  EditIsLocal
  AmbiguousRefused
  RingTypeOK
  KeepsTheTail
  ReportIsATail
  ReportTrue
  NoPhantomFailures
  NudgeExact
  EvidenceKept
  OutputsBounded
  RequestAccepted
PROPERTIES
  SoleWriterExact
  AdviceFits
  BudgetKept
