SPECIFICATION ReminderSpec
CONSTANTS
  Runs = {r1}
  Prints = {f, g}
  Threshold = 3
  MaxChecks = 5
  NoPrint = NoPrint
CHECK_DEADLOCK FALSE
INVARIANT NudgeSaysConsecutive
