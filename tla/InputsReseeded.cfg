CONSTANTS
  Blank = Blank
  Template <- SmallTemplate
  Workbooks <- SmallWorkbooks
  MaxRuns = 2
SPECIFICATION WorkbookSpec
INVARIANT InputBlockKept
CHECK_DEADLOCK FALSE
