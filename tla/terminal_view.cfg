SPECIFICATION TerminalFairSpec
CONSTANTS
  Windows <- MCWindows
  Page = 2
  MaxRow = 1
  MaxSearches = 2
  MaxKeys = 1
INVARIANTS ViewComplete OneActiveSearch
PROPERTIES SelectionKept QuitEnds
\* The terminal was left.
CHECK_DEADLOCK FALSE
