\* Up to three pages of the explorer and of the main menu, one of a file's
\* menu with every pattern of hidden entries.
CONSTANTS
  MaxFiles = 4
  Embedded = 2
  MaxScripts = 3
  Rows <- FewRows
SPECIFICATION FairSpec
INVARIANTS StartsOnAnEntry ShowsTheChoice
PROPERTIES ReturnsAChoice EndsAreReached
\* A user who presses one button only ends where it leads to, and what newMenu
\* does behind the entries is not followed.
CHECK_DEADLOCK FALSE
