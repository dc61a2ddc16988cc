\* A history of two commands, that can be set to one or three; two variables and room
\* for one; a value that is longer than the name it replaces.
CONSTANTS
  Lines <- MCLines
  Names = {"v", "w"}
  Values = {"long"}
  Sizes = {0, 1, 3}
  Installed = {"a"}
  Texts <- MCTexts
  Length <- MCLength
  DEFAULT_HISTORY_SIZE = 2
  MAX_VARS = 1
SPECIFICATION Spec
INVARIANT HistoryInvariant
 
CHECK_DEADLOCK FALSE
