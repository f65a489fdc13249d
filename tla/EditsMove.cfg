\* A section moved to be the child of another.
SPECIFICATION EditsSpec
CONSTANTS
  Levels = {1, 3}
  Titles <- MCTitles
  Contents <- MCContents
  BatchKinds = {"delete", "rename", "append"}
  Words <- MCWords
  Underlined <- MCUnderlined
  Documents <- MCDocuments
  Earlier <- MCEarlier
  MaxCalls = 1
  PlainText <- MCPlainText
  Folded <- MCFolded
  Tables = {}
  Wheres <- MCWheres
  Numbers <- MCNumbers
  Records <- MCRecords
  MaxBatches = 1
  Letters = {"x", " "}
  Spaces = {" "}
  MaxLength = 0
  Snippets <- MCSnippets
  MaxEdits = 1
CHECK_DEADLOCK FALSE
PROPERTIES MovedIsChild
