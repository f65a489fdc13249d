\* A table of contents generated twice.
SPECIFICATION EditsSpec
CONSTANTS
  Levels = {}
  Titles <- OneTitle
  Contents <- OneContent
  BatchKinds = {"delete", "rename", "append"}
  Words <- MCWords
  Underlined <- MCUnderlined
  Documents <- WithIntro
  Earlier <- MCEarlier
  MaxCalls = 2
  PlainText <- MCPlainText
  Folded <- MCFolded
  Tables = {}
  Wheres <- MCWheres
  Numbers <- MCNumbers
  Records <- MCRecords
  MaxBatches = 1
  Letters = {"x", " "}
  Spaces = {" "}
  MaxLength = 0
  Snippets <- MCSnippets
  MaxEdits = 1
CHECK_DEADLOCK FALSE
PROPERTIES TocKeepsText
