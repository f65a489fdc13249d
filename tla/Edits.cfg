\* Section edits, table edits and line edits of small documents.
SPECIFICATION EditsSpec
CONSTANTS
  Levels = {1, 3}
  Titles <- MCTitles
  Contents <- MCContents
  BatchKinds = {"delete", "rename", "append"}
  Words <- MCWords
  Underlined <- MCUnderlined
  Documents <- MCDocuments
  Earlier <- MCEarlier
  MaxCalls = 1
  PlainText <- MCPlainText
  Folded <- MCFolded
  Tables <- MCTables
  Wheres <- MCWheres
  Numbers <- MCNumbers
  Records <- MCRecords
  MaxBatches = 1
  Letters = {"x", " "}
  Spaces = {" "}
  MaxLength = 5
  Snippets <- MCSnippets
  MaxEdits = 1
CHECK_DEADLOCK FALSE
INVARIANTS SectionsNest IndexPathsResolve BatchIsItsCalls UnpickedRowsStay OtherLinesStay
PROPERTIES OthersStayPut WrittenReadsBack AnchorsStay FreshAnchorsAreFree
