\* Edits and deletions, the startup sync and the embedding pass between them, a crash.
SPECIFICATION Spec
CONSTANTS
  a = a
  b = b
  m = m
  A = A
  B = B
  root = root
  docs = docs
  plain = plain
  wiki = wiki
  path = path
  broken = broken
  h1 = h1
  h2 = h2
  Files = {a, m}
  Names = {A, B}
  Base <- MCBase
  Folders = {root}
  Root = root
  Within <- MCWithin
  Above <- MCAbove
  Parent <- MCParent
  Texts = {plain, path}
  Broken = {}
  LinksIn <- MCLinks
  Absent = absent
  Handlers = {h1}
  Kinds = {"edit", "delete"}
  Proposes = {TRUE, FALSE}
  Overlap = FALSE
  Others = TRUE
  Background = TRUE
  Semantic = TRUE
  Interval = 2
  MaxClock = 2
  MaxCrashes = 1
CHECK_DEADLOCK FALSE
PROPERTIES OnlyLateAnswersMislead
