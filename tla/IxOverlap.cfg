\* One writer of every kind; other programs at any time; a crash.
SPECIFICATION Spec
CONSTANTS
  a = a
  b = b
  m = m
  A = A
  B = B
  root = root
  docs = docs
  plain = plain
  wiki = wiki
  path = path
  broken = broken
  h1 = h1
  h2 = h2
  Files = {a, m}
  Names = {A, B}
  Base <- MCBase
  Folders = {root}
  Root = root
  Within <- MCWithin
  Above <- MCAbove
  Parent <- MCParent
  Texts = {wiki, path, broken}
  Broken = {broken}
  LinksIn <- MCLinks
  Absent = absent
  Handlers = {h1}
  Kinds = {"edit", "create", "rename", "text_rename", "delete"}
  Proposes = {TRUE, FALSE}
  Overlap = TRUE
  Others = TRUE
  Background = FALSE
  Semantic = FALSE
  Interval = 2
  MaxClock = 2
  MaxCrashes = 1
CHECK_DEADLOCK FALSE
INVARIANTS TypeOK NoDanglingRows
