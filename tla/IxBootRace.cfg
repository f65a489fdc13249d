\* A document is renamed while the startup sync runs in the background.
SPECIFICATION Spec
CONSTANTS
  a = a
  b = b
  m = m
  A = A
  B = B
  root = root
  docs = docs
  plain = plain
  wiki = wiki
  path = path
  broken = broken
  h1 = h1
  h2 = h2
  Files = {a, b, m}
  Names = {A, B}
  Base <- MCBase
  Folders = {root}
  Root = root
  Within <- MCWithin
  Above <- MCAbove
  Parent <- MCParent
  Texts = {path}
  Broken = {}
  LinksIn <- MCLinks
  Absent = absent
  Handlers = {h1}
  Kinds = {"rename"}
  Proposes = {FALSE}
  Overlap = FALSE
  Others = TRUE
  Background = TRUE
  Semantic = FALSE
  Interval = 2
  MaxClock = 3
  MaxCrashes = 0
CHECK_DEADLOCK FALSE
INVARIANTS LinksFollowText
