\* Startup, then one writer, other programs between its calls; time runs past the interval.
SPECIFICATION Spec
CONSTANTS
  a = a
  b = b
  m = m
  A = A
  B = B
  root = root
  docs = docs
  plain = plain
  wiki = wiki
  path = path
  broken = broken
  h1 = h1
  h2 = h2
  Files = {a, m}
  Names = {A, B}
  Base <- MCBase
  Folders = {root, docs}
  Root = root
  Within <- MCWithin
  Above <- MCAbove
  Parent <- MCParent
  Texts = {plain, path}
  Broken = {}
  LinksIn <- MCLinks
  Absent = absent
  Handlers = {h1}
  Kinds = {"edit", "create", "rename"}
  Proposes = {TRUE, FALSE}
  Overlap = FALSE
  Others = TRUE
  Background = FALSE
  Semantic = FALSE
  Interval = 2
  MaxClock = 3
  MaxCrashes = 0
CHECK_DEADLOCK FALSE
INVARIANTS SkippedIsCurrent LinksFollowText
PROPERTIES SearchSeesDisk NotHiddenLong
