\* A proposed doc_rename of a document that a wiki link names.
SPECIFICATION FairSpec
CONSTANTS
  a = a
  b = b
  m = m
  A = A
  B = B
  root = root
  docs = docs
  plain = plain
  wiki = wiki
  path = path
  broken = broken
  h1 = h1
  h2 = h2
  Files = {a, b, m}
  Names = {A, B}
  Base <- MCBase
  Folders = {root, docs}
  Root = root
  Within <- MCWithin
  Above <- MCAbove
  Parent <- MCParent
  Texts = {plain, wiki}
  Broken = {}
  LinksIn <- MCLinks
  Absent = absent
  Handlers = {h1}
  Kinds = {"rename"}
  Proposes = {TRUE}
  Overlap = FALSE
  Others = FALSE
  Background = FALSE
  Semantic = FALSE
  Interval = 2
  MaxClock = 3
  MaxCrashes = 0
CHECK_DEADLOCK FALSE
PROPERTIES LinksResolve
