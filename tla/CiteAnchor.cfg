\* A citation into a document whose Citations heading has an anchor, tried again.
SPECIFICATION ServiceSpec
CONSTANTS
  r1 = r1
  r2 = r2
  r3 = r3
  Requests = {r1, r2, r3}
  Calls = {r1, r2, r3}
  Ids = {1, 2}
  Limiters = {1, 2}
  Setups <- OnlyAnchored
  Minimal <- MCMinimal
  Triggers = {"stdin", "signal"}
  Cleanups = {"ends", "throws", "hangs"}
  MaxCrashes = 1
  NoId = NoId
  NoRequest = NoRequest
  NoName = NoName
  NoKey = NoKey
  NoRole = NoRole
  CallerConfigs <- MCConfigs
  CallerOrder <- MCOrder
  Providers <- MCProviders
  FactsOf <- MCFacts
  Lower <- MCLower
  RoleScopes <- MCRoles
  LocalGroups <- MCGroups
  Bindings <- MCBindings
  DefaultRole = "reader"
  Matching <- MCMatching
  Callers <- MCCallers
  Targets = {"b", "g", "h", "n"}
  GitTargets = {"g", "h"}
  Spellings <- MCSpellings
  FileOf <- MCFileOf
  Opening <- MCOpening
  Additions <- MCAdditions
  Sources = {"w", "l", "x", "f", "m", "o", "p", "s", "i"}
  Kind <- MCKind
  Unprintable = {"s"}
  Published <- MCPublished
  Revisions <- MCRevisions
  RequireRead = FALSE
  PerMinute = 1
  Window = 2
  MaxNow = 2
  MaxEdits = 1
  MaxChanges = 1
  MaxFaults = 1
  NoTarget = "**"
  NoEtag = NoEtag
  Gone = Gone
  NoCall = NoCall
  Digits = {"1", "2"}
  WordChars = {"a", "c", "d", "_"}
  Blanks = {" "}
  Stripped = {}
  Fold <- MCFold
  CiteHeading = "citations"
CHECK_DEADLOCK FALSE
INVARIANT VerifiedHasItsLine
