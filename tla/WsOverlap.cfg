\* Three overlapping handlers of every kind, one review among them.
SPECIFICATION Spec
CONSTANTS
  c1 = c1
  c2 = c2
  c3 = c3
  f = f
  g = g
  writer = writer
  proposer = proposer
  Calls = {c1, c2, c3}
  Files = {f, g}
  Callers = {writer, proposer}
  Stamps = {1}
  Default = main
  Absent = absent
  Branches <- MCBranches
  Perms <- MCPerms
  Approvers <- MCApprovers
  Menu <- OverlapMenu
  GitEnabled = TRUE
  RequireRead = TRUE
  Exclusive = FALSE
  MaxFaults = 0
  MaxCrashes = 0
INVARIANTS TypeOK TextIsAuthorised DefaultSurvives
