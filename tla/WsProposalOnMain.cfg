\* A proposal that overlaps another call.
SPECIFICATION Spec
CONSTANTS
  c1 = c1
  c2 = c2
  c3 = c3
  f = f
  g = g
  writer = writer
  proposer = proposer
  Calls = {c1, c2}
  Files = {f, g}
  Callers = {writer, proposer}
  Stamps = {1}
  Default = main
  Absent = absent
  Branches <- MCBranches
  Perms <- MCPerms
  Approvers <- MCApprovers
  Menu <- EditsMenu
  GitEnabled = TRUE
  RequireRead = TRUE
  Exclusive = FALSE
  MaxFaults = 0
  MaxCrashes = 0
INVARIANTS UnapprovedStaysOffDefault
