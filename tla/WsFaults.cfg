\* One client; one git command fails and the server dies once.
SPECIFICATION Spec
CONSTANTS
  c1 = c1
  c2 = c2
  c3 = c3
  f = f
  g = g
  writer = writer
  proposer = proposer
  Calls = {c1, c2, c3}
  Files = {f, g}
  Callers = {writer, proposer}
  Stamps = {1}
  Default = main
  Absent = absent
  Branches <- MCBranches
  Perms <- MCPerms
  Approvers <- MCApprovers
  Menu <- MixedMenu
  GitEnabled = TRUE
  RequireRead = TRUE
  Exclusive = TRUE
  MaxFaults = 1
  MaxCrashes = 1
INVARIANTS NoHalfMerge
PROPERTIES NoUnseenOverwrite DefaultMovesByRight MergesLandOnDefault NoProposalLost
