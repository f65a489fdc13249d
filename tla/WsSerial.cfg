\* One client that awaits every answer, with every kind of write; git works, the server stays up.
SPECIFICATION FairSpec
CONSTANTS
  c1 = c1
  c2 = c2
  c3 = c3
  f = f
  g = g
  writer = writer
  proposer = proposer
  Calls = {c1, c2, c3}
  Files = {f, g}
  Callers = {writer, proposer}
  Stamps = {1}
  Default = main
  Absent = absent
  Branches <- MCBranches
  Perms <- MCPerms
  Approvers <- MCApprovers
  Menu <- SerialMenu
  GitEnabled = TRUE
  RequireRead = TRUE
  Exclusive = TRUE
  MaxFaults = 0
  MaxCrashes = 0
INVARIANTS UnapprovedStaysOffDefault AckedWritesAreOnDefault QuietIsClean
PROPERTIES EveryCallAnswered HeadComesHome ImplementsStore
