\* Two requests under way over two roots, and an anchor of either.
SPECIFICATION FairSpec
CONSTANTS
  Root = {r1, r2}
  NotHex = notHex
  NotJson = notJson
  Call = {c1, c2}
  MaxCount = 2
INVARIANTS
  TokensAreOfTheirRoot
  AnchorsKeepTheirRoot
PROPERTY EveryRequestSettles
