SPECIFICATION Spec
CONSTANTS
  Agents = {a, b}
  Runs = {r1, r2}
  MaxRoots = 2
  MaxDepth = 1
  MaxElected = 1
SYMMETRY Symmetry
INVARIANTS LinksHaveRuns LoneRunKeepsLink RunsActForTheirRoot LonePostContinues
CHECK_DEADLOCK FALSE
