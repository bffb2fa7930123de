CONSTANTS
  Presses = {p, q}
SPECIFICATION ReadinessSpec
INVARIANTS
  RunsOncePerWait
