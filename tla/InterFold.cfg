SPECIFICATION Spec
CONSTANTS
  Requests = {q1, q2, q3}
  Gated = {a, b}
  Plain = {p}
  MaxRuns = 1
  MaxExec = 1
  MaxFaults = 1
  MaxCrashes = 1
SYMMETRY Symmetry
INVARIANT OnlyApprovedCallsRun
INVARIANT BatchAnsweredWhole
PROPERTY VerdictIsFinal
