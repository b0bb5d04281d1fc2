CONSTANTS
  Callers = {c1, c2}
  Paths <- MCPaths
  Vids = {v1, v2}
  NoVol = NoVol
  Miss = Miss
  MaxCRs = 2
SPECIFICATION Spec
INVARIANT OneCRPerPath
