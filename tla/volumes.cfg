SPECIFICATION Spec
CONSTANTS
  a1 = a1
  a2 = a2
  v1 = v1
  v2 = v2
  data = data
  files = files
  None = None
  Down = Down
  New = New
  App = {a1, a2}
  Server = {a1, a2}
  Vol = {v1, v2}
  Kept = {v1}
  Path = {data, files}
  Home <- MCHome
  Modes = {"config", "candidate"}
  MaxFaults = 2
  MaxEdits = 2
SYMMETRY Symmetry

  
PROPERTIES
  
  CompensatedLetsGo
CHECK_DEADLOCK FALSE
