SPECIFICATION BusySpec
CONSTANTS
  a1 = a1
  a2 = a2
  a3 = a3
  n1 = n1
  n2 = n2
  c = c
  h = h
  v = v
  w = w
  p1 = p1
  d1 = d1
  d2 = d2
  AppIds = {a1, a2, a3}
  Names = {n1}
  DefaultName = n1
  FileNames = {c, h}
  Sources = {c}
  Contents = {v}
  Rejected = Rejected
  NoFile = NoFile
  Patterns = {}
  AppLoads <- MCAppLoadsFew
  ExtLoads <- MCExtLoadsFew
  Drops = {d1, d2}
  MaxApps = 2
  MaxQueue = 2
  NoDrop = NoDrop
  NoAnalysis = NoAnalysis
  NoApp = NoApp
SYMMETRY Symmetry
PROPERTY DropsAreAdditive
CHECK_DEADLOCK FALSE
