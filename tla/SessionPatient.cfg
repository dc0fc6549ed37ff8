SPECIFICATION PatientSpec
CONSTANTS
  a1 = a1
  a2 = a2
  a3 = a3
  n1 = n1
  n2 = n2
  c = c
  h = h
  v = v
  w = w
  p1 = p1
  d1 = d1
  AppIds = {a1, a2, a3}
  Names = {n1, n2}
  DefaultName = n1
  FileNames = {c, h}
  Sources = {c}
  Contents = {v, w}
  Rejected = Rejected
  NoFile = NoFile
  Patterns = {p1}
  AppLoads <- MCAppLoads
  ExtLoads <- MCExtLoads
  Drops = {d1}
  MaxApps = 2
  MaxQueue = 2
  NoDrop = NoDrop
  NoAnalysis = NoAnalysis
  NoApp = NoApp
SYMMETRY Symmetry
INVARIANTS TypeOK RoundTrip AnalysisCurrent
PROPERTIES DropsAreAdditive
CHECK_DEADLOCK FALSE
