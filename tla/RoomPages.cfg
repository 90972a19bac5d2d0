SPECIFICATION PagesSpec
CONSTANTS
  None = none
  h1 = h1
  h2 = h2
  t1 = t1
  t2 = t2
  Humans = {h1}
  Tasks = {t1, t2}
  Owner <- TaskOwner
  MaxAsks = 2
  MaxConnections = 2
  MaxStreams = 2
  MaxFrames = 1
  recent = recent
  project = project
  a1 = a1
  People = {h1, h2}
  IdOrder <- OrderOfIds
  Apps = {a1, a2, a3}
  Requests = {r1, r2}
  NoApp = none
  MaxInstances = 2
  MaxInFlight = 1
  MaxNonce = 2
SYMMETRY Symmetry
INVARIANTS TypesOK StartStays DialogIsTrue ChatSeesItsApp AskedHosts HumanIsShown
CHECK_DEADLOCK FALSE
