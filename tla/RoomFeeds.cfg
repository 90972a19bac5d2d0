SPECIFICATION FeedsSpec
CONSTANTS
  Residents = {r1}
  Pollers = {p1}
  None = None
  MaxMessages = 1
  MaxAttachments = 1
  MaxEntries = 3
  MaxUploads = 1
  MaxWire = 1
  ra = ra  rb = rb  rc = rc
  Transcribers = {ra, rb, rc}
  HostOf <- OnHost
  Nobody = Nobody
  MaxSegments = 2
  MaxAttempts = 2
  PageLimit = 1
  MaxEpochs = 2
  MaxUtterances = 2
  MaxLosses = 1
  sa = sa  sb = sb  u1 = u1  u2 = u2
  Publishers = {sa, sb}
  Visitor = visitor
  Bodies = {u1, u2}
  Pieces = 2
  MaxSurfaces = 1
  MaxSnapshots = 2
INVARIANTS TypesOK EventsAreServed SpokenOnce ReadersMissNothing SubmissionsArrive PagesShowTheAgent SurfacesHold
PROPERTIES LogKept
CHECK_DEADLOCK FALSE
