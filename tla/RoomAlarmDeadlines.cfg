SPECIFICATION FairSpec
CONSTANTS
  h1 = h1
  a1 = a1
  a2 = a2
  Humans <- OneHuman
  Agents <- OneAgent
  NoRoom = NoRoom
  LEASE = 6
  GRACE = 2
  RETRY = 2
  EMPTY = 8
  HEARTBEAT = 2
  NO_EXPIRY = 99
  MaxAge = 7
INVARIANTS TypeOK NothingOverdue OccupiedNeverExpires
PROPERTIES OpenSocketStays AbsenceEnds
