SPECIFICATION Spec
CONSTANTS
  a1 = a1  a2 = a2  h1 = h1  h2 = h2
  s1 = s1  s2 = s2  s3 = s3  m1 = m1  m2 = m2  w1 = w1  w2 = w2
  NoAgent = NoAgent  NoHost = NoHost  NoSession = NoSession  NoMid = NoMid
  Agents = {a1}
  Hosts = {h1}
  Sessions = {s1, s2}
  Mids = {m1, m2}
  Workers = {w1}
  HostsOf <- OneHost
  Projections <- AnyProjection
  MaxClosers = 2
  MaxPendingEntries = 1
  MaxMidsPerEntry = 2
  MaxSubscribedMids = 2
CONSTRAINT VoiceStaysSilent
SYMMETRY Symmetric
INVARIANTS TypeOK NoForgottenSubscription
PROPERTIES QueueDrainsOnlyClosed
