SPECIFICATION Spec
CONSTANTS
  Residents = {r1}
  Pollers = {p1}
  None = None
  MaxMessages = 1
  MaxAttachments = 1
  MaxEntries = 2
  MaxUploads = 1
  MaxWire = 1
PROPERTIES SurfaceLeavesEvents
