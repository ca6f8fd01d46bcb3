CONSTANTS
  s1 = s1
  s2 = s2
  c1 = c1
  c2 = c2
  None = None
  Sessions = {s1, s2}
  Calls = {c1, c2}
  PartSize = 1
  MaxCopies = 2
  MaxAborts = 1
  MaxJobs = 1
  Requests <- EitherBackend
  PartData <- Bodies
SPECIFICATION UploadSpec
SYMMETRY CallSymmetry
CONSTRAINT RemoteIsAlone
INVARIANT UploadTypeOK
INVARIANT AnnouncedContentKept
INVARIANT RecordedPartsAreStaged
PROPERTY CompleteIsLeftByLateCalls
CHECK_DEADLOCK FALSE
