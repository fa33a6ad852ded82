SPECIFICATION FairSpec
CONSTANTS
  SigLen = 2
  Chunk = 3
  MinImage = 2
  MaxSize = 8
  SlotSize = 5
  MaxLen = 9
  Uploads <- MCUploads
INVARIANTS
  TypeOK
  UploadInv
  GenuineVerifies
  OkMeansInstalled
  NothingLeaks
PROPERTIES
  FlipsOnlySigned
  EveryUploadAnswered
  KeepsPromise
