CONSTANT N = 2
SPECIFICATION FairSpec
INVARIANTS
  ResultIsOfLastRun
  StopEndsUpload
  UploadTriesAll
PROPERTIES
  AbortForgotten
  WorkEnds
