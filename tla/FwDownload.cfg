SPECIFICATION FairSpec
CONSTANTS
  Image <- EagleFw
  ImageLen <- EagleFwLen
  Watched <- Borders
  Untouched = Untouched
INVARIANTS InPlace NothingElseWritten
PROPERTIES DownloadEnds
CHECK_DEADLOCK FALSE
