SPECIFICATION FairSpec
CONSTANT PartCount = 4
PROPERTY
  FailedUploadIsAborted
CHECK_DEADLOCK FALSE
