\* Chunks of three bytes, a head limit of six, a copy buffer of two.
SPECIFICATION FairSpec
CONSTANTS
  cr = cr
  lf = lf
  sw = sw
  x = x
  y = y
  CR = cr
  LF = lf
  Switching = sw
  Byte <- MCByte
  Script <- MCScript
  Chunk = 3
  MaxHead = 6
  CopyCap = 2
INVARIANTS WsTypeOK HeadLimit OrderlyEndLosesNothing
PROPERTIES DownStream UpStream BothEndedIsOver WindsDown Delivered
\* A connection ends.
CHECK_DEADLOCK FALSE
