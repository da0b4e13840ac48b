CONSTANTS
  Lens = {1, 4, 5}
  MaxMsgs = 3
  Keys = {k1, k2, Plain}
  Plain = Plain
  PrefixLen = 2
  MaxSize = 5
  MaxChunk = 3
  Overhead = 1
SPECIFICATION FairSpec
INVARIANT TypeOK
PROPERTY ChannelSpec
CHECK_DEADLOCK FALSE
