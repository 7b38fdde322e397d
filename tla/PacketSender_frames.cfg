SPECIFICATION FairSpec
CONSTANTS
  Sessions = {s1, s2, s3}
  NoSession = NoSession
  Sender = Sender
  Ender = Ender
  Prober = Prober
  Capacity = 2
  Environment = {}
  BlockSize = 5
  PrefixSize = 2
  FrameHeader = 2
  MaxFrame = 5200
  Percentages = {1, 20, 100, 255}
  Minimums = {0, 1, 2}
INVARIANTS SenderServes FramesFit ShardsDecode
 
CHECK_DEADLOCK FALSE
