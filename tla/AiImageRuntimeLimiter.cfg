SPECIFICATION Spec
CONSTANTS
  r1 = r1
  r2 = r2
  r3 = r3
  r4 = r4
  r5 = r5
  c1 = c1
  c2 = c2
  Requests <- MCRequests
  Channels <- MCChannels
  ChannelOf <- MCChannelOf
  ChannelLimit <- MCChannelLimit
  PoolLimit <- MCPoolLimit
  Cap = 3
INVARIANTS TypeOK Accounting LimitsKept NoStall
