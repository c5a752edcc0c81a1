CONSTANTS
  Card = {kept, other}
  NoCard = NoCard
  Chunks = 2
SPECIFICATION FairSpec
INVARIANT LossIsReported
PROPERTIES TransferOnOneCard GivenUpLast CallsReturn
