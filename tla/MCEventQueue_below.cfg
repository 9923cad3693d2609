\* Fair scheduling, never more events outstanding than the queue holds.
CONSTANTS
  Workers = {w1, w2}
  Inputs = {in}
  Tickers = {}
  Receiver = loop
  Capacity = 6
  MaxSends = 2
SPECIFICATION FairSpec
CHECK_DEADLOCK FALSE
PROPERTIES ImplementsFairChannel
