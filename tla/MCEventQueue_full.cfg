\* Fair scheduling, more workers reporting at once than the queue holds.
CONSTANTS
  Workers = {w1, w2, w3}
  Inputs = {}
  Tickers = {tick}
  Receiver = loop
  Capacity = 2
  MaxSends = 1
SPECIFICATION FairSpec
PROPERTY EveryReportArrives
