\* A queue of two places under two producers and the interval, which always ticks.
CONSTANTS
  Workers = {w1}
  Inputs = {in}
  Tickers = {tick}
  Receiver = loop
  Capacity = 2
  MaxSends = 3
SPECIFICATION FairSpec
INVARIANT WorkerEventsArriveOnce
PROPERTIES ImplementsChannel TickKeepsQueueMoving
