\* A save that meets another, a rewritten draft, children that meet the editor, a
\* second workflow, and a review that grows old.
SPECIFICATION FairSpec
CONSTANTS
  Mouse = FALSE
  Slots = {1, 2}
  Bounds <- Scenarios
  Docs = {d1, d2}
  Original = d1
  Unreadable = bad
  Paths = {1, 2}
  Requests = {1, 2}
  MaxApplyAge = 0
CHECK_DEADLOCK FALSE
INVARIANTS FailureMeansUnsaved NothingLeftBehind TerminalIsOwned
PROPERTIES SavesReviewedDraft TerminalReturns RequestsEnd
