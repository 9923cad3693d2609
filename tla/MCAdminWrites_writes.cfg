\* Edits, deletions and batches on one device, reviews that grow old; and two
\* profiles, the retry of a batch and of its child.
SPECIFICATION WritesSpec
CONSTANTS
  N = 1
  Profiles = {a, b}
  Changes = {"Device", "Delete"}
  Replacements = {{}, {1}}
  Width = 1
  MaxAge = 0
  MaxId = 5
  MaxClock = 1
  Scenarios <- Competing
INVARIANTS OneWriterPerResource OnlyReviewedIsWritten NoOrphanedLock
